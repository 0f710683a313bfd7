------------------------- MODULE WinexeSessionProofs -------------------------
(***************************************************************************)
(* What a whole session of Winexe guarantees, for any number of            *)
(* connections and of chunks.  The invariants come in layers, each kept by *)
(* every step under the ones before it: IInv of WinexeProofs, Conversation *)
(* (the control pipe), Version (the question for it), Commanded (the       *)
(* command and its result), Delivered (its output) and Flags.  For each    *)
(* kind of step one lemma says what it does to wire, pipes and handlers,   *)
(* and the layers use that.                                                *)
(***************************************************************************)
EXTENDS WinexeProofs

-----------------------------------------------------------------------------
(* What waits on the wire.                                                 *)

None(w, S) == \A i \in DOMAIN w : w[i] \notin S
One(w, S) == \A i, j \in DOMAIN w : w[i] \in S /\ w[j] \in S => i = j
\* Whatever of T is there comes before all of S.
Before(w, T, S) == \A i, j \in DOMAIN w : w[i] \in S /\ w[j] \in T => j < i

LEMMA NoneEmpty == ASSUME NEW S PROVE None(<<>>, S) /\ One(<<>>, S)
BY DEF None, One

LEMMA NoneOne == ASSUME NEW w, NEW S, None(w, S) PROVE One(w, S)
BY DEF None, One

LEMMA NoneSub ==
    ASSUME NEW w, NEW S, NEW T, S \subseteq T
    PROVE  /\ None(w, T) => None(w, S)
           /\ One(w, T) => One(w, S)
BY DEF None, One

LEMMA AppendShape ==
    ASSUME NEW X, NEW w \in Seq(X), NEW r
    PROVE  /\ DOMAIN Append(w, r) = DOMAIN w \cup {Len(w) + 1}
           /\ \A i \in DOMAIN w : Append(w, r)[i] = w[i]
           /\ Append(w, r)[Len(w) + 1] = r
           /\ \A i \in DOMAIN w : i < Len(w) + 1
OBVIOUS

LEMMA NoneAppend ==
    ASSUME NEW X, NEW w \in Seq(X), NEW r, NEW S
    PROVE  None(Append(w, r), S) <=> None(w, S) /\ r \notin S
BY AppendShape DEF None

LEMMA OneAppend ==
    ASSUME NEW X, NEW w \in Seq(X), NEW r, NEW S, One(w, S), r \notin S \/ None(w, S)
    PROVE  One(Append(w, r), S)
BY AppendShape DEF None, One

LEMMA BeforeAppend ==
    ASSUME NEW X, NEW w \in Seq(X), NEW r, NEW S, NEW T, Before(w, T, S),
           r \notin T \/ None(w, S), r \notin S \cap T
    PROVE  Before(Append(w, r), T, S)
BY AppendShape DEF None, Before

LEMMA TailShape ==
    ASSUME NEW X, NEW w \in Seq(X), w # <<>>
    PROVE  /\ Head(w) = w[1] /\ 1 \in DOMAIN w
           /\ \A i \in DOMAIN Tail(w) :
                 i + 1 \in DOMAIN w /\ Tail(w)[i] = w[i + 1] /\ i \in Nat \ {0}
           /\ \A i \in DOMAIN w : i = 1 \/ (i - 1 \in DOMAIN Tail(w) /\ i \in Nat /\ i > 1)
OBVIOUS

LEMMA NoneTail ==
    ASSUME NEW X, NEW w \in Seq(X), w # <<>>, NEW S
    PROVE  None(w, S) <=> Head(w) \notin S /\ None(Tail(w), S)
<1>1. None(w, S) => Head(w) \notin S /\ None(Tail(w), S)
  BY TailShape DEF None
<1>2. ASSUME Head(w) \notin S, None(Tail(w), S), NEW i \in DOMAIN w
      PROVE  w[i] \notin S
  <2>1. CASE i = 1
    BY <1>2, <2>1, TailShape
  <2>2. CASE i # 1
    <3>1. i - 1 \in DOMAIN Tail(w) /\ i \in Nat
      BY <2>2, TailShape
    <3>2. Tail(w)[i - 1] = w[(i - 1) + 1]
      BY <3>1, TailShape
    <3> QED BY <1>2, <3>1, <3>2 DEF None
  <2> QED BY <2>1, <2>2
<1> QED BY <1>1, <1>2 DEF None

LEMMA OneTail ==
    ASSUME NEW X, NEW w \in Seq(X), w # <<>>, NEW S, One(w, S)
    PROVE  /\ One(Tail(w), S)
           /\ Head(w) \in S => None(Tail(w), S)
<1>1. ASSUME NEW i \in DOMAIN Tail(w), NEW j \in DOMAIN Tail(w),
             Tail(w)[i] \in S, Tail(w)[j] \in S
      PROVE  i = j
  <2>1. i + 1 = j + 1 /\ i \in Nat /\ j \in Nat
    BY <1>1, TailShape DEF One
  <2> QED BY <2>1
<1>2. ASSUME Head(w) \in S, NEW i \in DOMAIN Tail(w) PROVE Tail(w)[i] \notin S
  <2>1. i + 1 # 1 /\ i + 1 \in DOMAIN w /\ Tail(w)[i] = w[i + 1]
    BY TailShape
  <2> QED BY <1>2, <2>1, TailShape DEF One
<1> QED BY <1>1, <1>2 DEF One, None

LEMMA BeforeTail ==
    ASSUME NEW X, NEW w \in Seq(X), w # <<>>, NEW S, NEW T, Before(w, T, S)
    PROVE  /\ Before(Tail(w), T, S)
           /\ Head(w) \in S => None(Tail(w), T)
<1>1. ASSUME NEW i \in DOMAIN Tail(w), NEW j \in DOMAIN Tail(w),
             Tail(w)[i] \in S, Tail(w)[j] \in T
      PROVE  j < i
  <2>1. j + 1 < i + 1 /\ i \in Nat /\ j \in Nat
    BY <1>1, TailShape DEF Before
  <2> QED BY <2>1
<1>2. ASSUME Head(w) \in S, NEW i \in DOMAIN Tail(w) PROVE Tail(w)[i] \notin T
  <2>1. ~(i + 1 < 1) /\ i + 1 \in DOMAIN w /\ Tail(w)[i] = w[i + 1]
    BY TailShape
  <2> QED BY <1>2, <2>1, TailShape DEF Before
<1> QED BY <1>1, <1>2 DEF Before, None

LEMMA JoinShape ==
    ASSUME NEW X, NEW w \in Seq(X), NEW v \in Seq(X)
    PROVE  /\ \A i \in DOMAIN w : i \in DOMAIN (w \o v) /\ (w \o v)[i] = w[i]
           /\ \A i \in DOMAIN (w \o v) :
                 i \in DOMAIN w \/ \E j \in DOMAIN v : i = Len(w) + j /\ (w \o v)[i] = v[j]
           /\ Len(w) \in Nat
<1>1. Len(w \o v) = Len(w) + Len(v) /\ Len(w) \in Nat /\ Len(v) \in Nat
  OBVIOUS
<1>2. ASSUME NEW i \in DOMAIN (w \o v), i \notin DOMAIN w
      PROVE  \E j \in DOMAIN v : i = Len(w) + j /\ (w \o v)[i] = v[j]
  <2>1. i \in Nat /\ i > Len(w) /\ i <= Len(w) + Len(v)
    BY <1>1, <1>2
  <2>2. i - Len(w) \in DOMAIN v /\ i = Len(w) + (i - Len(w)) /\ (w \o v)[i] = v[i - Len(w)]
    BY <1>1, <2>1
  <2> QED BY <2>2
<1> QED BY <1>1, <1>2

LEMMA NoneJoin ==
    ASSUME NEW X, NEW w \in Seq(X), NEW v \in Seq(X), NEW S, None(v, S)
    PROVE  /\ None(w \o v, S) <=> None(w, S)
           /\ One(w, S) => One(w \o v, S)
<1>1. \A i \in DOMAIN (w \o v) : (w \o v)[i] \in S => i \in DOMAIN w /\ w[i] \in S
  BY JoinShape DEF None
<1>2. \A i \in DOMAIN w : i \in DOMAIN (w \o v) /\ (w \o v)[i] = w[i]
  BY JoinShape
<1> QED BY <1>1, <1>2 DEF None, One

LEMMA BeforeJoin ==
    ASSUME NEW X, NEW w \in Seq(X), NEW v \in Seq(X), NEW S, NEW T, None(v, S), None(v, T),
           Before(w, T, S)
    PROVE  Before(w \o v, T, S)
<1>1. \A i \in DOMAIN (w \o v) : (w \o v)[i] \in S \cup T => i \in DOMAIN w /\ (w \o v)[i] = w[i]
  BY JoinShape DEF None
<1> QED BY <1>1 DEF Before

-----------------------------------------------------------------------------
(* The kinds of replies.                                                   *)

Said == Answers(Results)
Of(what, p, results) == {r \in Said : r.what = what /\ r.pipe = p /\ r.result \in results}

\* What no request is answered with.
Malformed ==
    {r \in Said :
        \/ r.what = "open" /\ r.result \notin {"done", "notfound", "busy"}
        \/ /\ r.what = "read" /\ r.result # "failed"
           /\ \/ r.pipe = "ctrl" /\ r.result \notin Messages
              \/ r.pipe # "ctrl" /\ ~(r.pipe \in Streams /\ r.result = "chunk")}

CtrlOpens == Of("open", "ctrl", Results)
CtrlDone == Of("open", "ctrl", {"done"})
\* The control pipe was opened, but not as the last connection.
Misnumbered(n) == {r \in CtrlDone : r.conn # n}
CtrlCloses == Of("close", "ctrl", Results)
CtrlSays == Of("read", "ctrl", Messages)
Writes == Of("write", "ctrl", Results)

\* What is not about the control pipe, but for reads that fail.
Aside == {r \in Said \ Malformed : r.pipe # "ctrl" \/ (r.what = "read" /\ r.result = "failed")}

\* Reads that fail while they wait.
Failures == {r \in Said : r.what = "read" /\ r.result = "failed" /\ <<r.pipe, r.conn>> \in pending}

Apart(S, R) == S \cap R = {}

LEMMA Distinct ==
    /\ Messages \subseteq Results
    /\ {"failed", "chunk", "done", "notfound", "busy"} \subseteq Results
    /\ {"failed", "chunk", "done", "notfound", "busy"} \cap Messages = {}
BY WinexeAssumption DEF Results, Messages, Codes

LEMMA Kinds ==
    ASSUME NEW r \in Said
    PROVE  /\ \A what, p, results :
                 r \in Of(what, p, results) <=> r.what = what /\ r.pipe = p /\ r.result \in results
           /\ r \in CtrlOpens <=> r.what = "open" /\ r.pipe = "ctrl"
           /\ r \in CtrlDone <=> r.what = "open" /\ r.pipe = "ctrl" /\ r.result = "done"
           /\ \A n : r \in Misnumbered(n) <=> r \in CtrlDone /\ r.conn # n
           /\ r \in CtrlCloses <=> r.what = "close" /\ r.pipe = "ctrl"
           /\ r \in CtrlSays <=> r.what = "read" /\ r.pipe = "ctrl" /\ r.result \in Messages
           /\ r \in Writes <=> r.what = "write" /\ r.pipe = "ctrl"
           /\ r.what \in {"open", "read", "write", "close"} /\ r.pipe \in Pipes
           /\ r.conn \in 0..MaxConn /\ r.result \in Results
BY DEF Said, Answers, Of, CtrlOpens, CtrlDone, Misnumbered, CtrlCloses, CtrlSays, Writes

LEMMA Replying ==
    ASSUME NEW what \in {"open", "read", "write", "close"}, NEW p \in Pipes,
           NEW k \in 0..MaxConn, NEW result \in Results
    PROVE  /\ Reply(what, p, k, result) \in Said
           /\ Reply(what, p, k, result).what = what /\ Reply(what, p, k, result).pipe = p
           /\ Reply(what, p, k, result).conn = k /\ Reply(what, p, k, result).result = result
BY DEF Reply, Said, Answers

\* w2 is w followed by replies of R.
Adds(w2, w, R) == \E v \in Seq(R) : w2 = w \o v

\* Of what is apart from R, w2 has what w has.
Agree(w2, w, R) ==
    \A S : Apart(S, R) => (None(w2, S) <=> None(w, S)) /\ (One(w, S) => One(w2, S))

LEMMA AddsKeeps ==
    ASSUME NEW w \in Seq(Said), NEW R, R \subseteq Said, NEW w2, Adds(w2, w, R)
    PROVE  w2 \in Seq(Said) /\ Agree(w2, w, R)
<1>1. PICK v \in Seq(R) : w2 = w \o v
  BY DEF Adds
<1>2. v \in Seq(Said)
  OBVIOUS
<1>3. ASSUME NEW S, Apart(S, R) PROVE None(v, S)
  <2>1. \A i \in DOMAIN v : v[i] \in R
    OBVIOUS
  <2> QED BY <1>3, <2>1 DEF None, Apart
<1> QED BY <1>1, <1>2, <1>3, NoneJoin, Joining DEF Agree

LEMMA AddsNothing ==
    ASSUME NEW w \in Seq(Said), NEW R
    PROVE  Adds(w, w, R)
<1>1. <<>> \in Seq(R) /\ w = w \o <<>>
  OBVIOUS
<1> QED BY <1>1 DEF Adds

LEMMA AddsOne ==
    ASSUME NEW w \in Seq(Said), NEW R, NEW r \in R
    PROVE  Adds(Append(w, r), w, R)
<1>1. <<r>> \in Seq(R) /\ Append(w, r) = w \o <<r>>
  OBVIOUS
<1> QED BY <1>1 DEF Adds

LEMMA AsideApart ==
    /\ Aside \subseteq Said
    /\ Apart(Malformed, Aside) /\ Apart(CtrlOpens, Aside) /\ Apart(CtrlDone, Aside)
    /\ Apart(CtrlCloses, Aside) /\ Apart(CtrlSays, Aside) /\ Apart(Writes, Aside)
    /\ \A n : Apart(Misnumbered(n), Aside)
BY Distinct, Kinds DEF Apart, Aside

LEMMA Takes ==
    ASSUME NEW w \in Seq(Said), w # <<>>
    PROVE  /\ Tail(w) \in Seq(Said) /\ Head(w) \in Said
           /\ \A S : /\ None(w, S) <=> Head(w) \notin S /\ None(Tail(w), S)
                     /\ One(w, S) => /\ One(Tail(w), S)
                                     /\ Head(w) \in S => None(Tail(w), S)
BY NoneTail, OneTail, Dropping

LEMMA Puts ==
    ASSUME NEW w \in Seq(Said), NEW r \in Said
    PROVE  /\ Append(w, r) \in Seq(Said)
           /\ \A S : /\ None(Append(w, r), S) <=> None(w, S) /\ r \notin S
                     /\ One(w, S) /\ (r \notin S \/ None(w, S)) => One(Append(w, r), S)
BY NoneAppend, OneAppend

LEMMA Silence == /\ <<>> \in Seq(Said)
                 /\ \A S : None(<<>>, S) /\ One(<<>>, S)
BY NoneEmpty

-----------------------------------------------------------------------------
(* The conversation on the control pipe.                                   *)

Cur == fd["ctrl"]
Talking == state \in {"GETTING_VERSION", "RUNNING"}
InMain == flow \in {"mainUninstall", "mainInstall", "errorInstall"}
Reinstalling == flow \in {"reUninstall", "reInstall"}

\* Connections are numbered in the order of their opens, and each one arms at
\* most one timer.
Numbered ==
    /\ nconn \in 0..MaxConn /\ timers \in Nat
    /\ Cur <= nconn /\ ioWrite["ctrl"] <= Cur /\ timers <= Cur

\* An open of the control pipe is asked for, waits on the wire, or is used: one
\* at a time.
Opening ==
    /\ None(wire, CtrlCloses) /\ One(wire, CtrlOpens)
    /\ opening \in {<<>>, <<"ctrl">>}
    /\ opening # <<>> => None(wire, CtrlOpens)
    /\ ioRead["ctrl"] = 0
    /\ None(wire, Misnumbered(nconn))
    /\ ~None(wire, CtrlDone) => nconn > Cur /\ <<"ctrl", nconn>> \in ends
    /\ Up /\ None(wire, CtrlDone) => Cur = nconn
    /\ ~Reinstalling
Opened ==
    /\ None(wire, CtrlOpens)
    /\ Cur = nconn /\ Cur # 0
    /\ ~InMain
    /\ opening \in Seq(DataPipes)

\* Where the client is in its session, what it waits for.
Phases ==
    /\ flow \in {"mainUninstall", "mainInstall", "loop", "errorInstall", "reUninstall",
                 "reInstall", "exitUninstall", "exited", "killed"}
    /\ state \in {"OPENING", "GETTING_VERSION", "RUNNING", "CLOSING_FOR_REINSTALL"}
    /\ ~Up => ends = {} /\ pending = {} /\ wire = <<>> /\ opening = <<>>
    /\ state = "OPENING" => Opening
    /\ state # "OPENING" => Opened
    /\ state = "CLOSING_FOR_REINSTALL" => One(wire, CtrlCloses)
    /\ Talking => None(wire, CtrlCloses) /\ ioRead["ctrl"] = Cur /\ ~Reinstalling
    /\ Reinstalling => None(wire, CtrlCloses) /\ ioRead["ctrl"] = 0
    /\ InMain => opening = <<>> /\ None(wire, CtrlOpens)

\* One control pipe is open at a time, the current one or the next.
Controlled ==
    /\ \A k \in Conns : <<"ctrl", k>> \in ends =>
          k = nconn /\ (Talking \/ (state = "OPENING" /\ k > Cur /\ ~None(wire, CtrlDone)))
    /\ Talking /\ Up => <<"ctrl", Cur>> \in ends

\* Of the current control pipe either a read waits, or one answer is on the way.
Waiting ==
    /\ \A k \in Conns : <<"ctrl", k>> \in pending =>
          Talking /\ k = Cur /\ None(wire, CtrlSays) /\ reply[k] = "none"
    /\ One(wire, CtrlSays)
    /\ ~Talking => None(wire, CtrlSays)

\* A write request outlives its connection only by an abort, and the failure of
\* that write, which ends the client, is on the way.
Stale ==
    \/ ioWrite["ctrl"] \notin {0, Cur}
    \/ ioWrite["ctrl"] # 0 /\ (state = "OPENING" \/ Reinstalling)
StaleEnds ==
    Stale => /\ abort
             /\ flow \in {"exitUninstall", "exited", "killed"} \/ ~None(wire, Writes)

Conversation ==
    /\ wire \in Seq(Said) /\ None(wire, Malformed)
    /\ Numbered /\ Phases /\ Controlled /\ Waiting /\ StaleEnds

LEMMA InitConversation == Init => Conversation
<1> SUFFICES ASSUME Init PROVE Conversation
  OBVIOUS
<1>1. wire = <<>> /\ wire \in Seq(Said) /\ \A S : None(wire, S) /\ One(wire, S)
  BY Silence DEF Init
<1>2. Cur = 0 /\ ioRead["ctrl"] = 0 /\ ioWrite["ctrl"] = 0 /\ "ctrl" \in Pipes
  BY DEF Init, Cur, Pipes
<1>3. Numbered
  BY <1>2, ConnsNat DEF Init, Numbered
<1>4. Phases /\ Controlled /\ Waiting /\ StaleEnds
  BY <1>1, <1>2
  DEF Init, Phases, Controlled, Waiting, StaleEnds, Stale, Opening, Opened, Talking, InMain,
      Reinstalling, Up
<1> QED BY <1>1, <1>3, <1>4 DEF Conversation

-----------------------------------------------------------------------------
(* What the requests of the client add to the wire.                        *)

\* A read of a data pipe leaves the control pipe alone.
LEMMA DataReadAside ==
    ASSUME IInv, NEW p \in DataPipes, NEW h \in 0..MaxConn, NEW w \in Seq(Said),
           SendRead(<<p, h>>, w)
    PROVE  /\ Adds(wire', w, Aside)
           /\ reply' = reply
           /\ \A k \in Conns : <<"ctrl", k>> \in pending' <=> <<"ctrl", k>> \in pending
<1> DEFINE e == <<p, h>>
<1>1. e[1] = p /\ e[2] = h /\ p \in Pipes /\ p # "ctrl" /\ \A k : e # <<"ctrl", k>>
  BY DEF DataPipes, Pipes
<1>2. Reply("read", p, h, "failed") \in Aside
  BY <1>1, Replying, Distinct DEF Aside, Malformed
<1>3. p \in Streams => Reply("read", p, h, "chunk") \in Aside
  BY <1>1, Replying, Distinct DEF Aside, Malformed
<1>4. HasData(e) => p \in Streams /\ ReadReply(e) = Reply("read", p, h, "chunk")
  BY <1>1 DEF HasData, ReadReply
<1>5. reply = [k \in Conns |-> reply[k]]
  BY DEF IInv, Types, Speak
<1> HIDE DEF e
<1>6. CASE /\ e \in ends /\ HasData(e)
           /\ wire' = Append(w, ReadReply(e))
           /\ reply' = [k \in Conns |-> IF e = <<"ctrl", k>> THEN "none" ELSE reply[k]]
           /\ UNCHANGED pending
  BY <1>1, <1>3, <1>4, <1>5, <1>6, AddsOne
<1>7. CASE Open(e) /\ pending' = pending \cup {e} /\ wire' = w /\ UNCHANGED <<reply, buffered>>
  BY <1>1, <1>7, AddsNothing
<1>8. CASE /\ wire' = Append(w, Reply("read", e[1], e[2], "failed"))
           /\ UNCHANGED <<pending, reply, buffered>>
  BY <1>1, <1>2, <1>8, AddsOne
<1> QED BY <1>6, <1>7, <1>8 DEF SendRead, e

\* A read of the control pipe is answered by what the handler said before, waits,
\* or fails.
CtrlReads(h, w) ==
    \/ /\ h \in Conns /\ <<"ctrl", h>> \in ends /\ reply[h] # "none"
       /\ wire' = Append(w, Reply("read", "ctrl", h, reply[h]))
       /\ reply' = [reply EXCEPT ![h] = "none"]
       /\ UNCHANGED pending
    \/ /\ h \in Conns /\ <<"ctrl", h>> \in ends \cap inst /\ reply[h] = "none"
       /\ pending' = pending \cup {<<"ctrl", h>>}
       /\ wire' = w
       /\ UNCHANGED reply
    \/ /\ \/ <<"ctrl", h>> \notin ends
          \/ <<"ctrl", h>> \notin inst /\ (h \in Conns => reply[h] = "none")
       /\ wire' = Append(w, Reply("read", "ctrl", h, "failed"))
       /\ UNCHANGED <<pending, reply>>

LEMMA CtrlReadKinds ==
    ASSUME IInv, NEW h \in 0..MaxConn, NEW w \in Seq(Said), SendRead(<<"ctrl", h>>, w)
    PROVE  CtrlReads(h, w)
<1> DEFINE e == <<"ctrl", h>>
<1>1. e[1] = "ctrl" /\ e[2] = h /\ \A k : e = <<"ctrl", k>> <=> h = k
  OBVIOUS
<1>2. e \in ends \cup inst => h \in Conns
  BY DEF IInv, Types, EndTypes, Ends
<1>3. reply = [k \in Conns |-> reply[k]]
  BY DEF IInv, Types, Speak
<1>4. /\ HasData(e) <=> reply[h] # "none"
      /\ ReadReply(e) = Reply("read", "ctrl", h, reply[h])
  BY <1>1 DEF HasData, ReadReply, Streams
<1> HIDE DEF e
<1>5. CASE /\ e \in ends /\ HasData(e)
           /\ wire' = Append(w, ReadReply(e))
           /\ reply' = [k \in Conns |-> IF e = <<"ctrl", k>> THEN "none" ELSE reply[k]]
           /\ UNCHANGED pending
  <2>1. reply' = [reply EXCEPT ![h] = "none"]
    BY <1>1, <1>3, <1>5
  <2> QED BY <1>1, <1>2, <1>4, <1>5, <2>1 DEF CtrlReads, e
<1>6. CASE /\ Open(e) /\ ~HasData(e)
           /\ pending' = pending \cup {e}
           /\ wire' = w
           /\ UNCHANGED <<reply, buffered>>
  BY <1>2, <1>4, <1>6 DEF CtrlReads, e, Open
<1>7. CASE /\ e \notin ends \/ (e \notin inst /\ ~HasData(e))
           /\ wire' = Append(w, Reply("read", e[1], e[2], "failed"))
           /\ UNCHANGED <<pending, reply, buffered>>
  BY <1>1, <1>4, <1>7 DEF CtrlReads, e
<1> QED BY <1>5, <1>6, <1>7 DEF SendRead, e

\* What is not about reads of the control pipe.
LEMMA CtrlReadAdds ==
    ASSUME IInv, NEW h \in 0..MaxConn, NEW w \in Seq(Said), CtrlReads(h, w)
    PROVE  /\ Adds(wire', w, Aside \cup CtrlSays)
           /\ None(w, CtrlSays) => One(wire', CtrlSays)
           /\ \A k \in Conns : /\ reply'[k] \in {reply[k], "none"}
                               /\ <<"ctrl", k>> \in pending' =>
                                    \/ <<"ctrl", k>> \in pending
                                    \/ k = h /\ reply'[k] = "none" /\ wire' = w
<1>1. Reply("read", "ctrl", h, "failed") \in Aside
  BY Replying, Distinct DEF Aside, Malformed, Pipes
<1>2. CASE /\ h \in Conns /\ <<"ctrl", h>> \in ends /\ reply[h] # "none"
           /\ wire' = Append(w, Reply("read", "ctrl", h, reply[h]))
           /\ reply' = [reply EXCEPT ![h] = "none"]
           /\ UNCHANGED pending
  <2>1. reply[h] \in Messages /\ reply \in [Conns -> Messages \cup {"none"}]
    BY <1>2 DEF IInv, Types, Speak
  <2>2. Reply("read", "ctrl", h, reply[h]) \in CtrlSays
    BY <2>1, Replying, Kinds, Distinct DEF Pipes
  <2>3. Reply("read", "ctrl", h, reply[h]) \in Said
    BY <2>1, Replying, Distinct DEF Pipes
  <2>4. None(w, CtrlSays) => One(wire', CtrlSays)
    BY <1>2, <2>3, Puts, NoneOne
  <2>5. Adds(wire', w, Aside \cup CtrlSays)
    BY <1>2, <2>2, AddsOne
  <2> QED BY <1>2, <2>1, <2>4, <2>5
<1>3. CASE /\ pending' = pending \cup {<<"ctrl", h>>}
           /\ wire' = w /\ UNCHANGED reply /\ reply[h] = "none"
  BY <1>3, AddsNothing, NoneOne
<1>4. CASE /\ wire' = Append(w, Reply("read", "ctrl", h, "failed"))
           /\ UNCHANGED <<pending, reply>>
  <2>1. Reply("read", "ctrl", h, "failed") \notin CtrlSays
    BY <1>1, AsideApart DEF Apart
  <2>2. None(w, CtrlSays) => One(wire', CtrlSays)
    BY <1>1, <1>4, <2>1, Puts, NoneOne, AsideApart
  <2> QED BY <1>1, <1>4, <2>2, AddsOne
<1> QED BY <1>2, <1>3, <1>4 DEF CtrlReads

LEMMA SaysApart ==
    /\ Aside \cup CtrlSays \subseteq Said
    /\ Apart(Malformed, Aside \cup CtrlSays)
    /\ Apart(CtrlOpens, Aside \cup CtrlSays) /\ Apart(CtrlDone, Aside \cup CtrlSays)
    /\ Apart(CtrlCloses, Aside \cup CtrlSays) /\ Apart(Writes, Aside \cup CtrlSays)
    /\ \A n : Apart(Misnumbered(n), Aside \cup CtrlSays)
<1>1. CtrlSays \subseteq Said
  BY DEF CtrlSays, Of
<1>2. ASSUME NEW r \in CtrlSays
      PROVE  /\ r \notin CtrlOpens /\ r \notin CtrlDone /\ r \notin CtrlCloses /\ r \notin Writes
             /\ r \notin Malformed /\ \A n : r \notin Misnumbered(n)
  BY <1>1, <1>2, Kinds DEF Malformed
<1> QED BY <1>1, <1>2, AsideApart DEF Apart

LEMMA NoOpens ==
    ASSUME NEW w, None(w, CtrlOpens)
    PROVE  None(w, CtrlDone) /\ \A n : None(w, Misnumbered(n))
<1>1. CtrlDone \subseteq CtrlOpens /\ \A n : Misnumbered(n) \subseteq CtrlOpens
  BY Distinct DEF CtrlDone, CtrlOpens, Misnumbered, Of
<1> QED BY <1>1, NoneSub

LEMMA Currents ==
    ASSUME IInv
    PROVE  Cur \in 0..MaxConn /\ (Cur # 0 => Cur \in Conns)
BY ConnsNat DEF IInv, Types, HandleTypes, Cur, Pipes, Conns

LEMMA CurrentConn ==
    ASSUME IInv, Conversation, state # "OPENING"
    PROVE  Cur \in Conns /\ Cur = nconn
BY Currents DEF Conversation, Phases, Opened

-----------------------------------------------------------------------------
(* Steps that leave the session where it is.                               *)

Steady ==
    /\ UNCHANGED <<flow, state, timers, nconn>>
    /\ fd'["ctrl"] = fd["ctrl"] /\ ioRead'["ctrl"] = ioRead["ctrl"]
    /\ ioWrite'["ctrl"] = ioWrite["ctrl"]
    /\ abort => abort'

\* The wire says the same of the opens and closes of the control pipe.
SameOf(S) == (None(wire', S) <=> None(wire, S)) /\ (One(wire, S) => One(wire', S))
SameWire ==
    /\ wire' \in Seq(Said)
    /\ SameOf(Malformed) /\ SameOf(CtrlOpens) /\ SameOf(CtrlDone) /\ SameOf(CtrlCloses)
    /\ SameOf(Misnumbered(nconn))
    /\ ~None(wire, Writes) => ~None(wire', Writes)

SameOpening ==
    /\ state = "OPENING" => opening' = opening
    /\ state # "OPENING" => opening' \in Seq(DataPipes)

SameEnds == \A k \in Conns : <<"ctrl", k>> \in ends' <=> <<"ctrl", k>> \in ends

LEMMA SteadyKeeps ==
    ASSUME IInv, Conversation, Steady, SameWire, SameOpening, SameEnds, Waiting',
           ~Up => ends' = {} /\ pending' = {} /\ wire' = <<>> /\ opening' = <<>>
    PROVE  Conversation'
<1>1. Cur' = Cur /\ (Talking' <=> Talking) /\ (InMain' <=> InMain)
      /\ (Reinstalling' <=> Reinstalling) /\ (Up' <=> Up) /\ (Stale' <=> Stale)
  BY DEF Steady, Cur, Talking, InMain, Reinstalling, Up, Stale
<1>2. Numbered'
  BY <1>1 DEF Conversation, Numbered, Steady
<1>3. nconn \in Conns \/ nconn = 0
  BY ConnsNat DEF Conversation, Numbered, Conns
<1>4. ~None(wire, CtrlDone) => nconn \in Conns /\ (state = "OPENING" => <<"ctrl", nconn>> \in ends)
  <2>1. ~None(wire, CtrlDone) => ~None(wire, CtrlOpens)
    BY NoOpens
  <2>2. ~None(wire, CtrlDone) => state = "OPENING" /\ Opening
    BY <2>1 DEF Conversation, Phases, Opened
  <2> QED BY <1>3, <2>2, Currents, ConnsNat DEF Opening, Conversation, Numbered
<1>5. state = "OPENING" => Opening'
  BY <1>1, <1>4 DEF Conversation, Phases, Steady, SameWire, SameOf, SameOpening, SameEnds,
      Opening, Opened
<1>6. Phases'
  BY <1>1, <1>5 DEF Conversation, Phases, Opened, Steady, SameWire, SameOf, SameOpening, SameEnds
<1>7. Controlled'
  <2>1. Talking => Cur \in Conns
    BY CurrentConn DEF Talking
  <2> QED BY <1>1, <2>1 DEF Conversation, Controlled, Steady, SameWire, SameOf, SameEnds
<1>8. StaleEnds'
  BY <1>1 DEF Conversation, StaleEnds, Steady, SameWire
<1> QED BY <1>2, <1>6, <1>7, <1>8 DEF Conversation, SameWire, SameOf

LEMMA AsideKeeps ==
    ASSUME IInv, Conversation, Steady, SameOpening, SameEnds, reply' = reply,
           \A k \in Conns : <<"ctrl", k>> \in pending' => <<"ctrl", k>> \in pending,
           NEW w, w = wire \/ (wire # <<>> /\ w = Tail(wire) /\ Head(wire).pipe # "ctrl"),
           Adds(wire', w, Aside),
           ~Up => ends' = {} /\ pending' = {} /\ wire' = <<>> /\ opening' = <<>>
    PROVE  Conversation'
<1>1. wire \in Seq(Said) /\ None(wire, Malformed)
  BY DEF Conversation
<1>2. w \in Seq(Said)
  BY <1>1, Takes
<1>3. ASSUME NEW S, S = Malformed \/ \A r \in Said : r \in S => r.pipe = "ctrl"
      PROVE  (None(w, S) <=> None(wire, S)) /\ (One(wire, S) => One(w, S))
  <2>1. CASE w = wire
    BY <2>1
  <2>2. CASE wire # <<>> /\ w = Tail(wire) /\ Head(wire).pipe # "ctrl"
    <3>1. /\ Head(wire) \in Said
          /\ None(wire, S) <=> Head(wire) \notin S /\ None(w, S)
          /\ One(wire, S) => One(w, S)
          /\ None(wire, Malformed) <=> Head(wire) \notin Malformed /\ None(w, Malformed)
      BY <1>1, <2>2, Takes
    <3> QED BY <1>1, <1>3, <2>2, <3>1
  <2> QED BY <2>1, <2>2
<1>4. /\ \A S \in {CtrlOpens, CtrlDone, CtrlCloses, CtrlSays, Writes} :
            \A r \in Said : r \in S => r.pipe = "ctrl"
      /\ \A n : \A r \in Said : r \in Misnumbered(n) => r.pipe = "ctrl"
  BY Kinds
<1>5. /\ wire' \in Seq(Said)
      /\ \A S : Apart(S, Aside) => /\ None(wire', S) <=> None(w, S)
                                   /\ One(w, S) => One(wire', S)
  BY <1>2, AddsKeeps, AsideApart DEF Agree
<1>6. SameWire
  BY <1>3, <1>4, <1>5, AsideApart DEF SameWire, SameOf
<1>7. /\ None(wire', CtrlSays) <=> None(wire, CtrlSays)
      /\ One(wire, CtrlSays) => One(wire', CtrlSays)
  BY <1>3, <1>4, <1>5, AsideApart
<1>8. Waiting'
  BY <1>7 DEF Conversation, Waiting, Steady, Talking, Cur
<1> QED BY <1>6, <1>8, SteadyKeeps

LEMMA LosesFails ==
    ASSUME IInv, Conversation, NEW stops, LosesReads(stops)
    PROVE  /\ Adds(wire', wire, Failures)
           /\ pending' \subseteq pending
           /\ pending = {} => wire' = wire
<1> DEFINE lost == IF stops THEN pending \cap Dying ELSE {}
<1>1. /\ pending' = pending \ lost
      /\ \E order \in [1..Cardinality(lost) -> lost] :
            wire' = wire \o [i \in DOMAIN order |->
                               Reply("read", order[i][1], order[i][2], "failed")]
  BY DEF LosesReads
<1>2. lost \subseteq Ends /\ lost \subseteq pending
  BY DEF IInv, Types, EndTypes
<1> HIDE DEF lost
<1>3. PICK order \in [1..Cardinality(lost) -> lost] :
        wire' = wire \o [i \in DOMAIN order |->
                           Reply("read", order[i][1], order[i][2], "failed")]
  BY <1>1
<1> DEFINE failures == [i \in DOMAIN order |->
                           Reply("read", order[i][1], order[i][2], "failed")]
<1>4. Cardinality(lost) \in Nat /\ (lost = {} => Cardinality(lost) = 0)
  <2>1. IsFiniteSet(lost)
    BY EndsFinite, <1>2, FS_Subset
  <2> QED BY <2>1, FS_CardinalityType, FS_EmptySet
<1>5. \A e \in lost : Reply("read", e[1], e[2], "failed") \in Failures
  <2> SUFFICES ASSUME NEW e \in lost PROVE Reply("read", e[1], e[2], "failed") \in Failures
    OBVIOUS
  <2>1. PICK p \in Pipes, k \in Conns : e = <<p, k>>
    BY <1>2 DEF Ends
  <2>2. p \in Pipes /\ k \in 0..MaxConn /\ <<p, k>> \in pending /\ p = e[1] /\ k = e[2]
    BY <1>2, <2>1, ConnsNat
  <2> QED BY <2>2, Replying, Distinct DEF Failures
<1>6. failures \in [1..Cardinality(lost) -> Failures]
  BY <1>2, <1>5
<1>7. failures \in Seq(Failures)
  BY <1>4, <1>6, IsASeq
<1>8. lost = {} => failures = <<>>
  BY <1>4, <1>6
<1>9. pending = {} => wire' = wire
  <2>1. wire \o <<>> = wire
    BY DEF Conversation
  <2> QED BY <1>2, <1>3, <1>8, <2>1
<1> QED BY <1>1, <1>3, <1>7, <1>9 DEF Adds

LEMMA DisconnectFails ==
    ASSUME IInv, Conversation, NEW k, NEW ps \in SUBSET Pipes, Disconnect(k, ps)
    PROVE  /\ Adds(wire', wire, Failures)
           /\ pending' \subseteq pending
           /\ pending = {} => wire' = wire
<1> DEFINE F(p) == IF p \in ps /\ <<p, k>> \in inst \cap pending
                   THEN <<Reply("read", p, k, "failed")>> ELSE <<>>
<1>1. ASSUME NEW p PROVE F(p) \in Seq(Failures) /\ (pending = {} => F(p) = <<>>)
  <2>1. CASE p \in ps /\ <<p, k>> \in inst \cap pending
    <3>1. p \in Pipes /\ k \in 0..MaxConn /\ <<p, k>> \in pending
      BY <2>1, ConnsNat DEF IInv, Types, EndTypes, Ends
    <3>2. Reply("read", p, k, "failed") \in Failures
      BY <3>1, Replying, Distinct DEF Failures
    <3> QED BY <2>1, <3>2
  <2>2. CASE ~(p \in ps /\ <<p, k>> \in inst \cap pending)
    BY <2>2
  <2> QED BY <2>1, <2>2
<1>2. FailedReads(k, ps) = F("err") \o F("out") \o F("in") \o F("ctrl")
  BY DEF FailedReads
<1> HIDE DEF F
<1>3. FailedReads(k, ps) \in Seq(Failures)
  <2>1. F("err") \o F("out") \in Seq(Failures)
    BY <1>1, Joining
  <2>2. (F("err") \o F("out")) \o F("in") \in Seq(Failures)
    BY <1>1, <2>1, Joining
  <2> QED BY <1>1, <1>2, <2>2, Joining
<1>4. pending = {} => FailedReads(k, ps) = <<>>
  BY <1>1, <1>2
<1>5. wire \o <<>> = wire
  BY DEF Conversation
<1> QED BY <1>3, <1>4, <1>5 DEF Disconnect, Adds

LEMMA FailuresAside ==
    ASSUME NEW w, NEW w2, Adds(w2, w, Failures)
    PROVE  Adds(w2, w, Aside)
<1>1. Failures \subseteq Aside
  BY Distinct DEF Failures, Aside, Malformed
<1>2. \A v \in Seq(Failures) : v \in Seq(Aside)
  BY <1>1
<1> QED BY <1>2 DEF Adds

LEMMA LosesAside ==
    ASSUME IInv, Conversation, NEW stops, LosesReads(stops)
    PROVE  /\ Adds(wire', wire, Aside)
           /\ pending' \subseteq pending
           /\ pending = {} => wire' = wire
BY LosesFails, FailuresAside

LEMMA DisconnectAside ==
    ASSUME IInv, Conversation, NEW k, NEW ps \in SUBSET Pipes, Disconnect(k, ps)
    PROVE  /\ Adds(wire', wire, Aside)
           /\ pending' \subseteq pending
           /\ pending = {} => wire' = wire
BY DisconnectFails, FailuresAside

\* A step of the host that may only fail reads.
LEMMA HostKeeps ==
    ASSUME IInv, Conversation, UNCHANGED <<flow, client, io, ends, opening, nconn, reply>>,
           Adds(wire', wire, Aside), pending' \subseteq pending, pending = {} => wire' = wire
    PROVE  Conversation'
<1>1. Steady /\ SameEnds
  BY DEF Steady, SameEnds, client, io
<1>2. SameOpening
  BY DEF SameOpening, Conversation, Phases, Opened
<1>3. ~Up => ends' = {} /\ pending' = {} /\ wire' = <<>> /\ opening' = <<>>
  BY DEF Conversation, Phases
<1> QED BY <1>1, <1>2, <1>3, AsideKeeps

LEMMA SilentKeeps ==
    ASSUME IInv, Conversation,
           UNCHANGED <<flow, client, io, ends, pending, opening, wire, nconn, reply>>
    PROVE  Conversation'
<1>1. Adds(wire', wire, Aside)
  BY AddsNothing DEF Conversation
<1> QED BY <1>1, HostKeeps

LEMMA HprintfKeeps ==
    ASSUME IInv, Conversation, NEW k \in Conns, NEW message \in Messages, Hprintf(k, message),
           UNCHANGED <<flow, client, io, ends, opening, nconn>>
    PROVE  Conversation'
<1>1. Steady /\ SameEnds
  BY DEF Steady, SameEnds, client, io
<1>2. SameOpening
  BY DEF SameOpening, Conversation, Phases, Opened
<1>3. wire \in Seq(Said) /\ (Talking' <=> Talking) /\ Cur' = Cur
  BY <1>1 DEF Conversation, Steady, Talking, Cur
<1>4. CASE <<"ctrl", k>> \in pending
  <2>1. /\ wire' = Append(wire, Reply("read", "ctrl", k, message))
        /\ pending' = pending \ {<<"ctrl", k>>}
        /\ reply' = reply
    BY <1>4 DEF Hprintf
  <2>2. Reply("read", "ctrl", k, message) \in CtrlSays
    BY Replying, Kinds, Distinct, ConnsNat DEF Pipes
  <2>3. Adds(wire', wire, Aside \cup CtrlSays)
    BY <1>3, <2>1, <2>2, AddsOne
  <2>4. wire' \in Seq(Said) /\ Agree(wire', wire, Aside \cup CtrlSays)
    BY <1>3, <2>3, AddsKeeps, SaysApart
  <2>5. SameWire
    BY <2>4, SaysApart DEF SameWire, SameOf, Agree
  <2>6. Talking /\ k = Cur /\ None(wire, CtrlSays)
    BY <1>4 DEF Conversation, Waiting
  <2>7. One(wire', CtrlSays)
    BY <1>3, <2>1, <2>6, Puts, NoneOne, Replying, Distinct, ConnsNat DEF Pipes
  <2>8. Waiting'
    BY <1>3, <2>1, <2>6, <2>7 DEF Conversation, Waiting
  <2>9. Up
    BY <1>4 DEF Conversation, Phases
  <2> QED BY <1>1, <1>2, <2>5, <2>8, <2>9, SteadyKeeps
<1>5. CASE <<"ctrl", k>> \notin pending
  <2>1. /\ UNCHANGED <<wire, pending>>
        /\ \A j \in Conns : j = k \/ reply'[j] = reply[j]
    BY <1>5 DEF Hprintf, IInv, Types, Speak
  <2>2. SameWire
    BY <1>3, <2>1 DEF SameWire, SameOf
  <2>3. Waiting'
    BY <1>3, <1>5, <2>1 DEF Conversation, Waiting
  <2>4. ~Up => ends' = {} /\ pending' = {} /\ wire' = <<>> /\ opening' = <<>>
    BY <2>1 DEF Conversation, Phases
  <2> QED BY <1>1, <1>2, <2>2, <2>3, <2>4, SteadyKeeps
<1> QED BY <1>4, <1>5

\* What a handler does to the pipes: nothing, it says something, or it closes
\* its ends.
LEMMA HandlerSays ==
    ASSUME IInv, NEW k \in Conns, HandleConnection(k)
    PROVE  /\ UNCHANGED <<flow, client, io, ends, met, opening, host>>
           /\ \/ UNCHANGED <<pending, wire, reply>>
              \/ \E message \in Messages : Hprintf(k, message)
              \/ \E ps \in SUBSET Pipes : Disconnect(k, ps) /\ reply' = reply
<1>1. {"good", "bad", "error", "error:", "std_io_err"} \cup Codes \subseteq Messages
  BY DEF Messages
<1>2. ASSUME NEW next, Moves(k, next)
      PROVE  UNCHANGED <<flow, client, io, ends, met, opening, host, pending, wire, reply>>
  BY <1>2 DEF Moves, smb
<1>3. ASSUME NEW message \in Messages, NEW next, Says(k, message, next)
      PROVE  UNCHANGED <<flow, client, io, ends, met, opening, host>> /\ Hprintf(k, message)
  BY <1>3 DEF Says
<1>4. CASE \/ GetsEof(k) \/ CreateProcess(k) \/ Terminate(k) \/ ProcessDone(k)
  BY <1>2, <1>4 DEF GetsEof, CreateProcess, Terminate, ProcessDone
<1>5. ASSUME NEW at, NEW next, NEW p,
             \/ Flush(k, at, next) \/ Connect(k, p, at, next) \/ FlushStream(k, p, at, next)
      PROVE  UNCHANGED <<flow, client, io, ends, met, opening, host, pending, wire, reply>>
  BY <1>2, <1>5 DEF Flush, Connect, FlushStream
<1>6. CASE NoMemory(k) \/ UnknownCommand(k) \/ Run(k) \/ RunFails(k) \/ CreateProcessFails(k)
  BY <1>1, <1>3, <1>6 DEF NoMemory, UnknownCommand, Run, RunFails, CreateProcessFails
<1>7. CASE GetVersion(k)
  <2>1. PICK message \in Messages : Says(k, message, "flushAnswer")
    BY <1>1, <1>7 DEF GetVersion
  <2> QED BY <1>3, <2>1
<1>8. CASE SetSystem(k)
  BY <1>8 DEF SetSystem, smb
<1>9. ASSUME NEW p, NEW at, ConnectFails(k, p, at)
      PROVE  UNCHANGED <<flow, client, io, ends, met, opening, host>> /\ Hprintf(k, "error")
  BY <1>1, <1>3, <1>9 DEF ConnectFails
<1>10. CASE ReturnCode(k)
  <2>1. ec \in Messages
    BY <1>1, <1>10 DEF ReturnCode, IInv, Types, CodeKnown
  <2> QED BY <1>3, <1>10, <2>1 DEF ReturnCode
<1>11. CASE DisconnectData(k)
  <2>1. DataPipes \in SUBSET Pipes
    BY DEF Pipes
  <2> QED BY <1>11, <2>1 DEF DisconnectData
<1>12. CASE Finish(k)
  <2>1. {"ctrl"} \in SUBSET Pipes
    BY DEF Pipes
  <2> QED BY <1>12, <2>1 DEF Finish
<1> QED
  BY <1>1, <1>4, <1>5, <1>6, <1>7, <1>8, <1>9, <1>10, <1>11, <1>12 DEF HandleConnection

LEMMA HandlerConverses ==
    ASSUME IInv, Conversation, NEW k \in Conns, HandleConnection(k)
    PROVE  Conversation'
<1>1. UNCHANGED <<flow, client, io, ends, opening, nconn>>
  BY HandlerSays DEF host
<1>2. CASE UNCHANGED <<pending, wire, reply>>
  BY <1>1, <1>2, SilentKeeps
<1>3. ASSUME NEW message \in Messages, Hprintf(k, message) PROVE Conversation'
  BY <1>1, <1>3, HprintfKeeps
<1>4. ASSUME NEW ps \in SUBSET Pipes, Disconnect(k, ps), reply' = reply PROVE Conversation'
  BY <1>1, <1>4, DisconnectAside, HostKeeps
<1> QED BY <1>2, <1>3, <1>4, HandlerSays

\* The other steps of the host.
LEMMA HostConverses ==
    ASSUME IInv, Conversation, Command \/ ServerLoop \/ OtherClient \/ ServiceDies
    PROVE  Conversation'
<1>1. ASSUME NEW s \in Streams, Produce(s) PROVE Conversation'
  <2>1. UNCHANGED <<flow, client, io, ends, opening, nconn, reply>>
    BY <1>1 DEF Produce, service, host
  <2>2. CASE <<s, owner>> \in pending
    <3>1. /\ wire' = Append(wire, Reply("read", s, owner, "chunk"))
          /\ pending' = pending \ {<<s, owner>>}
      BY <1>1, <2>2 DEF Produce
    <3>2. s \in Pipes /\ s # "ctrl" /\ owner \in 0..MaxConn
      BY <2>2, ConnsNat DEF Streams, Pipes, DataPipes, IInv, Types, EndTypes, Ends
    <3>3. Reply("read", s, owner, "chunk") \in Aside
      BY <3>2, Replying, Distinct DEF Aside, Malformed
    <3>4. Adds(wire', wire, Aside)
      BY <3>1, <3>3, AddsOne DEF Conversation
    <3> QED BY <2>1, <2>2, <3>1, <3>4, HostKeeps
  <2>3. CASE <<s, owner>> \notin pending
    <3>1. UNCHANGED <<pending, wire>>
      BY <1>1, <2>3 DEF Produce
    <3> QED BY <2>1, <3>1, SilentKeeps
  <2> QED BY <2>2, <2>3
<1>2. CASE Exit
  <2>1. UNCHANGED <<flow, client, io, ends, opening, nconn, reply>>
    BY <1>2 DEF Exit, host
  <2>2. CASE hpc[owner] = "gone"
    <3>1. DataPipes \in SUBSET Pipes /\ Disconnect(owner, DataPipes)
      BY <1>2, <2>2 DEF Exit, Pipes
    <3> QED BY <2>1, <3>1, DisconnectAside, HostKeeps
  <2>3. CASE hpc[owner] # "gone"
    <3>1. UNCHANGED <<pending, wire>>
      BY <1>2, <2>3 DEF Exit
    <3> QED BY <2>1, <3>1, SilentKeeps
  <2> QED BY <2>2, <2>3
<1>3. CASE ServerLoop \/ OtherClient
  <2>1. UNCHANGED <<flow, client, io, ends, pending, opening, wire, nconn, reply>>
    BY <1>3 DEF ServerLoop, CreateInstance, LoopEnds, OtherClient, smb, service
  <2> QED BY <2>1, SilentKeeps
<1>4. CASE ServiceDies
  <2>1. UNCHANGED <<flow, client, io, ends, opening, nconn, reply>> /\ LosesReads(TRUE)
    BY <1>4 DEF ServiceDies, ServiceGone
  <2> QED BY <2>1, LosesAside, HostKeeps
<1> QED BY <1>1, <1>2, <1>3, <1>4 DEF Command

\* What a reply on the wire says of the session.
LEMMA Hears ==
    ASSUME IInv, Conversation, flow = "loop", wire # <<>>
    PROVE  /\ Up /\ ~InMain /\ ~Reinstalling
           /\ wire \in Seq(Said) /\ Tail(wire) \in Seq(Said) /\ Head(wire) \in Said
           /\ None(Tail(wire), Malformed) /\ Head(wire) \notin Malformed
           /\ \A S : /\ None(wire, S) <=> Head(wire) \notin S /\ None(Tail(wire), S)
                     /\ One(wire, S) => /\ One(Tail(wire), S)
                                        /\ Head(wire) \in S => None(Tail(wire), S)
<1>1. wire \in Seq(Said) /\ None(wire, Malformed)
  BY DEF Conversation
<1> QED BY <1>1, Takes DEF Up, InMain, Reinstalling

\* Callbacks of the data pipes.
LEMMA DataConverses ==
    ASSUME IInv, Conversation,
           \/ DataOpened \/ DataFailed \/ DataRead
           \/ CloseDone /\ Head(wire).pipe # "ctrl"
    PROVE  Conversation'
<1>1. flow = "loop" /\ wire # <<>>
  BY DEF DataOpened, DataFailed, DataRead, CloseDone, Handles
<1>2. /\ Up /\ Tail(wire) \in Seq(Said) /\ Head(wire) \in Said /\ wire \in Seq(Said)
      /\ Head(wire) \notin Malformed
      /\ Head(wire).pipe \in Pipes /\ Head(wire).conn \in 0..MaxConn
  BY <1>1, Hears, Kinds
<1>3. /\ \A p \in Pipes : fd[p] \in 0..MaxConn
      /\ \A p \in DataPipes : p # "ctrl" /\ p \in Pipes
      /\ \A p \in DataPipes : \A f : /\ [fd EXCEPT ![p] = f]["ctrl"] = fd["ctrl"]
                                     /\ [ioRead EXCEPT ![p] = f]["ctrl"] = ioRead["ctrl"]
                                     /\ [ioWrite EXCEPT ![p] = f]["ctrl"] = ioWrite["ctrl"]
  BY DEF IInv, Types, HandleTypes, DataPipes, Pipes
<1>4. ASSUME NEW p \in DataPipes, NEW k \in 0..MaxConn, AsyncRead(p, k, Tail(wire))
      PROVE  /\ Adds(wire', Tail(wire), Aside)
             /\ reply' = reply
             /\ \A j \in Conns : <<"ctrl", j>> \in pending' => <<"ctrl", j>> \in pending
             /\ ioRead'["ctrl"] = ioRead["ctrl"]
  <2>1. Cached(ioRead, p, k) \in 0..MaxConn
    BY <1>3, <1>4 DEF Cached, IInv, Types, HandleTypes
  <2>2. /\ ioRead' = [ioRead EXCEPT ![p] = Cached(ioRead, p, k)]
        /\ SendRead(<<p, Cached(ioRead, p, k)>>, Tail(wire))
    BY <1>4 DEF AsyncRead
  <2> QED BY <1>2, <1>3, <2>1, <2>2, DataReadAside
<1>5. opening' = opening => SameOpening
  BY DEF SameOpening, Conversation, Phases, Opened
<1>6. CASE DataOpened
  <2>1. Head(wire).pipe \in DataPipes /\ Head(wire).conn \in 0..MaxConn
        /\ AsyncRead(Head(wire).pipe, Head(wire).conn, Tail(wire))
    BY <1>2, <1>6 DEF DataOpened
  <2>2. Steady /\ SameEnds /\ opening' = opening
    BY <1>3, <1>4, <1>6, <2>1 DEF DataOpened, Steady, SameEnds, host
  <2> QED BY <1>1, <1>2, <1>3, <1>4, <1>5, <2>1, <2>2, AsideKeeps
<1>7. CASE DataRead
  <2>1. Head(wire).pipe \in DataPipes
    <3>1. Head(wire).what = "read" /\ Head(wire).result = "chunk"
      BY <1>7 DEF DataRead, Handles
    <3>2. Head(wire).pipe \in Streams
      BY <1>2, <3>1, Distinct DEF Malformed
    <3> QED BY <3>2 DEF Streams, DataPipes
  <2>2. fd[Head(wire).pipe] \in 0..MaxConn
        /\ AsyncRead(Head(wire).pipe, fd[Head(wire).pipe], Tail(wire))
    BY <1>2, <1>3, <1>7 DEF DataRead
  <2>3. Steady /\ SameEnds /\ opening' = opening
    BY <1>3, <1>4, <1>7, <2>1, <2>2 DEF DataRead, Steady, SameEnds, host, client
  <2> QED BY <1>1, <1>2, <1>3, <1>4, <1>5, <2>1, <2>2, <2>3, AsideKeeps
<1>8. CASE DataFailed
  <2> DEFINE p == Head(wire).pipe
  <2>1. /\ p \in DataPipes /\ ends' = ends \ {<<p, fd[p]>>}
        /\ wire' = Append(Tail(wire), Reply("close", p, fd[p], "done"))
    BY <1>8 DEF DataFailed, Closed, CloseReply
  <2> HIDE DEF p
  <2>2. Reply("close", p, fd[p], "done") \in Aside
    BY <1>3, <2>1, Replying, Distinct DEF Aside, Malformed
  <2>3. Adds(wire', Tail(wire), Aside)
    BY <1>2, <2>1, <2>2, AddsOne
  <2>4. Steady /\ SameEnds /\ opening' = opening /\ UNCHANGED <<pending, reply>>
    BY <1>3, <1>8, <2>1 DEF DataFailed, Steady, SameEnds, host, client, io, service
  <2> QED BY <1>1, <1>2, <1>3, <1>5, <2>1, <2>3, <2>4, AsideKeeps DEF p
<1>9. CASE CloseDone /\ Head(wire).pipe # "ctrl"
  <2>1. Head(wire).pipe \in DataPipes
    BY <1>2, <1>9 DEF Pipes
  <2>2. Steady /\ SameEnds /\ opening' = opening /\ UNCHANGED <<pending, reply>>
    BY <1>3, <1>9, <2>1 DEF CloseDone, Steady, SameEnds, host, client, service
  <2>3. Adds(wire', Tail(wire), Aside)
    BY <1>2, <1>9, AddsNothing DEF CloseDone
  <2> QED BY <1>1, <1>2, <1>5, <1>9, <2>2, <2>3, AsideKeeps
<1> QED BY <1>6, <1>7, <1>8, <1>9

-----------------------------------------------------------------------------
(* The end of the client, and what else happens to it.                     *)

Leaving ==
    /\ UNCHANGED <<state, timers, nconn>>
    /\ fd'["ctrl"] = fd["ctrl"] /\ ioRead'["ctrl"] = ioRead["ctrl"]
    /\ ioWrite'["ctrl"] \in {0, ioWrite["ctrl"]}
    /\ abort => abort'

LEMMA GoneKeeps ==
    ASSUME IInv, Conversation, Leaving, NEW how \in {"exited", "killed"}, ClientGone(how)
    PROVE  Conversation'
<1>1. /\ flow' = how /\ ends' = {} /\ pending' = {} /\ opening' = <<>> /\ wire' = <<>>
      /\ wire' \in Seq(Said) /\ \A S : None(wire', S) /\ One(wire', S)
  BY Silence DEF ClientGone
<1>2. Cur' = Cur /\ (Talking' <=> Talking) /\ ~InMain' /\ ~Reinstalling' /\ ~Up'
  BY <1>1 DEF Leaving, Cur, Talking, InMain, Reinstalling, Up
<1>3. Stale' => Stale
  BY <1>2 DEF Leaving, Stale
<1>4. 0 <= Cur /\ Cur \in 0..MaxConn
  BY Currents
<1>5. Numbered'
  BY <1>2, <1>4 DEF Conversation, Numbered, Leaving
<1>6. Phases'
  BY <1>1, <1>2 DEF Conversation, Phases, Opening, Opened, Leaving
<1>7. Controlled' /\ Waiting'
  BY <1>1, <1>2 DEF Controlled, Waiting
<1>8. StaleEnds'
  BY <1>1, <1>2, <1>3 DEF Conversation, StaleEnds, Leaving
<1> QED BY <1>1, <1>5, <1>6, <1>7, <1>8 DEF Conversation

LEMMA ExitKeeps ==
    ASSUME IInv, Conversation, Leaving, reply' = reply, Up,
           NEW w, w = wire \/ (wire # <<>> /\ w = Tail(wire) /\ Head(wire) \notin CtrlDone),
           ExitProgram(w)
    PROVE  Conversation'
<1>1. CASE "uninstall" \notin flags
  BY <1>1, GoneKeeps DEF ExitProgram
<1>2. CASE "uninstall" \in flags
  <2>1. flow' = "exitUninstall" /\ wire' = w /\ UNCHANGED <<ends, pending, opening>>
    BY <1>2 DEF ExitProgram
  <2>2. wire \in Seq(Said)
    BY DEF Conversation
  <2>3. /\ wire' \in Seq(Said)
        /\ \A S : (None(wire, S) => None(wire', S)) /\ (One(wire, S) => One(wire', S))
        /\ None(wire', CtrlDone) <=> None(wire, CtrlDone)
    <3>1. CASE w = wire
      BY <2>1, <2>2, <3>1
    <3>2. CASE wire # <<>> /\ w = Tail(wire) /\ Head(wire) \notin CtrlDone
      BY <2>1, <2>2, <3>2, Takes
    <3> QED BY <3>1, <3>2
  <2>4. Cur' = Cur /\ (Talking' <=> Talking) /\ ~InMain' /\ ~Reinstalling' /\ Up'
    BY <2>1 DEF Leaving, Cur, Talking, InMain, Reinstalling, Up
  <2>5. Stale' => Stale
    BY <2>4 DEF Leaving, Stale
  <2>6. 0 <= Cur /\ Cur \in 0..MaxConn
    BY Currents
  <2>7. Numbered'
    BY <2>4, <2>6 DEF Conversation, Numbered, Leaving
  <2>8. state = "OPENING" => Opening'
    BY <2>1, <2>3, <2>4 DEF Conversation, Phases, Opening, Leaving
  <2>9. Phases'
    BY <2>1, <2>3, <2>4, <2>8 DEF Conversation, Phases, Opened, Leaving
  <2>10. Controlled' /\ Waiting'
    BY <2>1, <2>3, <2>4 DEF Conversation, Controlled, Waiting, Leaving
  <2>11. StaleEnds'
    BY <2>1, <2>5 DEF Conversation, StaleEnds, Leaving
  <2> QED BY <2>3, <2>7, <2>9, <2>10, <2>11 DEF Conversation
<1> QED BY <1>1, <1>2

\* Callbacks for failures of the control pipe: the client ends, or installs the
\* service, or goes on as if nothing was.
LEMMA FailureConverses ==
    ASSUME IInv, Conversation, CtrlOpenFailed \/ CtrlFailed
    PROVE  Conversation'
<1>1. flow = "loop" /\ wire # <<>> /\ Head(wire).pipe = "ctrl"
  BY DEF CtrlOpenFailed, CtrlFailed, Handles
<1>2. /\ Up /\ ~InMain /\ ~Reinstalling
      /\ wire \in Seq(Said) /\ Tail(wire) \in Seq(Said) /\ Head(wire) \in Said
      /\ None(Tail(wire), Malformed)
      /\ \A S : /\ None(wire, S) <=> Head(wire) \notin S /\ None(Tail(wire), S)
                /\ One(wire, S) => /\ One(Tail(wire), S)
                                   /\ Head(wire) \in S => None(Tail(wire), S)
  BY <1>1, Hears
<1>3. CASE CtrlOpenFailed
  <2>1. Head(wire).what = "open" /\ Head(wire).result # "done"
    BY <1>3 DEF CtrlOpenFailed, Handles
  <2>2. Head(wire) \in CtrlOpens /\ Head(wire) \notin CtrlDone
    BY <1>1, <1>2, <2>1, Kinds
  <2>3. UNCHANGED <<state, timers, abort, fd, io, nconn, reply>>
    BY <1>3 DEF CtrlOpenFailed, host, service
  <2>4. CASE ExitProgram(Tail(wire))
    <3>1. Leaving /\ reply' = reply
      BY <2>3 DEF Leaving, io
    <3> QED BY <1>1, <1>2, <2>2, <2>4, <3>1, ExitKeeps
  <2>5. CASE flow' = "errorInstall" /\ wire' = Tail(wire) /\ UNCHANGED <<ends, pending, opening>>
    <3>1. state = "OPENING" /\ Opening
      BY <1>2, <2>2 DEF Conversation, Phases, Opened
    <3>2. opening = <<>> /\ None(wire', CtrlOpens)
      BY <1>2, <2>2, <2>5, <3>1 DEF Opening
    <3>3. /\ Cur' = Cur /\ InMain' /\ ~Reinstalling' /\ Up' /\ state' = "OPENING"
          /\ ~Talking /\ ~Talking'
      BY <2>3, <2>5, <3>1 DEF Cur, InMain, Reinstalling, Up, Talking
    <3>4. None(wire', CtrlDone) <=> None(wire, CtrlDone)
      BY <1>2, <2>2, <2>5
    <3>5. Opening'
      BY <1>2, <2>3, <2>5, <3>1, <3>2, <3>3, <3>4 DEF Opening, io
    <3>6. Numbered'
      BY <2>3, <3>3 DEF Conversation, Numbered, io
    <3>7. Phases'
      BY <2>3, <2>5, <3>2, <3>3, <3>5 DEF Phases
    <3>8. Controlled' /\ Waiting'
      BY <1>2, <2>3, <2>5, <3>1, <3>3, <3>4 DEF Conversation, Controlled, Waiting
    <3>9. StaleEnds'
      <4>1. Head(wire) \notin Writes
        BY <1>2, <2>1, Kinds
      <4>2. Stale' <=> Stale
        BY <1>2, <2>3, <3>1, <3>3 DEF Stale, io
      <4> QED BY <1>1, <1>2, <2>3, <2>5, <4>1, <4>2 DEF Conversation, StaleEnds
    <3> QED BY <1>2, <2>5, <3>6, <3>7, <3>8, <3>9 DEF Conversation
  <2> QED BY <1>3, <2>4, <2>5 DEF CtrlOpenFailed
<1>4. CASE CtrlFailed
  <2>1. Head(wire).what \in {"read", "write"} /\ Head(wire).result = "failed"
    BY <1>4 DEF CtrlFailed, Handles
  <2>2. /\ Head(wire) \notin CtrlOpens /\ Head(wire) \notin CtrlDone
        /\ Head(wire) \notin CtrlCloses /\ Head(wire) \notin CtrlSays
        /\ \A n : Head(wire) \notin Misnumbered(n)
        /\ Head(wire).what = "read" => Head(wire) \notin Writes
    BY <1>2, <2>1, Kinds, Distinct
  <2>3. UNCHANGED <<client, ioRead, nconn, reply>>
    BY <1>4 DEF CtrlFailed, host, service
  <2>4. ioWrite'["ctrl"] \in {0, ioWrite["ctrl"]}
    BY <1>4 DEF CtrlFailed, IInv, Types, HandleTypes, Pipes
  <2>5. CASE ExitProgram(Tail(wire))
    <3>1. Leaving /\ reply' = reply
      BY <2>3, <2>4 DEF Leaving, client
    <3> QED BY <1>1, <1>2, <2>2, <2>5, <3>1, ExitKeeps
  <2>6. CASE /\ Head(wire).what = "read" /\ state = "OPENING"
             /\ wire' = Tail(wire) /\ UNCHANGED <<flow, ends, pending, opening>>
    <3>1. ioWrite' = ioWrite
      BY <1>4, <2>6 DEF CtrlFailed
    <3>2. Steady /\ SameEnds
      BY <2>3, <2>6, <3>1 DEF Steady, SameEnds, client
    <3>3. SameWire
      BY <1>2, <2>2, <2>6 DEF SameWire, SameOf, Conversation
    <3>4. Waiting'
      BY <1>2, <2>3, <2>6 DEF Conversation, Waiting, Talking, Cur, client
    <3>5. SameOpening
      BY <2>6 DEF SameOpening
    <3> QED BY <1>2, <3>2, <3>3, <3>4, <3>5, SteadyKeeps
  <2> QED BY <1>4, <2>5, <2>6 DEF CtrlFailed
<1> QED BY <1>3, <1>4

-----------------------------------------------------------------------------
(* Callbacks of the control pipe.                                          *)

\* An answer on the control pipe is to the one read of a session that talks.
LEMMA Answered ==
    ASSUME IInv, Conversation, flow = "loop", wire # <<>>,
           Head(wire).what = "read", Head(wire).result \in Messages
    PROVE  /\ Head(wire) \in CtrlSays /\ Head(wire).pipe = "ctrl"
           /\ Talking /\ Cur \in Conns /\ ioRead["ctrl"] = Cur
           /\ \A k \in Conns : <<"ctrl", k>> \notin pending
           /\ None(Tail(wire), CtrlSays)
           /\ Head(wire) \notin CtrlOpens /\ Head(wire) \notin CtrlDone
           /\ Head(wire) \notin CtrlCloses /\ Head(wire) \notin Writes
           /\ Head(wire) \notin Malformed /\ \A n : Head(wire) \notin Misnumbered(n)
<1>1. /\ Head(wire) \in Said /\ Head(wire) \notin Malformed
      /\ \A S : /\ None(wire, S) <=> Head(wire) \notin S /\ None(Tail(wire), S)
                /\ One(wire, S) => (Head(wire) \in S => None(Tail(wire), S))
  BY Hears
<1>2. Head(wire).pipe = "ctrl"
  BY <1>1, Distinct DEF Malformed
<1>3. /\ Head(wire) \in CtrlSays
      /\ Head(wire) \notin CtrlOpens /\ Head(wire) \notin CtrlDone
      /\ Head(wire) \notin CtrlCloses /\ Head(wire) \notin Writes
      /\ \A n : Head(wire) \notin Misnumbered(n)
  BY <1>1, <1>2, Kinds
<1>4. Talking /\ None(Tail(wire), CtrlSays) /\ \A k \in Conns : <<"ctrl", k>> \notin pending
  BY <1>1, <1>3 DEF Conversation, Waiting
<1>5. Cur \in Conns /\ ioRead["ctrl"] = Cur
  BY <1>4, CurrentConn DEF Conversation, Phases, Talking
<1> QED BY <1>1, <1>2, <1>3, <1>4, <1>5

\* The writes that fail, as the client is told.
Refusals == Of("write", "ctrl", {"failed"})

LEMMA WriteFailsAdds ==
    ASSUME NEW w \in Seq(Said), NEW h \in 0..MaxConn
    PROVE  /\ WriteFails(h, w) \in Seq(Said)
           /\ Agree(WriteFails(h, w), w, Refusals)
           /\ ~None(w, Writes) => ~None(WriteFails(h, w), Writes)
           /\ ~Open(<<"ctrl", h>>) => ~None(WriteFails(h, w), Writes)
<1>1. /\ Reply("write", "ctrl", h, "failed") \in Said
      /\ Reply("write", "ctrl", h, "failed") \in Refusals
      /\ Reply("write", "ctrl", h, "failed") \in Writes
  BY Replying, Kinds, Distinct DEF Refusals, Pipes
<1>2. Refusals \subseteq Said
  BY DEF Refusals, Of
<1>3. CASE Open(<<"ctrl", h>>)
  <2>1. WriteFails(h, w) = w
    BY <1>3 DEF WriteFails
  <2> QED BY <1>2, <1>3, <2>1, AddsNothing, AddsKeeps
<1>4. CASE ~Open(<<"ctrl", h>>)
  <2>1. WriteFails(h, w) = Append(w, Reply("write", "ctrl", h, "failed"))
    BY <1>4 DEF WriteFails
  <2>2. Adds(WriteFails(h, w), w, Refusals)
    BY <1>1, <2>1, AddsOne
  <2>3. ~None(WriteFails(h, w), Writes)
    BY <1>1, <2>1, Puts
  <2> QED BY <1>2, <2>2, <2>3, AddsKeeps
<1> QED BY <1>3, <1>4

LEMMA RefusalsApart ==
    /\ Apart(Malformed, Refusals) /\ Apart(CtrlOpens, Refusals) /\ Apart(CtrlDone, Refusals)
    /\ Apart(CtrlCloses, Refusals) /\ Apart(CtrlSays, Refusals)
    /\ \A n : Apart(Misnumbered(n), Refusals)
<1>1. ASSUME NEW r \in Refusals
      PROVE  /\ r \notin CtrlOpens /\ r \notin CtrlDone /\ r \notin CtrlCloses /\ r \notin CtrlSays
             /\ r \notin Malformed /\ \A n : r \notin Misnumbered(n)
  <2>1. r \in Said /\ r.what = "write"
    BY DEF Refusals, Of
  <2> QED BY <2>1, Kinds DEF Malformed
<1> QED BY <1>1 DEF Apart

\* A session that talks goes on to.
LEMMA TalkKeeps ==
    ASSUME IInv, Conversation, flow = "loop", Talking, Talking',
           UNCHANGED <<flow, timers, abort, nconn>>, fd' = fd,
           ioRead'["ctrl"] = Cur, ioWrite'["ctrl"] \in {ioWrite["ctrl"], Cur},
           SameEnds, opening' \in Seq(DataPipes), SameWire, Waiting'
    PROVE  Conversation'
<1>1. /\ Cur' = Cur /\ ~InMain' /\ ~Reinstalling' /\ ~Reinstalling /\ Up /\ Up'
      /\ state # "OPENING" /\ state' # "OPENING" /\ state' # "CLOSING_FOR_REINSTALL"
      /\ state' \in {"GETTING_VERSION", "RUNNING"}
  BY DEF Cur, InMain, Reinstalling, Up, Talking
<1>2. Cur \in Conns /\ Cur = nconn
  BY <1>1, CurrentConn
<1>3. Numbered'
  BY <1>1, Currents, ConnsNat DEF Conversation, Numbered
<1>4. Phases'
  BY <1>1 DEF Conversation, Phases, Opened, SameWire, SameOf
<1>5. Controlled'
  BY <1>1, <1>2 DEF Conversation, Controlled, SameEnds
<1>6. StaleEnds'
  BY <1>1 DEF Conversation, StaleEnds, Stale, SameWire
<1> QED BY <1>3, <1>4, <1>5, <1>6 DEF Conversation, SameWire, SameOf

\* w says what the wire says of the opens and closes of the control pipe.
LikeOf(w, S) == (None(w, S) <=> None(wire, S)) /\ (One(wire, S) => One(w, S))
LikeWire(w) ==
    /\ w \in Seq(Said)
    /\ LikeOf(w, Malformed) /\ LikeOf(w, CtrlOpens) /\ LikeOf(w, CtrlDone)
    /\ LikeOf(w, CtrlCloses) /\ LikeOf(w, Misnumbered(nconn))
    /\ ~None(wire, Writes) => ~None(w, Writes)

\* The read that follows an answer.
LEMMA ReadOn ==
    ASSUME IInv, Conversation, Talking', Cur \in Conns, Cur' = Cur, ioRead["ctrl"] = Cur,
           \A k \in Conns : <<"ctrl", k>> \notin pending,
           NEW w, LikeWire(w), None(w, CtrlSays), AsyncRead("ctrl", Cur, w)
    PROVE  SameWire /\ Waiting' /\ ioRead'["ctrl"] = Cur /\ CtrlReads(Cur, w)
<1>1. Cur # 0 /\ Cur \in 0..MaxConn /\ w \in Seq(Said)
  BY ConnsNat DEF LikeWire
<1>2. Cached(ioRead, "ctrl", Cur) = Cur
  BY DEF Cached
<1>3. ioRead' = [ioRead EXCEPT !["ctrl"] = Cur] /\ SendRead(<<"ctrl", Cur>>, w)
  BY <1>2 DEF AsyncRead
<1>4. CtrlReads(Cur, w)
  BY <1>1, <1>3, CtrlReadKinds
<1>5. /\ Adds(wire', w, Aside \cup CtrlSays)
      /\ One(wire', CtrlSays)
      /\ \A k \in Conns : <<"ctrl", k>> \in pending' =>
                            k = Cur /\ reply'[k] = "none" /\ wire' = w
  BY <1>1, <1>4, CtrlReadAdds
<1>6. wire' \in Seq(Said) /\ Agree(wire', w, Aside \cup CtrlSays)
  BY <1>1, <1>5, AddsKeeps, SaysApart
<1>7. SameWire
  BY <1>6, SaysApart DEF SameWire, SameOf, LikeWire, LikeOf, Agree
<1>8. Waiting'
  BY <1>5 DEF Waiting
<1>9. ioRead'["ctrl"] = Cur
  BY <1>3 DEF IInv, Types, HandleTypes, Pipes
<1> QED BY <1>4, <1>7, <1>8, <1>9

LEMMA AnsweredTail ==
    ASSUME IInv, Conversation, flow = "loop", wire # <<>>,
           Head(wire).what = "read", Head(wire).result \in Messages
    PROVE  LikeWire(Tail(wire))
<1>1. /\ Tail(wire) \in Seq(Said)
      /\ \A S : /\ None(wire, S) <=> Head(wire) \notin S /\ None(Tail(wire), S)
                /\ One(wire, S) => One(Tail(wire), S)
  BY Hears
<1> QED BY <1>1, Answered DEF LikeWire, LikeOf

LEMMA LikeRefusals ==
    ASSUME NEW w, LikeWire(w), NEW h \in 0..MaxConn
    PROVE  LikeWire(WriteFails(h, w)) /\ (None(w, CtrlSays) => None(WriteFails(h, w), CtrlSays))
<1>1. /\ WriteFails(h, w) \in Seq(Said)
      /\ Agree(WriteFails(h, w), w, Refusals)
      /\ ~None(w, Writes) => ~None(WriteFails(h, w), Writes)
  BY WriteFailsAdds DEF LikeWire
<1> QED BY <1>1, RefusalsApart DEF LikeWire, LikeOf, Agree

\* Answers after which the control pipe is read again, one of them after a write.
LEMMA AnswerConverses ==
    ASSUME IInv, Conversation,
           ReadStdIoErr \/ ReadReturnCode \/ ReadOtherError \/ ReadGoodVersion
    PROVE  Conversation'
<1>1. /\ flow = "loop" /\ wire # <<>> /\ Head(wire).what = "read"
      /\ Head(wire).result \in Messages
  BY DEF ReadStdIoErr, ReadReturnCode, ReadOtherError, ReadGoodVersion, Handles, Messages, Codes
<1>2. /\ Talking /\ Cur \in Conns /\ ioRead["ctrl"] = Cur
      /\ \A k \in Conns : <<"ctrl", k>> \notin pending
      /\ None(Tail(wire), CtrlSays) /\ LikeWire(Tail(wire))
  BY <1>1, Answered, AnsweredTail
<1>3. opening \in Seq(DataPipes)
  BY <1>2 DEF Conversation, Phases, Opened, Talking
<1>4. CASE ReadStdIoErr \/ ReadReturnCode \/ ReadOtherError
  <2>1. /\ UNCHANGED <<flow, state, timers, abort, fd, ioWrite, ends, nconn>>
        /\ AsyncRead("ctrl", Cur, Tail(wire))
    BY <1>4 DEF ReadStdIoErr, ReadReturnCode, ReadOtherError, client, host, Cur
  <2>2. Talking' /\ Cur' = Cur /\ SameEnds
    BY <1>2, <2>1 DEF Talking, Cur, SameEnds
  <2>3. opening' \in Seq(DataPipes)
    <3>1. <<"in", "out", "err">> \in Seq(DataPipes)
      BY DEF DataPipes
    <3> QED BY <1>3, <1>4, <3>1, Joining DEF ReadStdIoErr, ReadReturnCode, ReadOtherError
  <2>4. SameWire /\ Waiting' /\ ioRead'["ctrl"] = Cur
    BY <1>2, <2>1, <2>2, ReadOn
  <2> QED BY <1>1, <1>2, <2>1, <2>2, <2>3, <2>4, TalkKeeps
<1>5. CASE ReadGoodVersion
  <2> DEFINE h == Cached(ioWrite, "ctrl", Cur)
  <2>1. /\ UNCHANGED <<flow, timers, abort, fd, ends, nconn, opening>>
        /\ ioWrite' = [ioWrite EXCEPT !["ctrl"] = h]
        /\ AsyncRead("ctrl", Cur, WriteFails(h, Tail(wire)))
        /\ state' = "RUNNING"
    BY <1>5 DEF ReadGoodVersion, WriteThenRead, host, Cur
  <2>2. Talking' /\ Cur' = Cur /\ SameEnds
    BY <2>1 DEF Talking, Cur, SameEnds
  <2>3. h \in 0..MaxConn /\ h \in {ioWrite["ctrl"], Cur} /\ "ctrl" \in DOMAIN ioWrite
    BY Currents DEF Cached, IInv, Types, HandleTypes, Pipes
  <2> HIDE DEF h
  <2>4. LikeWire(WriteFails(h, Tail(wire))) /\ None(WriteFails(h, Tail(wire)), CtrlSays)
    BY <1>2, <2>3, LikeRefusals
  <2>5. SameWire /\ Waiting' /\ ioRead'["ctrl"] = Cur
    BY <1>2, <2>1, <2>2, <2>4, ReadOn
  <2>6. ioWrite'["ctrl"] \in {ioWrite["ctrl"], Cur}
    BY <2>1, <2>3
  <2> QED BY <1>1, <1>2, <1>3, <2>1, <2>2, <2>5, <2>6, TalkKeeps
<1> QED BY <1>4, <1>5

\* The current pipe was opened: it is the last one.
LEMMA OpenedHead ==
    ASSUME IInv, Conversation, CtrlOpened
    PROVE  /\ Head(wire) \in CtrlDone /\ Head(wire) \in CtrlOpens
           /\ state = "OPENING" /\ Head(wire).conn = nconn /\ nconn \in Conns /\ nconn > Cur
           /\ <<"ctrl", nconn>> \in ends /\ opening = <<>>
           /\ None(Tail(wire), CtrlOpens) /\ None(Tail(wire), CtrlDone)
           /\ None(Tail(wire), CtrlCloses) /\ None(Tail(wire), CtrlSays)
           /\ \A k \in Conns : <<"ctrl", k>> \notin pending
           /\ ioRead["ctrl"] = 0
<1>1. /\ flow = "loop" /\ wire # <<>> /\ Head(wire).pipe = "ctrl"
      /\ Head(wire).what = "open" /\ Head(wire).result = "done"
  BY DEF CtrlOpened, Handles
<1>2. /\ Head(wire) \in Said
      /\ \A S : /\ None(wire, S) <=> Head(wire) \notin S /\ None(Tail(wire), S)
                /\ One(wire, S) => (Head(wire) \in S => None(Tail(wire), S))
  BY <1>1, Hears
<1>3. Head(wire) \in CtrlDone /\ Head(wire) \in CtrlOpens
  BY <1>1, <1>2, Kinds
<1>4. ~None(wire, CtrlOpens) /\ ~None(wire, CtrlDone)
  BY <1>2, <1>3
<1>5. state = "OPENING" /\ Opening /\ ~Talking
  BY <1>4 DEF Conversation, Phases, Opened, Talking
<1>6. Head(wire) \notin Misnumbered(nconn)
  BY <1>2, <1>5 DEF Opening
<1>7. Head(wire).conn = nconn
  BY <1>2, <1>3, <1>6, Kinds
<1>8. /\ nconn > Cur /\ <<"ctrl", nconn>> \in ends /\ opening = <<>> /\ ioRead["ctrl"] = 0
      /\ None(wire, CtrlCloses) /\ None(wire, CtrlSays) /\ One(wire, CtrlOpens)
      /\ \A k \in Conns : <<"ctrl", k>> \notin pending
  BY <1>4, <1>5 DEF Opening, Conversation, Waiting
<1>9. nconn \in Conns
  BY <1>8 DEF IInv, Types, EndTypes, Ends
<1> QED BY <1>2, <1>3, <1>5, <1>7, <1>8, <1>9, NoOpens

LEMMA OpenedConverses ==
    ASSUME IInv, Conversation, CtrlOpened
    PROVE  Conversation'
<1> DEFINE h == Cached(ioWrite, "ctrl", nconn)
<1>1. /\ state = "OPENING" /\ Head(wire).conn = nconn /\ nconn \in Conns /\ nconn > Cur
      /\ <<"ctrl", nconn>> \in ends /\ opening = <<>>
      /\ None(Tail(wire), CtrlOpens) /\ None(Tail(wire), CtrlDone)
      /\ None(Tail(wire), CtrlCloses) /\ None(Tail(wire), CtrlSays)
      /\ \A k \in Conns : <<"ctrl", k>> \notin pending
      /\ ioRead["ctrl"] = 0
      /\ Head(wire) \in CtrlDone
  BY OpenedHead
<1>2. flow = "loop" /\ wire # <<>> /\ Head(wire).what = "open"
  BY DEF CtrlOpened, Handles
<1>3. /\ Tail(wire) \in Seq(Said) /\ Head(wire) \in Said /\ None(Tail(wire), Malformed)
      /\ \A S : None(wire, S) <=> Head(wire) \notin S /\ None(Tail(wire), S)
  BY <1>2, Hears
<1>4. /\ fd' = [fd EXCEPT !["ctrl"] = nconn]
      /\ state' = "GETTING_VERSION" /\ timers' = timers + 1
      /\ ioWrite' = [ioWrite EXCEPT !["ctrl"] = h]
      /\ AsyncRead("ctrl", nconn, WriteFails(h, Tail(wire)))
      /\ UNCHANGED <<flow, abort, ends, opening, nconn>>
  BY <1>1 DEF CtrlOpened, WriteThenRead, host
<1>5. /\ h \in 0..MaxConn
      /\ "ctrl" \in DOMAIN ioWrite /\ "ctrl" \in DOMAIN fd /\ "ctrl" \in DOMAIN ioRead
  BY <1>1, ConnsNat DEF Cached, IInv, Types, HandleTypes, Pipes
<1>6. h = IF ioWrite["ctrl"] = 0 THEN nconn ELSE ioWrite["ctrl"]
  BY DEF Cached
<1> HIDE DEF h
<1> DEFINE w == WriteFails(h, Tail(wire))
<1>7. /\ w \in Seq(Said) /\ Agree(w, Tail(wire), Refusals)
      /\ ~None(Tail(wire), Writes) => ~None(w, Writes)
  BY <1>3, <1>5, WriteFailsAdds
<1> HIDE DEF w
<1>8. /\ None(w, CtrlOpens) /\ None(w, CtrlCloses) /\ None(w, CtrlSays) /\ None(w, Malformed)
  BY <1>1, <1>3, <1>7, RefusalsApart DEF Agree
<1>9. Cached(ioRead, "ctrl", nconn) = nconn /\ nconn \in 0..MaxConn
  BY <1>1, ConnsNat DEF Cached
<1>10. ioRead' = [ioRead EXCEPT !["ctrl"] = nconn] /\ SendRead(<<"ctrl", nconn>>, w)
  BY <1>4, <1>9 DEF AsyncRead, w
<1>11. CtrlReads(nconn, w)
  BY <1>7, <1>9, <1>10, CtrlReadKinds
<1>12. /\ Adds(wire', w, Aside \cup CtrlSays)
       /\ One(wire', CtrlSays)
       /\ \A k \in Conns : <<"ctrl", k>> \in pending' =>
                             k = nconn /\ reply'[k] = "none" /\ wire' = w
  BY <1>1, <1>7, <1>8, <1>9, <1>11, CtrlReadAdds
<1>13. wire' \in Seq(Said) /\ Agree(wire', w, Aside \cup CtrlSays)
  BY <1>7, <1>12, AddsKeeps, SaysApart
<1>14. /\ None(wire', CtrlOpens) /\ None(wire', CtrlCloses) /\ None(wire', Malformed)
       /\ ~None(wire, Writes) => ~None(wire', Writes)
  <2>1. Head(wire) \notin Writes
    BY <1>2, <1>3, Kinds
  <2> QED BY <1>3, <1>7, <1>8, <1>13, <2>1, SaysApart DEF Agree
<1>15. /\ Cur' = nconn /\ Talking' /\ ~InMain' /\ ~Reinstalling' /\ ~Reinstalling /\ Up /\ Up'
       /\ state' # "OPENING" /\ state' # "CLOSING_FOR_REINSTALL" /\ ioRead'["ctrl"] = nconn
       /\ ioWrite'["ctrl"] = h /\ nconn # 0 /\ Cur \in 0..MaxConn
  BY <1>1, <1>2, <1>4, <1>5, <1>10, ConnsNat, Currents
  DEF Cur, Talking, InMain, Reinstalling, Up
<1>16. Numbered'
  BY <1>1, <1>4, <1>6, <1>9, <1>15, ConnsNat DEF Conversation, Numbered
<1>17. Phases'
  <2>1. opening' \in Seq(DataPipes)
    BY <1>1, <1>4
  <2> QED BY <1>2, <1>4, <1>14, <1>15, <2>1 DEF Phases, Opened
<1>18. Controlled' /\ Waiting'
  BY <1>1, <1>4, <1>8, <1>12, <1>15 DEF Conversation, Controlled, Waiting
<1>19. StaleEnds'
  BY <1>1, <1>2, <1>4, <1>6, <1>14, <1>15 DEF Conversation, StaleEnds, Stale
<1> QED BY <1>13, <1>14, <1>16, <1>17, <1>18, <1>19 DEF Conversation

LEMMA ClosingConverses ==
    ASSUME IInv, Conversation, ReadBadVersion
    PROVE  Conversation'
<1>1. /\ flow = "loop" /\ wire # <<>> /\ Head(wire).what = "read"
      /\ Head(wire).result \in Messages
  BY DEF ReadBadVersion, Handles, Messages
<1>2. /\ Talking /\ Cur \in Conns /\ ioRead["ctrl"] = Cur
      /\ \A k \in Conns : <<"ctrl", k>> \notin pending
      /\ None(Tail(wire), CtrlSays) /\ LikeWire(Tail(wire))
  BY <1>1, Answered, AnsweredTail
<1>3. Cached(ioRead, "ctrl", Cur) = Cur
  BY <1>2 DEF Cached
<1> DEFINE a == Reply("close", "ctrl", Cur, "done")
           b == Reply("read", "ctrl", Cur, "failed")
<1>4. /\ state' = "CLOSING_FOR_REINSTALL"
      /\ ends' = ends \ {<<"ctrl", Cur>>}
      /\ ioRead' = [ioRead EXCEPT !["ctrl"] = Cur]
      /\ wire' = Append(Append(Tail(wire), a), b)
      /\ UNCHANGED <<flow, timers, abort, fd, ioWrite, pending, opening, nconn, reply>>
  BY <1>3 DEF ReadBadVersion, Closed, CloseReply, Cur, host, service
<1>5. /\ a \in Said /\ b \in Said /\ b \notin CtrlCloses
      /\ a \notin CtrlOpens /\ a \notin CtrlSays /\ a \notin Malformed
      /\ b \notin CtrlOpens /\ b \notin CtrlSays /\ b \notin Malformed
  <2>1. /\ a \in Said /\ a.what = "close"
        /\ b \in Said /\ b.what = "read" /\ b.pipe = "ctrl" /\ b.result = "failed"
    BY <1>2, ConnsNat, Replying, Distinct DEF Pipes
  <2> QED BY <2>1, Kinds, Distinct DEF Malformed
<1> HIDE DEF a, b
<1>6. /\ None(wire, CtrlOpens) /\ None(wire, CtrlCloses) /\ None(wire, Malformed)
      /\ opening \in Seq(DataPipes) /\ Cur = nconn /\ Cur # 0
  BY <1>2 DEF Conversation, Phases, Opened, Talking
<1>7. /\ Append(Tail(wire), a) \in Seq(Said)
      /\ \A S : /\ None(Append(Tail(wire), a), S) <=> None(Tail(wire), S) /\ a \notin S
                /\ One(Tail(wire), S) /\ None(Tail(wire), S) => One(Append(Tail(wire), a), S)
  BY <1>2, <1>5, Puts DEF LikeWire
<1>8. /\ wire' \in Seq(Said)
      /\ \A S : /\ None(wire', S) <=> None(Tail(wire), S) /\ a \notin S /\ b \notin S
                /\ None(Tail(wire), S) /\ b \notin S => One(wire', S)
  BY <1>4, <1>5, <1>7, Puts, NoneOne
<1>9. /\ None(wire', CtrlOpens) /\ One(wire', CtrlCloses) /\ None(wire', CtrlSays)
      /\ None(wire', Malformed)
      /\ ~None(wire, Writes) => ~None(wire', Writes)
  BY <1>2, <1>5, <1>6, <1>8 DEF LikeWire, LikeOf
<1>10. /\ Cur' = Cur /\ ~Talking' /\ ~InMain' /\ ~Reinstalling' /\ ~Reinstalling /\ Up'
       /\ state' # "OPENING" /\ state # "OPENING"
  BY <1>1, <1>2, <1>4 DEF Cur, Talking, InMain, Reinstalling, Up
<1>11. Numbered'
  BY <1>4, <1>10 DEF Conversation, Numbered
<1>12. Phases'
  BY <1>1, <1>4, <1>6, <1>9, <1>10 DEF Phases, Opened
<1>13. Controlled' /\ Waiting'
  BY <1>2, <1>4, <1>6, <1>9, <1>10, NoneOne DEF Conversation, Controlled, Waiting
<1>14. StaleEnds'
  BY <1>1, <1>4, <1>9, <1>10 DEF Conversation, StaleEnds, Stale
<1> QED BY <1>8, <1>9, <1>11, <1>12, <1>13, <1>14 DEF Conversation

LEMMA ClosedConverses ==
    ASSUME IInv, Conversation, CloseDone, Head(wire).pipe = "ctrl"
    PROVE  Conversation'
<1>1. flow = "loop" /\ wire # <<>> /\ Head(wire).what = "close"
  BY DEF CloseDone, Handles
<1>2. /\ Tail(wire) \in Seq(Said) /\ Head(wire) \in Said /\ None(Tail(wire), Malformed)
      /\ \A S : /\ None(wire, S) <=> Head(wire) \notin S /\ None(Tail(wire), S)
                /\ One(wire, S) => (Head(wire) \in S => None(Tail(wire), S))
  BY <1>1, Hears
<1>3. Head(wire) \in CtrlCloses
  BY <1>1, <1>2, Kinds
<1>4. state = "CLOSING_FOR_REINSTALL"
  BY <1>2, <1>3 DEF Conversation, Phases, Opening, Talking
<1>5. /\ None(Tail(wire), CtrlCloses) /\ None(Tail(wire), CtrlOpens) /\ None(Tail(wire), CtrlSays)
      /\ opening \in Seq(DataPipes) /\ Cur = nconn /\ Cur # 0
      /\ \A k \in Conns : <<"ctrl", k>> \notin ends /\ <<"ctrl", k>> \notin pending
  BY <1>2, <1>3, <1>4 DEF Conversation, Phases, Opened, Talking, Controlled, Waiting
<1>6. /\ ioRead' = [ioRead EXCEPT !["ctrl"] = 0] /\ ioWrite' = [ioWrite EXCEPT !["ctrl"] = 0]
      /\ flow' = "reUninstall" /\ wire' = Tail(wire)
      /\ UNCHANGED <<state, timers, abort, fd, ends, pending, opening, nconn, reply>>
  BY <1>4 DEF CloseDone, client, host, service
<1>7. ioRead'["ctrl"] = 0 /\ ioWrite'["ctrl"] = 0
  BY <1>6 DEF IInv, Types, HandleTypes, Pipes
<1>8. Cur' = Cur /\ ~Talking' /\ ~InMain' /\ Reinstalling' /\ Up'
  BY <1>4, <1>6 DEF Cur, Talking, InMain, Reinstalling, Up
<1>9. Numbered'
  BY <1>6, <1>7, <1>8, Currents, ConnsNat DEF Conversation, Numbered
<1>10. Phases'
  BY <1>4, <1>5, <1>6, <1>7, <1>8, NoneOne DEF Phases, Opened
<1>11. Controlled' /\ Waiting'
  BY <1>4, <1>5, <1>6, <1>8, NoneOne DEF Controlled, Waiting
<1>12. StaleEnds'
  BY <1>7 DEF StaleEnds, Stale
<1> QED BY <1>2, <1>6, <1>9, <1>10, <1>11, <1>12 DEF Conversation

-----------------------------------------------------------------------------
(* Timers, signals, the SMB server and the service manager.                *)

LEMMA TimerConverses ==
    ASSUME IInv, Conversation, Timer
    PROVE  Conversation'
<1> DEFINE k == Cached(ioWrite, "ctrl", fd["ctrl"])
<1>1. /\ Up /\ timers > 0 /\ abort /\ timers' = timers - 1
      /\ ioWrite' = [ioWrite EXCEPT !["ctrl"] = k] /\ wire' = WriteFails(k, wire)
      /\ UNCHANGED <<flow, state, abort, fd, ioRead, ends, pending, opening, nconn, reply>>
  BY DEF Timer, host
<1>2. k = IF ioWrite["ctrl"] = 0 THEN Cur ELSE ioWrite["ctrl"]
  BY DEF Cached, Cur
<1>3. k \in 0..MaxConn /\ "ctrl" \in DOMAIN ioWrite
  BY DEF Cached, IInv, Types, HandleTypes, Pipes
<1> HIDE DEF k
<1>4. timers \in Nat /\ Cur \in Conns /\ Cur \in 0..MaxConn
  BY <1>1, Currents, ConnsNat DEF Conversation, Numbered
<1>5. /\ wire' \in Seq(Said) /\ Agree(wire', wire, Refusals)
      /\ ~None(wire, Writes) => ~None(wire', Writes)
      /\ ~Open(<<"ctrl", k>>) => ~None(wire', Writes)
  BY <1>1, <1>3, WriteFailsAdds DEF Conversation
<1>6. /\ SameWire
      /\ None(wire', CtrlSays) <=> None(wire, CtrlSays)
      /\ One(wire, CtrlSays) => One(wire', CtrlSays)
  BY <1>5, RefusalsApart DEF SameWire, SameOf, Agree
<1>7. /\ Cur' = Cur /\ (Talking' <=> Talking) /\ (InMain' <=> InMain)
      /\ (Reinstalling' <=> Reinstalling) /\ Up' /\ ioWrite'["ctrl"] = k
  BY <1>1, <1>3 DEF Cur, Talking, InMain, Reinstalling, Up
<1>8. Numbered'
  BY <1>1, <1>2, <1>4, <1>7, ConnsNat DEF Conversation, Numbered
<1>9. state = "OPENING" => Opening'
  BY <1>1, <1>6, <1>7 DEF Conversation, Phases, Opening, SameWire, SameOf
<1>10. Phases'
  BY <1>1, <1>6, <1>7, <1>9 DEF Conversation, Phases, Opened, SameWire, SameOf
<1>11. Controlled' /\ Waiting'
  BY <1>1, <1>6, <1>7 DEF Conversation, Controlled, Waiting, SameWire, SameOf
<1>12. StaleEnds'
  <2>1. CASE ioWrite["ctrl"] # 0
    BY <1>1, <1>2, <1>5, <1>7, <2>1 DEF Conversation, StaleEnds, Stale
  <2>2. CASE ioWrite["ctrl"] = 0
    <3>1. state = "OPENING" \/ Reinstalling => <<"ctrl", k>> \notin ends
      BY <1>2, <1>4, <2>2 DEF Conversation, Controlled, Phases, Talking, Reinstalling
    <3> QED BY <1>1, <1>2, <1>5, <1>7, <2>2, <3>1 DEF StaleEnds, Stale, Open
  <2> QED BY <2>1, <2>2
<1> QED BY <1>6, <1>8, <1>10, <1>11, <1>12 DEF Conversation, SameWire, SameOf

LEMMA SignalConverses ==
    ASSUME IInv, Conversation, Signal \/ RequestTimesOut
    PROVE  Conversation'
<1>1. CASE Signal /\ sigint = "catch"
  <2>1. /\ UNCHANGED <<flow, state, timers, fd, io, ends, pending, opening, wire, nconn, reply>>
        /\ abort'
    BY <1>1 DEF Signal, host, service
  <2>2. Steady /\ SameEnds /\ SameWire /\ SameOpening
    BY <2>1 DEF Steady, SameEnds, SameWire, SameOf, SameOpening, io, Conversation, Phases, Opened
  <2>3. Waiting'
    BY <2>1 DEF Conversation, Waiting, Talking, Cur
  <2> QED BY <2>1, <2>2, <2>3, SteadyKeeps DEF Conversation, Phases
<1>2. CASE Signal /\ sigint # "catch"
  <2>1. Leaving /\ ClientGone("killed")
    BY <1>2 DEF Signal, Leaving, io, host
  <2> QED BY <2>1, GoneKeeps
<1>3. CASE RequestTimesOut
  <2>1. Leaving /\ reply' = reply /\ Up /\ ExitProgram(wire)
    BY <1>3 DEF RequestTimesOut, Leaving, Up, io, host, service
  <2> QED BY <2>1, ExitKeeps
<1> QED BY <1>1, <1>2, <1>3

LEMMA ServerConverses ==
    ASSUME IInv, Conversation, SmbServer
    PROVE  Conversation'
<1>1. opening # <<>> /\ opening' = Tail(opening) /\ opening \in Seq(Pipes) /\ Up
  BY DEF SmbServer, ServeCtrlOpen, ServeDataOpen, IInv, Types, EndTypes, Conversation, Phases
<1>2. wire \in Seq(Said)
  BY DEF Conversation
<1>3. CASE ServeDataOpen
  <2> DEFINE p == Head(opening)
  <2>1. p \in Pipes /\ p # "ctrl"
    BY <1>1, <1>3, Dropping DEF ServeDataOpen
  <2>2. fd["ctrl"] \in 0..MaxConn
    BY Currents DEF Cur
  <2>3. /\ Reply("open", p, fd["ctrl"], "done") \in Aside
        /\ Reply("open", p, 0, "notfound") \in Aside
    BY <2>1, <2>2, ConnsNat, Replying, Distinct DEF Aside, Malformed
  <2>4. /\ \/ wire' = Append(wire, Reply("open", p, fd["ctrl"], "done"))
           \/ wire' = Append(wire, Reply("open", p, 0, "notfound"))
        /\ ends' \in {ends, ends \cup {<<p, fd["ctrl"]>>}}
        /\ UNCHANGED <<flow, client, io, pending, nconn, reply>>
    BY <1>3 DEF ServeDataOpen, host, service
  <2>5. Adds(wire', wire, Aside)
    BY <1>2, <2>3, <2>4, AddsOne
  <2>6. Steady /\ SameEnds
    BY <2>1, <2>4 DEF Steady, SameEnds, client, io
  <2>7. SameOpening
    <3>1. state # "OPENING"
      BY <1>1, <2>1 DEF Conversation, Phases, Opening
    <3>2. opening \in Seq(DataPipes)
      BY <3>1 DEF Conversation, Phases, Opened
    <3> QED BY <1>1, <3>1, <3>2, Dropping DEF SameOpening
  <2> QED BY <1>1, <2>4, <2>5, <2>6, <2>7, AsideKeeps
<1>4. CASE ServeCtrlOpen
  <2>1. state = "OPENING" /\ Opening /\ ~Talking
    <3>1. Head(opening) = "ctrl"
      BY <1>4 DEF ServeCtrlOpen
    <3>2. opening \notin Seq(DataPipes)
      BY <1>1, <3>1, Dropping DEF DataPipes
    <3> QED BY <3>2 DEF Conversation, Phases, Opened, Talking
  <2>2. opening = <<"ctrl">> /\ opening' = <<>> /\ None(wire, CtrlOpens)
    BY <1>1, <2>1 DEF Opening
  <2>3. None(wire, CtrlDone) /\ \A n : None(wire, Misnumbered(n))
    BY <2>2, NoOpens
  <2>4. Cur = nconn /\ ~InMain /\ nconn \in 0..MaxConn
    BY <1>1, <2>1, <2>2, <2>3 DEF Opening, Conversation, Phases, Numbered
  <2>5. \A k \in Conns : <<"ctrl", k>> \notin ends
    BY <2>1, <2>3 DEF Conversation, Controlled
  <2>6. UNCHANGED <<flow, client, io, pending, reply>>
    BY <1>4 DEF ServeCtrlOpen
  <2>7. /\ Cur' = Cur /\ ~Talking' /\ ~InMain' /\ ~Reinstalling' /\ Up' /\ state' = "OPENING"
        /\ ~Reinstalling
    BY <1>1, <2>1, <2>4, <2>6 DEF Cur, Talking, InMain, Reinstalling, Up, Opening, client
  <2>8. ASSUME NEW r \in Said, r.what = "open", r.pipe = "ctrl",
               r.result \in {"done", "notfound", "busy"}, wire' = Append(wire, r)
        PROVE  /\ wire' \in Seq(Said) /\ None(wire', Malformed)
               /\ None(wire', CtrlCloses) /\ One(wire', CtrlOpens)
               /\ None(wire', CtrlDone) <=> r.result # "done"
               /\ \A n : r.conn = n => None(wire', Misnumbered(n))
               /\ r.result # "done" => \A n : None(wire', Misnumbered(n))
               /\ None(wire', CtrlSays) /\ One(wire', CtrlSays)
               /\ ~None(wire, Writes) => ~None(wire', Writes)
    <3>1. /\ wire' \in Seq(Said)
          /\ \A S : /\ None(wire', S) <=> None(wire, S) /\ r \notin S
                    /\ One(wire, S) /\ (r \notin S \/ None(wire, S)) => One(wire', S)
      BY <1>2, <2>8, Puts
    <3>2. /\ r \notin Malformed /\ r \notin CtrlCloses /\ r \notin CtrlSays
          /\ r \in CtrlDone <=> r.result = "done"
          /\ \A n : r \in Misnumbered(n) <=> r.result = "done" /\ r.conn # n
      BY <2>8, Kinds DEF Malformed
    <3> QED BY <2>1, <2>2, <2>3, <3>1, <3>2, NoneOne DEF Opening, Conversation, Waiting
  <2>9. CASE loop = "listen"
    <3> DEFINE k == nconn + 1
               r == Reply("open", "ctrl", k, "done")
    <3>1. /\ k \in Conns /\ nconn' = k /\ ends' = ends \cup {<<"ctrl", k>>}
          /\ wire' = Append(wire, r)
      BY <1>4, <2>9 DEF ServeCtrlOpen
    <3>2. /\ r \in Said /\ r.what = "open" /\ r.pipe = "ctrl" /\ r.conn = k /\ r.result = "done"
          /\ k \in 0..MaxConn
      BY <3>1, ConnsNat, Replying, Distinct DEF Pipes
    <3>3. k > Cur /\ Cur \in 0..MaxConn
      BY <2>4
    <3> HIDE DEF k, r
    <3>4. /\ wire' \in Seq(Said) /\ None(wire', Malformed)
          /\ None(wire', CtrlCloses) /\ One(wire', CtrlOpens)
          /\ ~None(wire', CtrlDone) /\ None(wire', Misnumbered(k))
          /\ None(wire', CtrlSays) /\ One(wire', CtrlSays)
          /\ ~None(wire, Writes) => ~None(wire', Writes)
      BY <2>8, <3>1, <3>2
    <3>5. Opening'
      BY <2>1, <2>2, <2>6, <2>7, <3>1, <3>3, <3>4 DEF Opening, client, io
    <3>6. Numbered'
      BY <2>4, <2>6, <2>7, <3>1, <3>2, <3>3 DEF Conversation, Numbered, client, io
    <3>7. Phases'
      BY <2>6, <2>7, <3>5 DEF Conversation, Phases, Talking
    <3>8. Controlled' /\ Waiting'
      BY <2>1, <2>5, <2>6, <2>7, <3>1, <3>3, <3>4 DEF Conversation, Controlled, Waiting
    <3>9. StaleEnds'
      BY <2>1, <2>6, <2>7, <3>4 DEF Conversation, StaleEnds, Stale, client, io
    <3> QED BY <3>4, <3>6, <3>7, <3>8, <3>9 DEF Conversation
  <2>10. CASE loop # "listen"
    <3>1. UNCHANGED <<nconn, ends>>
      BY <1>4, <2>10 DEF ServeCtrlOpen
    <3>2. PICK why \in {"notfound", "busy"} :
            wire' = Append(wire, Reply("open", "ctrl", 0, why))
      BY <1>4, <2>10 DEF ServeCtrlOpen
    <3> DEFINE r == Reply("open", "ctrl", 0, why)
    <3>3. r \in Said /\ r.what = "open" /\ r.pipe = "ctrl" /\ r.result = why
      BY ConnsNat, Replying, Distinct DEF Pipes
    <3> HIDE DEF r
    <3>4. /\ wire' \in Seq(Said) /\ None(wire', Malformed)
          /\ None(wire', CtrlCloses) /\ One(wire', CtrlOpens)
          /\ None(wire', CtrlDone) /\ None(wire', Misnumbered(nconn))
          /\ None(wire', CtrlSays) /\ One(wire', CtrlSays)
          /\ ~None(wire, Writes) => ~None(wire', Writes)
      <4>1. wire' = Append(wire, r) /\ r.result # "done"
        BY <3>2, <3>3 DEF r
      <4> QED BY <2>8, <3>3, <4>1
    <3>5. Opening'
      BY <2>1, <2>2, <2>4, <2>6, <2>7, <3>1, <3>4 DEF Opening, client, io
    <3>6. Numbered'
      BY <2>4, <2>6, <2>7, <3>1 DEF Conversation, Numbered, client, io
    <3>7. Phases'
      BY <2>6, <2>7, <3>5 DEF Conversation, Phases, Talking
    <3>8. Controlled' /\ Waiting'
      BY <2>1, <2>5, <2>6, <2>7, <3>1, <3>4 DEF Conversation, Controlled, Waiting
    <3>9. StaleEnds'
      BY <2>1, <2>6, <2>7, <3>4 DEF Conversation, StaleEnds, Stale, client, io
    <3> QED BY <3>4, <3>6, <3>7, <3>8, <3>9 DEF Conversation
  <2> QED BY <2>9, <2>10
<1> QED BY <1>3, <1>4 DEF SmbServer

LEMMA BlockedConverses ==
    ASSUME IInv, Conversation, Blocked
    PROVE  Conversation'
<1>1. wire \in Seq(Said) /\ None(wire, Malformed)
  BY DEF Conversation
<1>2. CASE MainUninstall \/ ReUninstall
  <2>1. /\ UNCHANGED <<client, io, ends, opening, nconn, reply>>
        /\ \/ flow = "mainUninstall" /\ flow' = "mainInstall"
           \/ flow = "reUninstall" /\ flow' = "reInstall"
    BY <1>2 DEF MainUninstall, ReUninstall, SvcUninstall, ServiceGone, host, service
  <2>2. Adds(wire', wire, Aside) /\ pending' \subseteq pending
    BY <1>2, LosesAside DEF MainUninstall, ReUninstall
  <2>3. wire' \in Seq(Said) /\ Agree(wire', wire, Aside)
    BY <1>1, <2>2, AddsKeeps, AsideApart
  <2>4. /\ SameWire
        /\ (None(wire', CtrlSays) <=> None(wire, CtrlSays))
        /\ (One(wire, CtrlSays) => One(wire', CtrlSays))
    BY <2>3, AsideApart DEF SameWire, SameOf, Agree
  <2>5. /\ Cur' = Cur /\ (Talking' <=> Talking) /\ (InMain' <=> InMain)
        /\ (Reinstalling' <=> Reinstalling) /\ Up /\ Up'
    BY <2>1 DEF client, Cur, Talking, InMain, Reinstalling, Up
  <2>6. Numbered'
    BY <2>1, <2>5 DEF Conversation, Numbered, client, io
  <2>7. state = "OPENING" => Opening'
    BY <2>1, <2>4, <2>5 DEF Conversation, Phases, Opening, SameWire, SameOf, client, io
  <2>8. Phases'
    BY <2>1, <2>4, <2>5, <2>7 DEF Conversation, Phases, Opened, SameWire, SameOf, client, io
  <2>9. Controlled' /\ Waiting'
    BY <2>1, <2>2, <2>4, <2>5
    DEF Conversation, Controlled, Waiting, SameWire, SameOf, client
  <2>10. StaleEnds'
    BY <2>1, <2>4, <2>5 DEF Conversation, StaleEnds, Stale, SameWire, client, io
  <2> QED BY <2>4, <2>6, <2>8, <2>9, <2>10, <1>1 DEF Conversation, SameWire, SameOf
<1>3. CASE MainInstall
  <2>1. /\ UNCHANGED <<client, io, ends, pending, wire, nconn, reply>>
        /\ flow = "mainInstall" /\ flow' = "loop" /\ opening' = <<"ctrl">>
    BY <1>3 DEF MainInstall, SvcInstall, service
  <2>2. /\ Cur' = Cur /\ (Talking' <=> Talking) /\ InMain /\ ~InMain'
        /\ ~Reinstalling /\ ~Reinstalling' /\ Up /\ Up'
    BY <2>1 DEF client, Cur, Talking, InMain, Reinstalling, Up
  <2>3. state = "OPENING" /\ state' = "OPENING" /\ None(wire, CtrlOpens) /\ ~Talking
    BY <2>1, <2>2 DEF Conversation, Phases, Opened, client, Talking
  <2>4. Opening'
    BY <2>1, <2>2, <2>3 DEF Conversation, Phases, Opening, client, io
  <2>5. Numbered' /\ Phases'
    BY <2>1, <2>2, <2>3, <2>4 DEF Conversation, Numbered, Phases, client, io
  <2>6. Controlled' /\ Waiting' /\ StaleEnds'
    BY <2>1, <2>2, <2>3
    DEF Conversation, Controlled, Waiting, StaleEnds, Stale, client, io
  <2> QED BY <1>1, <2>1, <2>5, <2>6 DEF Conversation
<1>4. CASE ReInstall
  <2>1. /\ UNCHANGED <<rc, timers, abort, fd, io, ends, pending, wire, nconn, reply>>
        /\ flow = "reInstall" /\ flow' = "loop" /\ opening' = <<"ctrl">> /\ state' = "OPENING"
    BY <1>4 DEF ReInstall, SvcInstall, service
  <2>2. /\ Cur' = Cur /\ ~Talking' /\ ~InMain'
        /\ Reinstalling /\ ~Reinstalling' /\ Up /\ Up'
    BY <2>1 DEF Cur, Talking, InMain, Reinstalling, Up
  <2>3. /\ state # "OPENING" /\ ~Talking /\ None(wire, CtrlOpens) /\ None(wire, CtrlCloses)
        /\ ioRead["ctrl"] = 0 /\ Cur = nconn /\ None(wire, CtrlSays)
        /\ \A k \in Conns : <<"ctrl", k>> \notin ends /\ <<"ctrl", k>> \notin pending
    BY <2>2 DEF Conversation, Phases, Opening, Opened, Controlled, Waiting
  <2>4. None(wire, CtrlDone) /\ \A n : None(wire, Misnumbered(n))
    BY <2>3, NoOpens
  <2>5. Opening'
    BY <2>1, <2>2, <2>3, <2>4, NoneOne DEF Opening, io
  <2>6. Numbered' /\ Phases'
    BY <2>1, <2>2, <2>3, <2>5 DEF Conversation, Numbered, Phases, io
  <2>7. Controlled' /\ Waiting'
    BY <2>1, <2>2, <2>3, NoneOne DEF Controlled, Waiting
  <2>8. StaleEnds'
    BY <2>1, <2>2, <2>3 DEF Conversation, StaleEnds, Stale, io
  <2> QED BY <1>1, <2>1, <2>6, <2>7, <2>8 DEF Conversation
<1>5. CASE ErrorInstall
  <2>1. /\ UNCHANGED <<state, abort, timers, fd, io, nconn, reply>> /\ flow = "errorInstall"
        /\ \/ /\ flow' = "loop" /\ opening' = <<"ctrl">>
              /\ UNCHANGED <<ends, pending, wire>>
           \/ ExitProgram(wire)
    BY <1>5 DEF ErrorInstall, SvcInstall, service
  <2>2. CASE ExitProgram(wire)
    <3>1. Leaving /\ reply' = reply /\ Up
      BY <2>1 DEF Leaving, Up, io
    <3> QED BY <2>2, <3>1, ExitKeeps
  <2>3. CASE flow' = "loop" /\ opening' = <<"ctrl">> /\ UNCHANGED <<ends, pending, wire>>
    <3>1. /\ Cur' = Cur /\ (Talking' <=> Talking) /\ InMain /\ ~InMain'
          /\ ~Reinstalling /\ ~Reinstalling' /\ Up /\ Up'
      BY <2>1, <2>3 DEF Cur, Talking, InMain, Reinstalling, Up
    <3>2. state = "OPENING" /\ state' = "OPENING" /\ None(wire, CtrlOpens) /\ ~Talking
      BY <2>1, <3>1 DEF Conversation, Phases, Opened, Talking
    <3>3. Opening'
      BY <2>1, <2>3, <3>1, <3>2 DEF Conversation, Phases, Opening, io
    <3>4. Numbered' /\ Phases'
      BY <2>1, <2>3, <3>1, <3>2, <3>3 DEF Conversation, Numbered, Phases, io
    <3>5. Controlled' /\ Waiting' /\ StaleEnds'
      BY <2>1, <2>3, <3>1, <3>2
      DEF Conversation, Controlled, Waiting, StaleEnds, Stale, io
    <3> QED BY <1>1, <2>3, <3>4, <3>5 DEF Conversation
  <2> QED BY <2>1, <2>2, <2>3
<1>6. CASE ExitUninstall
  <2>1. Leaving /\ ClientGone("exited")
    BY <1>6 DEF ExitUninstall, Leaving, client, io, SvcUninstall, ServiceGone, host
  <2> QED BY <2>1, GoneKeeps
<1> QED BY <1>2, <1>3, <1>4, <1>5, <1>6 DEF Blocked

LEMMA NextConverses == IInv /\ Conversation /\ [Next]_vars => Conversation'
<1> SUFFICES ASSUME IInv, Conversation, [Next]_vars PROVE Conversation'
  OBVIOUS
<1>1. CASE UNCHANGED vars
  <2>1. UNCHANGED <<flow, client, io, ends, pending, opening, wire, nconn, reply>>
    BY <1>1 DEF vars, smb, host, service
  <2> QED BY <2>1, SilentKeeps
<1>2. CASE Callback
  <2>1. CASE CloseDone
    BY <2>1, DataConverses, ClosedConverses
  <2> QED
    BY <1>2, <2>1, OpenedConverses, DataConverses, FailureConverses, AnswerConverses,
       ClosingConverses
    DEF Callback
<1> QED
  BY <1>1, <1>2, BlockedConverses, TimerConverses, ServerConverses, HostConverses,
     SignalConverses, HandlerConverses
  DEF Next, Client, Environment

LEMMA ConversationHolds == Spec => [](IInv /\ Conversation)
<1>1. IInv /\ Conversation /\ [Next]_vars => (IInv /\ Conversation)'
  BY NextInv, NextConverses
<1> QED BY <1>1, InitInv, InitConversation, PTL DEF Spec

\* winexe.c and async.c: a control pipe in use is used through its current
\* handle; no request structure cached before a reopen survives it, for any
\* number of reopens, unless an abort used it while the pipe was being opened,
\* and then its failure, which ends the client, waits on the wire.
THEOREM NoRequestOutlivesItsPipe == Spec => []NoStaleHandle
<1>1. IInv /\ Conversation => NoStaleHandle
  <2> SUFFICES ASSUME IInv, Conversation, flow = "loop",
                      state \in {"GETTING_VERSION", "RUNNING"}
               PROVE  \/ {ioRead["ctrl"], ioWrite["ctrl"]} \subseteq {0, fd["ctrl"]}
                      \/ abort /\ Ending
    BY DEF NoStaleHandle
  <2>1. ioRead["ctrl"] = Cur
    BY DEF Conversation, Phases, Talking
  <2>2. Stale => abort /\ ~None(wire, Writes)
    BY DEF Conversation, StaleEnds
  <2>3. ~None(wire, Writes) => Ending
    <3>1. \A i \in DOMAIN wire : wire[i] \in Said
      BY DEF Conversation
    <3> QED BY <3>1, Kinds DEF None, Ending
  <2> QED BY <2>1, <2>2, <2>3 DEF Stale, Cur
<1> QED BY <1>1, ConversationHolds, PTL

-----------------------------------------------------------------------------
(* Steps, as far as they are about the control pipe and its handlers.      *)

\* The answers on the wire stay.
Unsaid == \A S : S \subseteq CtrlSays => /\ None(wire', S) <=> None(wire, S)
                                         /\ One(wire, S) => One(wire', S)

SameCtrl ==
    \A k \in Conns : /\ <<"ctrl", k>> \in ends' <=> <<"ctrl", k>> \in ends
                     /\ <<"ctrl", k>> \in pending' <=> <<"ctrl", k>> \in pending
                     /\ <<"ctrl", k>> \in inst' <=> <<"ctrl", k>> \in inst
                     /\ <<"ctrl", k>> \in met' <=> <<"ctrl", k>> \in met

\* Nothing happens to them.
Idle ==
    /\ UNCHANGED <<flow, state, rc, nconn, exe, registered, hpc, inbox, reply, owner, ec, starts>>
    /\ fd'["ctrl"] = fd["ctrl"] /\ ioWrite'["ctrl"] = ioWrite["ctrl"]
    /\ abort => abort'
    /\ proc' = proc \/ (proc = "running" /\ proc' = "exited")
    /\ SameCtrl /\ Unsaid

\* The client starts to leave, or is gone.
Leaves ==
    /\ Up
    /\ UNCHANGED <<state, nconn, met, inbox, reply, proc, owner, ec, starts>>
    /\ flow' \in {"exitUninstall", "exited", "killed"}
    /\ rc' = rc \/ rc' = "rc1"
    /\ fd'["ctrl"] = fd["ctrl"] /\ ioWrite'["ctrl"] \in {0, ioWrite["ctrl"]}
    /\ abort' = abort
    /\ pending' \subseteq pending
    /\ flow' = "exitUninstall" => UNCHANGED <<ends, pending>>
    /\ flow' # "exitUninstall" => wire' = <<>> /\ ends' = {}
    /\ \A S : S \subseteq CtrlSays => (None(wire, S) => None(wire', S))
    /\ \/ UNCHANGED <<hpc, inst, exe, registered>>
       \/ SvcUninstall
       \/ UNCHANGED <<hpc, inst>> /\ flow = "errorInstall" /\ SvcInstall(TRUE, TRUE)

\* The service is stopped or removed; the client blocks in that, or goes on.
Stopped ==
    /\ UNCHANGED <<state, rc, ends, met, nconn, inbox, reply, proc, owner, ec, starts, abort>>
    /\ fd'["ctrl"] = fd["ctrl"] /\ ioWrite'["ctrl"] = ioWrite["ctrl"]
    /\ pending' \subseteq pending
    /\ Unsaid
    /\ \/ flow' = flow
       \/ flow = "mainUninstall" /\ flow' = "mainInstall"
       \/ flow = "reUninstall" /\ flow' = "reInstall"
    /\ \/ UNCHANGED <<hpc, inst, pending, exe, registered>>
       \/ /\ hpc' = [k \in Conns |-> IF hpc[k] = "none" THEN "none" ELSE "gone"]
          /\ inst' \subseteq inst
          /\ \/ UNCHANGED <<exe, registered>>
             \/ registered /\ registered' = FALSE /\ exe' \in Unlinked
    /\ flow = "reUninstall" /\ flow' = "reInstall" =>
          \/ registered /\ registered' = FALSE /\ exe' \in Unlinked
          \/ ~registered /\ UNCHANGED <<exe, registered>>

\* What is not about the answers on the wire.
LEMMA AsideUnsaid ==
    ASSUME NEW w, w = wire \/ (wire # <<>> /\ w = Tail(wire) /\ Head(wire) \notin CtrlSays),
           wire \in Seq(Said), Adds(wire', w, Aside)
    PROVE  Unsaid
<1>1. w \in Seq(Said)
  BY Takes
<1>2. wire' \in Seq(Said) /\ Agree(wire', w, Aside)
  BY <1>1, AddsKeeps, AsideApart
<1>3. ASSUME NEW S, S \subseteq CtrlSays
      PROVE  (None(wire', S) <=> None(wire, S)) /\ (One(wire, S) => One(wire', S))
  <2>1. Apart(S, Aside)
    BY <1>3, AsideApart DEF Apart
  <2>2. (None(wire', S) <=> None(w, S)) /\ (One(w, S) => One(wire', S))
    BY <1>2, <2>1 DEF Agree
  <2>3. (None(w, S) <=> None(wire, S)) /\ (One(wire, S) => One(w, S))
    <3>1. CASE w = wire
      BY <3>1
    <3>2. CASE wire # <<>> /\ w = Tail(wire) /\ Head(wire) \notin CtrlSays
      BY <1>3, <3>2, Takes
    <3> QED BY <3>1, <3>2
  <2> QED BY <2>2, <2>3
<1> QED BY <1>3 DEF Unsaid

LEMMA ServiceStops ==
    ASSUME IInv, Conversation, MainUninstall \/ ReUninstall \/ ServiceDies
    PROVE  Stopped
<1>1. wire \in Seq(Said)
  BY DEF Conversation
<1>2. Adds(wire', wire, Aside) /\ pending' \subseteq pending
  BY LosesAside DEF MainUninstall, ReUninstall, ServiceDies
<1>3. Unsaid
  BY <1>1, <1>2, AsideUnsaid
<1>4. LosesReads(FALSE) => pending' = pending
  BY DEF LosesReads
<1>5. CASE MainUninstall \/ ReUninstall
  <2>1. registered = FALSE => LosesReads(FALSE)
    BY <1>5 DEF MainUninstall, ReUninstall
  <2>2. CASE registered
    BY <1>2, <1>3, <1>5, <2>2
    DEF MainUninstall, ReUninstall, SvcUninstall, ServiceGone, Stopped, client, io
  <2>3. CASE ~registered
    <3>1. registered = FALSE => UNCHANGED pending
      BY <1>4, <2>1
    <3>2. UNCHANGED pending
      <4>1. LosesReads(registered)
        BY <1>5 DEF MainUninstall, ReUninstall
      <4> QED BY <2>3, <4>1 DEF LosesReads
    <3> QED BY <1>2, <1>3, <1>5, <2>3, <3>2
            DEF MainUninstall, ReUninstall, SvcUninstall, Stopped, client, io, host, service,
                command
  <2> QED BY <2>2, <2>3
<1>6. CASE ServiceDies
  BY <1>2, <1>3, <1>6 DEF ServiceDies, ServiceGone, Stopped, client, io
<1> QED BY <1>5, <1>6

LEMMA SilentIdle ==
    ASSUME IInv, Conversation,
           UNCHANGED <<flow, state, rc, fd, nconn, exe, registered, hpc, inbox, reply, proc,
                       owner, ec, starts, ioWrite, ends, met, pending, inst, wire>>,
           abort => abort'
    PROVE  Idle
BY DEF Idle, SameCtrl, Unsaid

\* Callbacks of the data pipes.
LEMMA DataIdle ==
    ASSUME IInv, Conversation,
           \/ DataOpened \/ DataFailed \/ DataRead
           \/ CloseDone /\ Head(wire).pipe # "ctrl"
    PROVE  Idle
<1>1. flow = "loop" /\ wire # <<>>
  BY DEF DataOpened, DataFailed, DataRead, CloseDone, Handles
<1>2. /\ Tail(wire) \in Seq(Said) /\ Head(wire) \in Said /\ wire \in Seq(Said)
      /\ Head(wire) \notin Malformed
      /\ Head(wire).pipe \in Pipes /\ Head(wire).conn \in 0..MaxConn
      /\ Head(wire).pipe # "ctrl" => Head(wire) \notin CtrlSays
  BY <1>1, Hears, Kinds
<1>3. /\ \A p \in Pipes : fd[p] \in 0..MaxConn
      /\ \A p \in DataPipes : p # "ctrl" /\ p \in Pipes
      /\ \A p \in DataPipes : \A f : /\ [fd EXCEPT ![p] = f]["ctrl"] = fd["ctrl"]
                                     /\ [ioWrite EXCEPT ![p] = f]["ctrl"] = ioWrite["ctrl"]
  BY DEF IInv, Types, HandleTypes, DataPipes, Pipes
<1>4. ASSUME NEW p \in DataPipes, NEW k \in 0..MaxConn, AsyncRead(p, k, Tail(wire))
      PROVE  /\ Adds(wire', Tail(wire), Aside)
             /\ reply' = reply
             /\ \A j \in Conns : <<"ctrl", j>> \in pending' <=> <<"ctrl", j>> \in pending
  <2>1. Cached(ioRead, p, k) \in 0..MaxConn
    BY <1>3, <1>4 DEF Cached, IInv, Types, HandleTypes
  <2>2. SendRead(<<p, Cached(ioRead, p, k)>>, Tail(wire))
    BY <1>4 DEF AsyncRead
  <2> QED BY <1>2, <2>1, <2>2, DataReadAside
<1>5. ASSUME Adds(wire', Tail(wire), Aside), Head(wire).pipe # "ctrl" PROVE Unsaid
  BY <1>1, <1>2, <1>5, AsideUnsaid
<1>6. CASE DataOpened
  <2>1. Head(wire).pipe \in DataPipes /\ Head(wire).conn \in 0..MaxConn
        /\ AsyncRead(Head(wire).pipe, Head(wire).conn, Tail(wire))
    BY <1>2, <1>6 DEF DataOpened
  <2>2. Unsaid /\ SameCtrl
    BY <1>3, <1>4, <1>5, <1>6, <2>1 DEF DataOpened, SameCtrl
  <2> QED BY <1>3, <1>4, <1>6, <2>1, <2>2 DEF DataOpened, Idle, host, command
<1>7. CASE DataRead
  <2>1. Head(wire).pipe \in DataPipes
    <3>1. Head(wire).what = "read" /\ Head(wire).result = "chunk"
      BY <1>7 DEF DataRead, Handles
    <3>2. Head(wire).pipe \in Streams
      BY <1>2, <3>1, Distinct DEF Malformed
    <3> QED BY <3>2 DEF Streams, DataPipes
  <2>2. fd[Head(wire).pipe] \in 0..MaxConn
        /\ AsyncRead(Head(wire).pipe, fd[Head(wire).pipe], Tail(wire))
    BY <1>2, <1>3, <1>7 DEF DataRead
  <2>3. Unsaid /\ SameCtrl
    BY <1>3, <1>4, <1>5, <1>7, <2>1, <2>2 DEF DataRead, SameCtrl
  <2> QED BY <1>3, <1>4, <1>7, <2>1, <2>2, <2>3 DEF DataRead, Idle, host, command, client
<1>8. CASE DataFailed
  <2> DEFINE p == Head(wire).pipe
  <2>1. /\ p \in DataPipes /\ ends' = ends \ {<<p, fd[p]>>} /\ met' = met
        /\ wire' = Append(Tail(wire), Reply("close", p, fd[p], "done"))
    BY <1>8 DEF DataFailed, Closed, CloseReply
  <2>2. Reply("close", p, fd[p], "done") \in Aside
    BY <1>3, <2>1, Replying, Distinct DEF Aside, Malformed
  <2>3. Adds(wire', Tail(wire), Aside)
    BY <1>2, <2>1, <2>2, AddsOne
  <2>4. Unsaid
    BY <1>3, <1>5, <2>1, <2>3
  <2> HIDE DEF p
  <2>5. SameCtrl
    BY <1>3, <1>8, <2>1 DEF DataFailed, SameCtrl, service
  <2> QED BY <1>8, <2>4, <2>5 DEF DataFailed, Idle, host, client, io, service, command
<1>9. CASE CloseDone /\ Head(wire).pipe # "ctrl"
  <2>1. Head(wire).pipe \in DataPipes
    BY <1>2, <1>9 DEF Pipes
  <2>2. Adds(wire', Tail(wire), Aside)
    BY <1>2, <1>9, AddsNothing DEF CloseDone
  <2>3. Unsaid /\ SameCtrl
    BY <1>5, <1>9, <2>2 DEF CloseDone, SameCtrl, service
  <2> QED BY <1>3, <1>9, <2>1, <2>3 DEF CloseDone, Idle, host, client, service, command
<1> QED BY <1>6, <1>7, <1>8, <1>9

\* The command, the server loop, and the opens of the data pipes.
LEMMA HostIdle ==
    ASSUME IInv, Conversation, Command \/ ServerLoop \/ OtherClient \/ ServeDataOpen
    PROVE  Idle
<1>1. wire \in Seq(Said)
  BY DEF Conversation
<1>2. Adds(wire', wire, Aside) => Unsaid
  BY <1>1, AsideUnsaid
<1>3. ASSUME NEW s \in Streams, Produce(s) PROVE Idle
  <2>1. \A k : <<"ctrl", k>> # <<s, owner>>
    BY DEF Streams
  <2>2. CASE <<s, owner>> \in pending
    <3>1. /\ wire' = Append(wire, Reply("read", s, owner, "chunk"))
          /\ pending' = pending \ {<<s, owner>>}
      BY <1>3, <2>2 DEF Produce
    <3>2. s \in Pipes /\ s # "ctrl" /\ owner \in 0..MaxConn
      BY <2>2, ConnsNat DEF Streams, Pipes, DataPipes, IInv, Types, EndTypes, Ends
    <3>3. Reply("read", s, owner, "chunk") \in Aside
      BY <3>2, Replying, Distinct DEF Aside, Malformed
    <3>4. Unsaid
      BY <1>1, <1>2, <3>1, <3>3, AddsOne
    <3>5. SameCtrl
      BY <1>3, <2>1, <3>1 DEF Produce, SameCtrl, service
    <3> QED BY <1>3, <3>4, <3>5 DEF Produce, Idle, client, io, host, service
  <2>3. CASE <<s, owner>> \notin pending
    <3>1. UNCHANGED <<pending, wire>>
      BY <1>3, <2>3 DEF Produce
    <3> QED BY <1>3, <3>1, SilentIdle DEF Produce, client, io, host, service
  <2> QED BY <2>2, <2>3
<1>4. CASE Exit
  <2>1. CASE hpc[owner] = "gone"
    <3>1. DataPipes \in SUBSET Pipes /\ Disconnect(owner, DataPipes)
      BY <1>4, <2>1 DEF Exit, Pipes
    <3>2. Unsaid
      BY <1>2, <3>1, DisconnectAside
    <3>3. SameCtrl
      BY <1>4, <3>1 DEF Exit, Disconnect, SameCtrl, DataPipes
    <3> QED BY <1>4, <3>2, <3>3 DEF Exit, Idle, client, io, host
  <2>2. CASE hpc[owner] # "gone"
    <3>1. UNCHANGED <<pending, wire, inst>>
      BY <1>4, <2>2 DEF Exit
    <3> QED BY <1>4, <3>1 DEF Exit, Idle, SameCtrl, Unsaid, client, io, host
  <2> QED BY <2>1, <2>2
<1>5. CASE ServerLoop \/ OtherClient
  BY <1>5, SilentIdle
  DEF ServerLoop, CreateInstance, LoopEnds, OtherClient, smb, service, client, io, command
<1>6. CASE ServeDataOpen
  <2> DEFINE p == Head(opening)
             e == <<p, fd["ctrl"]>>
  <2>1. p \in DataPipes /\ p # "ctrl" /\ p \in Pipes
    <3>1. opening \in Seq(Pipes) /\ opening # <<>> /\ p # "ctrl"
      BY <1>6 DEF ServeDataOpen, IInv, Types, EndTypes
    <3>2. p \in Pipes
      BY <3>1
    <3> QED BY <3>1, <3>2 DEF Pipes
  <2>2. Cur \in 0..MaxConn /\ 0 \in 0..MaxConn
    BY Currents, ConnsNat
  <2>3. \/ /\ wire' = Append(wire, Reply("open", p, fd["ctrl"], "done"))
           /\ ends' = ends \cup {e} /\ met' = met \cup {e}
        \/ /\ wire' = Append(wire, Reply("open", p, 0, "notfound"))
           /\ UNCHANGED <<ends, met>>
    BY <1>6 DEF ServeDataOpen
  <2>4. /\ Reply("open", p, fd["ctrl"], "done") \in Aside
        /\ Reply("open", p, 0, "notfound") \in Aside
    BY <2>1, <2>2, Replying, Distinct DEF Aside, Malformed, Cur
  <2>5. Unsaid
    BY <1>1, <1>2, <2>3, <2>4, AddsOne
  <2> HIDE DEF p
  <2>6. SameCtrl
    BY <1>6, <2>1, <2>3 DEF ServeDataOpen, SameCtrl, service
  <2> QED BY <1>6, <2>5, <2>6 DEF ServeDataOpen, Idle, client, io, host, service, command
<1> QED BY <1>3, <1>4, <1>5, <1>6 DEF Command

\* The client turns from one call to the next: it installs the service, or will.
Turns ==
    /\ UNCHANGED <<rc, fd, nconn, hpc, inbox, reply, proc, owner, ec, starts, abort, ends, met,
                   pending, inst>>
    /\ ioWrite'["ctrl"] \in {0, ioWrite["ctrl"]}
    /\ Unsaid
    /\ \/ /\ \/ flow = "mainInstall" /\ state' = state
             \/ flow = "errorInstall" /\ state' = state
             \/ flow = "reInstall" /\ state' = "OPENING"
          /\ flow' = "loop"
          /\ SvcInstall(TRUE, TRUE)
       \/ /\ UNCHANGED <<state, exe, registered>>
          /\ flow = "loop"
          /\ \/ flow' = "errorInstall" /\ state = "OPENING"
             \/ flow' = "reUninstall" /\ state = "CLOSING_FOR_REINSTALL"

LEMMA ExitLeaves ==
    ASSUME wire \in Seq(Said), NEW w, w = wire \/ (wire # <<>> /\ w = Tail(wire)), ExitProgram(w)
    PROVE  /\ flow' \in {"exitUninstall", "exited"} /\ met' = met
           /\ pending' \subseteq pending
           /\ flow' = "exitUninstall" => UNCHANGED <<ends, pending>>
           /\ flow' # "exitUninstall" => wire' = <<>> /\ ends' = {}
           /\ \A S : S \subseteq CtrlSays => (None(wire, S) => None(wire', S))
<1>1. \A S : None(wire, S) => None(w, S) /\ None(<<>>, S)
  BY ZenonT(30), Takes, Silence
<1> QED BY <1>1 DEF ExitProgram, ClientGone

\* What the client does when it blocks, or fails.
LEMMA ClientKinds ==
    ASSUME IInv, Conversation,
           \/ CtrlOpenFailed \/ CtrlFailed \/ CloseDone \/ MainInstall \/ ErrorInstall
           \/ ReInstall \/ ExitUninstall \/ RequestTimesOut \/ Signal
    PROVE  Idle \/ Leaves \/ Turns
<1>1. wire \in Seq(Said) /\ \A S : None(<<>>, S)
  BY Silence DEF Conversation
<1>2. ASSUME wire # <<>>, flow = "loop", Head(wire) \notin CtrlSays, wire' = Tail(wire)
      PROVE  Unsaid
  BY <1>1, <1>2, AddsNothing, Takes, AsideUnsaid
<1>3. wire' = wire => Unsaid
  BY DEF Unsaid
<1>4. CASE CtrlOpenFailed
  <2>1. /\ flow = "loop" /\ wire # <<>>
        /\ Head(wire).what = "open" /\ Head(wire).pipe = "ctrl"
    BY <1>4 DEF CtrlOpenFailed, Handles
  <2>2. Head(wire) \notin CtrlSays /\ Head(wire) \in CtrlOpens
    BY <1>1, <2>1, Takes, Kinds
  <2>3. ~None(wire, CtrlOpens)
    BY <1>1, <2>1, <2>2, Takes
  <2>4. state = "OPENING"
    BY <2>3 DEF Conversation, Phases, Opened
  <2>5. CASE ExitProgram(Tail(wire)) /\ rc' = "rc1"
    BY <1>1, <1>4, <2>1, <2>5, ExitLeaves
    DEF CtrlOpenFailed, Leaves, Up, io, host, service, command
  <2>6. CASE flow' = "errorInstall" /\ wire' = Tail(wire) /\ UNCHANGED <<rc, ends, met, pending>>
    BY <1>2, <1>4, <2>1, <2>2, <2>4, <2>6 DEF CtrlOpenFailed, Turns, io, host, service, command
  <2> QED BY <1>4, <2>5, <2>6 DEF CtrlOpenFailed
<1>5. CASE CtrlFailed
  <2>1. /\ flow = "loop" /\ wire # <<>>
        /\ Head(wire).what \in {"read", "write"} /\ Head(wire).pipe = "ctrl"
        /\ Head(wire).result = "failed"
    BY <1>5 DEF CtrlFailed, Handles
  <2>2. Head(wire) \notin CtrlSays
    BY <1>1, <2>1, Takes, Kinds, Distinct
  <2>3. ioWrite'["ctrl"] \in {0, ioWrite["ctrl"]}
    BY <1>5 DEF CtrlFailed, IInv, Types, HandleTypes, Pipes
  <2>4. CASE ExitProgram(Tail(wire))
    BY <1>1, <1>5, <2>1, <2>3, <2>4, ExitLeaves
    DEF CtrlFailed, Leaves, Up, client, host, service, command
  <2>5. CASE /\ Head(wire).what = "read" /\ wire' = Tail(wire)
             /\ UNCHANGED <<flow, ends, met, pending, opening>>
    BY <1>2, <1>5, <2>1, <2>2, <2>5 DEF CtrlFailed, Idle, SameCtrl, client, host, service, command
  <2> QED BY <1>5, <2>4, <2>5 DEF CtrlFailed
<1>6. CASE CloseDone
  <2>1. flow = "loop" /\ wire # <<>> /\ Head(wire).what = "close"
    BY <1>6 DEF CloseDone, Handles
  <2>2. CASE Head(wire).pipe # "ctrl"
    BY <1>6, <2>2, DataIdle
  <2>3. CASE Head(wire).pipe = "ctrl"
    <3>1. Head(wire) \notin CtrlSays /\ Head(wire) \in CtrlCloses
      BY <1>1, <2>1, <2>3, Takes, Kinds
    <3>2. ~None(wire, CtrlCloses)
      BY <1>1, <2>1, <3>1, Takes
    <3>3. state = "CLOSING_FOR_REINSTALL"
      BY <3>2 DEF Conversation, Phases, Opening, Talking
    <3>4. ioWrite'["ctrl"] \in {0, ioWrite["ctrl"]}
      BY <1>6, <2>3 DEF CloseDone, IInv, Types, HandleTypes, Pipes
    <3> QED BY <1>2, <1>6, <2>1, <2>3, <3>1, <3>3, <3>4
            DEF CloseDone, Turns, client, host, service, command
  <2> QED BY <2>2, <2>3
<1>7. CASE MainInstall \/ ReInstall
  BY <1>3, <1>7
  DEF MainInstall, ReInstall, Turns, SvcInstall, client, io, service, command
<1>8. CASE ErrorInstall
  <2>1. SvcInstall(TRUE, TRUE)
    BY <1>8 DEF ErrorInstall, SvcInstall
  <2>2. /\ UNCHANGED <<state, abort, fd, io, nconn, service, command>> /\ flow = "errorInstall"
        /\ \/ flow' = "loop" /\ UNCHANGED <<rc, ends, met, pending, wire>>
           \/ rc' = "rc1" /\ ExitProgram(wire)
    BY <1>8 DEF ErrorInstall, SvcInstall
  <2>3. CASE flow' = "loop" /\ UNCHANGED <<rc, ends, met, pending, wire>>
    BY <1>3, <2>1, <2>2, <2>3 DEF Turns, io, service, command
  <2>4. CASE rc' = "rc1" /\ ExitProgram(wire)
    BY <1>1, <2>1, <2>2, <2>4, ExitLeaves DEF Leaves, Up, io, service, command
  <2> QED BY <2>2, <2>3, <2>4
<1>9. CASE ExitUninstall
  BY <1>1, <1>9
  DEF ExitUninstall, Leaves, Up, SvcUninstall, ServiceGone, ClientGone, client, io, host, service,
      command
<1>10. CASE RequestTimesOut
  BY <1>1, <1>10, ExitLeaves
  DEF RequestTimesOut, Leaves, Up, io, host, service, command
<1>11. CASE Signal
  <2>1. CASE sigint = "catch"
    BY <1>11, <2>1, SilentIdle DEF Signal, io, host, service, command
  <2>2. CASE sigint # "catch"
    BY <1>1, <1>11, <2>2 DEF Signal, Leaves, ClientGone, io, host, service, command
  <2> QED BY <2>1, <2>2
<1> QED
  BY <1>4, <1>5, <1>6, <1>7, <1>8, <1>9, <1>10, <1>11

\* What happens in any other step.
Answering ==
    \/ CtrlOpened \/ ReadStdIoErr \/ ReadReturnCode \/ ReadOtherError
    \/ ReadGoodVersion \/ ReadBadVersion

LEMMA StepKinds ==
    ASSUME IInv, Conversation, [Next]_vars
    PROVE  \/ Idle \/ Leaves \/ Stopped \/ Turns
           \/ Answering \/ Timer \/ ServeCtrlOpen
           \/ \E k \in Conns : HandleConnection(k)
<1>1. CASE UNCHANGED vars
  BY <1>1, SilentIdle DEF vars, client, io, smb, host, service, command
<1>2. CASE Callback
  BY <1>2, DataIdle, ClientKinds DEF Callback, Answering
<1>3. CASE Blocked
  BY <1>3, ClientKinds, ServiceStops DEF Blocked
<1>4. CASE Command \/ ServerLoop \/ OtherClient \/ ServeDataOpen
  BY <1>4, HostIdle
<1>5. CASE Signal \/ RequestTimesOut \/ ServiceDies
  BY <1>5, ClientKinds, ServiceStops
<1> QED
  BY <1>1, <1>2, <1>3, <1>4, <1>5 DEF Next, Client, SmbServer, Environment

-----------------------------------------------------------------------------
(* The question for the version, and its answer.                           *)

GoodBad == Of("read", "ctrl", {"good", "bad"})
BadErr == Of("read", "ctrl", {"bad", "error"})
VersionAnswers == Of("read", "ctrl", {"good", "bad", "error"})
RunAnswers == Of("read", "ctrl", {"std_io_err"} \cup Codes)

\* A handler that was told nothing, and has no memory if it said something.
Quiet == {"gets", "nomem", "flushLost", "lost", "gone"}
Lost(k) ==
    /\ reply[k] \in {"none", "error:"}
    /\ reply[k] = "error:" => hpc[k] \in {"flushLost", "lost", "gone"}

Question == {"get version"}
Asked(k) == inbox[k] # <<>> /\ Head(inbox[k]) = "get version"
Asking == state = "GETTING_VERSION" /\ flow = "loop"

\* Connections have a handler each, and the pipe that is opened is the next.
Instances ==
    /\ \A k \in Conns : hpc[k] \notin {"none", "gone"} => <<"ctrl", k>> \in inst
    /\ \A k \in Conns : hpc[k] = "none" <=> k > nconn
    /\ Up => nconn <= Cur + 1
Fresh ==
    \A k \in Conns : k > Cur =>
        /\ inbox[k] = <<>>
        /\ Up => hpc[k] \in Quiet \cup {"none"} /\ Lost(k)

\* The question waits in the current pipe, before anything else, or nowhere.
AskedOnce ==
    \A k \in Conns :
        \/ None(inbox[k], Question)
        \/ /\ inbox[k] # <<>> /\ None(Tail(inbox[k]), Question)
           /\ k = Cur /\ state = "GETTING_VERSION" /\ None(wire, VersionAnswers)
           /\ hpc[k] \in Quiet
           /\ hpc[k] = "gets" /\ Up => <<"ctrl", k>> \in pending

\* Before the answer the handler of the pipe is at the question, unless the
\* question went to a pipe that is closed.
Unanswered ==
    Asking /\ None(wire, VersionAnswers) =>
        /\ hpc[Cur] \in Quiet /\ Lost(Cur)
        /\ hpc[Cur] = "gets" =>
              /\ <<"ctrl", Cur>> \in pending
              /\ Asked(Cur) \/ (inbox[Cur] = <<>> /\ ioWrite["ctrl"] \notin {0, Cur})

\* What the answer can be.
VersionSaid ==
    /\ \A k \in Conns : reply[k] \notin {"good", "bad"}
    /\ state # "GETTING_VERSION" => None(wire, GoodBad)
    /\ Asking => None(wire, RunAnswers)
    /\ Asking /\ ~None(wire, BadErr) => exe # "good"
    /\ state = "CLOSING_FOR_REINSTALL" => exe # "good"

Version == Instances /\ Fresh /\ AskedOnce /\ Unanswered /\ VersionSaid

LEMMA VersionKinds ==
    /\ VersionAnswers \subseteq CtrlSays /\ GoodBad \subseteq VersionAnswers
    /\ BadErr \subseteq VersionAnswers /\ RunAnswers \subseteq CtrlSays
    /\ GoodBad \subseteq CtrlSays /\ BadErr \subseteq CtrlSays
BY DEF VersionAnswers, CtrlSays, GoodBad, BadErr, RunAnswers, Of, Messages

LEMMA InitVersion == Init => Version
<1> SUFFICES ASSUME Init PROVE Version
  OBVIOUS
<1>1. \A S : None(<<>>, S)
  BY Silence
<1>2. Instances
  BY Currents, InitInv, ConnsNat DEF Init, Instances, Conns, Cur, Pipes
<1>3. Fresh /\ AskedOnce
  BY <1>1 DEF Init, Fresh, Lost, AskedOnce
<1>4. Unanswered /\ VersionSaid
  BY <1>1 DEF Init, Unanswered, VersionSaid, Asking
<1> QED BY <1>2, <1>3, <1>4 DEF Version

LEMMA IdleVersion ==
    ASSUME IInv, Conversation, Version, Idle
    PROVE  Version'
<1>1. /\ Cur' = Cur /\ (Up' <=> Up) /\ (Asking' <=> Asking)
      /\ \A k \in Conns : (Lost(k)' <=> Lost(k)) /\ (Asked(k)' <=> Asked(k))
  BY DEF Idle, Cur, Up, Asking, Lost, Asked
<1>2. /\ None(wire', VersionAnswers) <=> None(wire, VersionAnswers)
      /\ None(wire', GoodBad) <=> None(wire, GoodBad)
      /\ None(wire', BadErr) <=> None(wire, BadErr)
      /\ None(wire', RunAnswers) <=> None(wire, RunAnswers)
  BY VersionKinds DEF Idle, Unsaid
<1>3. Instances' /\ Fresh'
  BY <1>1 DEF Version, Instances, Fresh, Idle, SameCtrl
<1>4. AskedOnce'
  BY <1>1, <1>2 DEF Version, AskedOnce, Idle, SameCtrl
<1>5. Unanswered'
  <2>1. Asking => Cur \in Conns
    BY CurrentConn DEF Asking
  <2> QED BY <1>1, <1>2, <2>1 DEF Version, Unanswered, Idle, SameCtrl
<1>6. VersionSaid'
  BY <1>1, <1>2 DEF Version, VersionSaid, Idle
<1> QED BY <1>3, <1>4, <1>5, <1>6 DEF Version

\* The service stays, or its handlers are gone.
ServiceStays ==
    \/ UNCHANGED <<hpc, inst>>
    \/ /\ hpc' = [k \in Conns |-> IF hpc[k] = "none" THEN "none" ELSE "gone"]
       /\ inst' \subseteq inst

LEMMA Uninstalls ==
    ASSUME IInv, SvcUninstall
    PROVE  /\ ServiceStays
           /\ \/ UNCHANGED <<exe, registered>> /\ ~registered
              \/ registered /\ registered' = FALSE /\ exe' \in Unlinked
           /\ exe' \in {exe, "none"}
BY DEF SvcUninstall, ServiceGone, ServiceStays, host, service, Unlinked, IInv, Types, ServiceTypes

LEMMA StaysInstances ==
    ASSUME IInv, Conversation, Version, ServiceStays, UNCHANGED <<nconn, inbox, reply>>,
           Cur' = Cur, Up' => Up
    PROVE  Instances' /\ Fresh'
<1>1. Instances'
  BY DEF Version, Instances, ServiceStays
<1>2. Fresh'
  BY DEF Version, Fresh, Lost, Quiet, ServiceStays
<1> QED BY <1>1, <1>2

LEMMA LeavesVersion ==
    ASSUME IInv, Conversation, Version, Leaves
    PROVE  Version'
<1>1. Cur' = Cur /\ ~Asking' /\ (Up' => Up /\ flow' = "exitUninstall")
  BY DEF Leaves, Cur, Up, Asking
<1>2. \A S : S \subseteq CtrlSays => (None(wire, S) => None(wire', S))
  BY DEF Leaves
<1>3. ServiceStays /\ (state = "CLOSING_FOR_REINSTALL" => exe' \in {exe, "none"})
  <2>1. flow = "errorInstall" => state # "CLOSING_FOR_REINSTALL"
    BY DEF Conversation, Phases, Opened, InMain
  <2> QED BY <2>1, Uninstalls DEF Leaves, ServiceStays
<1>4. Instances' /\ Fresh'
  BY <1>1, <1>3, StaysInstances DEF Leaves
<1>5. AskedOnce'
  <2>1. None(wire, VersionAnswers) => None(wire', VersionAnswers)
    BY <1>2, VersionKinds
  <2>2. \A k \in Conns : hpc[k] \in Quiet => hpc'[k] \in Quiet
    BY <1>3 DEF ServiceStays, Quiet
  <2>3. \A k \in Conns : hpc'[k] = "gets" => hpc[k] = "gets"
    BY <1>3 DEF ServiceStays
  <2> QED BY <1>1, <2>1, <2>2, <2>3 DEF Version, AskedOnce, Leaves
<1>6. Unanswered'
  BY <1>1 DEF Unanswered
<1>7. VersionSaid'
  <2>1. None(wire, GoodBad) => None(wire', GoodBad)
    BY <1>2, VersionKinds
  <2> QED BY <1>1, <1>3, <2>1 DEF Version, VersionSaid, Leaves
<1> QED BY <1>4, <1>5, <1>6, <1>7 DEF Version

LEMMA StoppedVersion ==
    ASSUME IInv, Conversation, Version, Stopped
    PROVE  Version'
<1>1. Cur' = Cur /\ (Up' <=> Up) /\ (Asking' => Asking) /\ state' = state
  BY DEF Stopped, Cur, Up, Asking
<1>2. /\ None(wire', VersionAnswers) <=> None(wire, VersionAnswers)
      /\ None(wire', GoodBad) <=> None(wire, GoodBad)
      /\ None(wire', BadErr) <=> None(wire, BadErr)
      /\ None(wire', RunAnswers) <=> None(wire, RunAnswers)
  BY VersionKinds DEF Stopped, Unsaid
<1>3. ServiceStays /\ exe' \in {exe, "none"}
  BY DEF Stopped, ServiceStays, Unlinked
<1>4. Instances' /\ Fresh'
  BY <1>1, <1>3, StaysInstances DEF Stopped
<1>5. \A k \in Conns : /\ hpc[k] \in Quiet => hpc'[k] \in Quiet
                       /\ hpc'[k] = "gets" => hpc[k] = "gets" /\ pending' = pending
                       /\ Lost(k) => Lost(k)'
  BY DEF Stopped, Quiet, Lost
<1>6. AskedOnce'
  BY <1>1, <1>2, <1>5 DEF Version, AskedOnce, Stopped
<1>7. Unanswered'
  <2>1. Asking => Cur \in Conns
    BY CurrentConn DEF Asking
  <2> QED BY <1>1, <1>2, <1>5, <2>1 DEF Version, Unanswered, Asked, Stopped
<1>8. VersionSaid'
  BY <1>1, <1>2, <1>3 DEF Version, VersionSaid, Stopped
<1> QED BY <1>4, <1>6, <1>7, <1>8 DEF Version

LEMMA TurnsVersion ==
    ASSUME IInv, Conversation, Version, Turns
    PROVE  Version'
<1>1. Cur' = Cur /\ Up /\ Up' /\ ~Asking'
      /\ (state' = "GETTING_VERSION" => state = "GETTING_VERSION")
  BY DEF Turns, Cur, Up, Asking, Conversation, Phases, Opened, InMain
<1>2. /\ None(wire', VersionAnswers) <=> None(wire, VersionAnswers)
      /\ None(wire', GoodBad) <=> None(wire, GoodBad)
  BY VersionKinds DEF Turns, Unsaid
<1>3. state # "GETTING_VERSION"
  BY DEF Turns, Conversation, Phases, Opened, InMain, Talking, Reinstalling
<1>4. Instances' /\ Fresh'
  <2>1. ServiceStays
    BY DEF Turns, ServiceStays
  <2> QED BY <1>1, <2>1, StaysInstances DEF Turns
<1>5. AskedOnce'
  BY <1>3 DEF Version, AskedOnce, Turns
<1>6. Unanswered'
  BY <1>1 DEF Unanswered
<1>7. VersionSaid'
  <2>1. state' = "CLOSING_FOR_REINSTALL" => state = "CLOSING_FOR_REINSTALL" /\ exe' = exe
    BY DEF Turns, Conversation, Phases, Opened, InMain
  <2> QED BY <1>1, <1>2, <1>3, <2>1 DEF Version, VersionSaid, Turns
<1> QED BY <1>4, <1>5, <1>6, <1>7 DEF Version

LEMMA JoinHead ==
    ASSUME NEW X, NEW w \in Seq(X), w # <<>>, NEW v \in Seq(X)
    PROVE  w \o v # <<>> /\ Head(w \o v) = Head(w) /\ Tail(w \o v) = Tail(w) \o v
<1>1. Len(w) >= 1 /\ Len(w) \in Nat /\ Len(v) \in Nat /\ Len(w \o v) = Len(w) + Len(v)
  OBVIOUS
<1>2. w \o v # <<>> /\ Head(w \o v) = Head(w)
  BY <1>1
<1>3. Tail(w \o v) \in Seq(X) /\ Tail(w) \o v \in Seq(X)
  BY <1>2, Dropping, Joining
<1>4. /\ Len(Tail(w \o v)) = Len(w) + Len(v) - 1
      /\ Len(Tail(w) \o v) = Len(w) + Len(v) - 1
      /\ Len(Tail(w)) = Len(w) - 1
  BY <1>1, <1>2
<1>5. ASSUME NEW i \in 1..(Len(w) + Len(v) - 1)
      PROVE  Tail(w \o v)[i] = (Tail(w) \o v)[i]
  <2>1. Tail(w \o v)[i] = (w \o v)[i + 1]
    BY <1>1, <1>2, <1>4
  <2>2. CASE i <= Len(w) - 1
    BY <1>1, <1>4, <2>1, <2>2
  <2>3. CASE i > Len(w) - 1
    <3>1. (w \o v)[i + 1] = v[i + 1 - Len(w)]
      BY <1>1, <2>3
    <3>2. (Tail(w) \o v)[i] = v[i - (Len(w) - 1)]
      BY <1>1, <1>4, <2>3
    <3>3. i + 1 - Len(w) = i - (Len(w) - 1)
      BY <1>1
    <3> QED BY <2>1, <3>1, <3>2, <3>3
  <2> QED BY <1>1, <2>2, <2>3
<1> QED BY <1>2, <1>3, <1>4, <1>5

\* Lines written to a pipe come after what is there.
Behind(w2, w, S) ==
    /\ None(w, S) => None(w2, S)
    /\ w # <<>> =>
          w2 # <<>> /\ Head(w2) = Head(w) /\ (None(Tail(w), S) => None(Tail(w2), S))

LEMMA WritesBehind ==
    ASSUME IInv, NEW h \in 0..MaxConn, NEW lines \in Seq(Lines), Written(h, lines)
    PROVE  /\ \A k \in Conns : \A S : None(lines, S) => Behind(inbox'[k], inbox[k], S)
           /\ \A k \in Conns : k # h => inbox'[k] = inbox[k]
<1>1. inbox \in [Conns -> Seq(Lines)]
  BY DEF IInv, Types, Speak
<1>2. ASSUME NEW k \in Conns PROVE inbox'[k] = inbox[k] \/ (k = h /\ inbox'[k] = inbox[k] \o lines)
  BY <1>1 DEF Written
<1>3. ASSUME NEW k \in Conns, NEW S, None(lines, S) PROVE Behind(inbox'[k], inbox[k], S)
  <2>1. inbox[k] \in Seq(Lines)
    BY <1>1
  <2>2. CASE inbox'[k] = inbox[k]
    BY <2>2 DEF Behind
  <2>3. CASE inbox'[k] = inbox[k] \o lines
    <3>1. None(inbox[k], S) => None(inbox'[k], S)
      BY <1>3, <2>1, <2>3, NoneJoin
    <3>2. ASSUME inbox[k] # <<>>
          PROVE  /\ inbox'[k] # <<>> /\ Head(inbox'[k]) = Head(inbox[k])
                 /\ None(Tail(inbox[k]), S) => None(Tail(inbox'[k]), S)
      <4>1. Tail(inbox[k]) \in Seq(Lines)
        BY <2>1, <3>2, Dropping
      <4>2. None(Tail(inbox[k]), S) => None(Tail(inbox[k]) \o lines, S)
        BY <1>3, <4>1, NoneJoin
      <4> QED BY ZenonT(30), <2>1, <2>3, <3>2, <4>2, JoinHead
    <3> QED BY <3>1, <3>2 DEF Behind
  <2> QED BY <1>2, <2>2, <2>3
<1> QED BY <1>2, <1>3

LEMMA OneLine ==
    ASSUME NEW l
    PROVE  \A S : None(<<l>>, S) <=> l \notin S
BY DEF None

LEMMA TwoLines ==
    ASSUME NEW l, NEW m
    PROVE  \A S : None(<<l, m>>, S) <=> l \notin S /\ m \notin S
<1>1. /\ DOMAIN <<l, m>> = {1, 2}
      /\ <<l, m>>[1] = l /\ <<l, m>>[2] = m
  OBVIOUS
<1> QED BY <1>1 DEF None

LEMMA TimerVersion ==
    ASSUME IInv, Conversation, Version, Timer
    PROVE  Version'
<1> DEFINE h == Cached(ioWrite, "ctrl", Cur)
<1>1. /\ UNCHANGED <<flow, state, fd, nconn, pending, inst, hpc, reply, exe>>
      /\ ioWrite' = [ioWrite EXCEPT !["ctrl"] = h]
      /\ Written(h, <<"abort">>) /\ wire' = WriteFails(h, wire)
  BY DEF Timer, Cur, host
<1>2. /\ Cur' = Cur /\ (Up' <=> Up) /\ (Asking' <=> Asking)
      /\ \A k \in Conns : (Lost(k)' <=> Lost(k))
  BY <1>1 DEF Cur, Up, Asking, Lost
<1>3. /\ h \in 0..MaxConn /\ h <= Cur
      /\ ioWrite["ctrl"] \notin {0, Cur} => h = ioWrite["ctrl"] /\ h # Cur
      /\ ioWrite'["ctrl"] = h
  BY <1>1, Currents DEF Cached, IInv, Types, HandleTypes, Pipes, Conversation, Numbered
<1> HIDE DEF h
<1>4. ASSUME NEW S, S \subseteq CtrlSays PROVE None(wire', S) <=> None(wire, S)
  <2>1. Agree(WriteFails(h, wire), wire, Refusals)
    BY <1>3, WriteFailsAdds DEF Conversation
  <2>2. Apart(S, Refusals)
    BY <1>4, RefusalsApart DEF Apart
  <2> QED BY <1>1, <2>1, <2>2 DEF Agree
<1>5. /\ None(wire', VersionAnswers) <=> None(wire, VersionAnswers)
      /\ None(wire', GoodBad) <=> None(wire, GoodBad)
      /\ None(wire', BadErr) <=> None(wire, BadErr)
      /\ None(wire', RunAnswers) <=> None(wire, RunAnswers)
  BY <1>4, VersionKinds
<1>6. <<"abort">> \in Seq(Lines) /\ None(<<"abort">>, Question)
  <2>1. "abort" \in Lines
    BY DEF Lines
  <2> QED BY <2>1, Listing, OneLine DEF Question
<1>7. /\ \A k \in Conns : Behind(inbox'[k], inbox[k], Question)
      /\ \A k \in Conns : k # h => inbox'[k] = inbox[k]
  BY <1>1, <1>3, <1>6, WritesBehind
<1>8. Instances'
  BY <1>1, <1>2 DEF Version, Instances
<1>9. Fresh'
  <2>1. \A k \in Conns : k > Cur => k # h
    BY <1>3, Currents, ConnsNat DEF Conns
  <2> QED BY <1>1, <1>2, <1>7, <2>1 DEF Version, Fresh
<1>10. AskedOnce'
  BY <1>1, <1>2, <1>5, <1>7 DEF Version, AskedOnce, Behind
<1>11. Unanswered'
  <2>1. Asking => Cur \in Conns
    BY CurrentConn DEF Asking
  <2>2. ASSUME Cur \in Conns, Asked(Cur) PROVE Asked(Cur)'
    BY <1>2, <1>7, <2>2 DEF Asked, Behind
  <2> QED BY <1>1, <1>2, <1>3, <1>5, <1>7, <2>1, <2>2 DEF Version, Unanswered
<1>12. VersionSaid'
  BY <1>1, <1>2, <1>5 DEF Version, VersionSaid
<1> QED BY <1>8, <1>9, <1>10, <1>11, <1>12 DEF Version

LEMMA OpenVersion ==
    ASSUME IInv, Conversation, Version, ServeCtrlOpen
    PROVE  Version'
<1>1. /\ UNCHANGED <<flow, state, fd, ioWrite, pending, inbox, reply, exe>>
      /\ opening # <<>> /\ Head(opening) = "ctrl"
  BY DEF ServeCtrlOpen, client, io
<1>2. Up /\ state = "OPENING" /\ Opening
  <2>1. Up
    BY <1>1 DEF Conversation, Phases
  <2>2. opening \notin Seq(DataPipes)
    BY <1>1 DEF DataPipes
  <2> QED BY <2>1, <2>2 DEF Conversation, Phases, Opened
<1>3. Cur = nconn /\ nconn \in 0..MaxConn
  BY <1>1, <1>2, NoOpens DEF Opening, Conversation, Numbered
<1>4. /\ Cur' = Cur /\ (Up' <=> Up) /\ ~Asking'
      /\ wire \in Seq(Said)
  BY <1>1, <1>2 DEF Cur, Up, Asking, Conversation
<1>5. ASSUME NEW k \in 0..MaxConn, NEW result \in {"done", "notfound", "busy"},
             wire' = Append(wire, Reply("open", "ctrl", k, result))
      PROVE  None(wire, GoodBad) => None(wire', GoodBad)
  <2>1. /\ Reply("open", "ctrl", k, result) \in Said
        /\ Reply("open", "ctrl", k, result).what = "open"
    BY <1>5, Replying, Distinct DEF Pipes
  <2>2. Reply("open", "ctrl", k, result) \notin GoodBad
    BY <2>1 DEF GoodBad, Of
  <2> QED BY <1>4, <1>5, <2>1, <2>2, Puts
<1>6. AskedOnce' /\ Unanswered'
  BY <1>1, <1>2, <1>4 DEF Version, AskedOnce, Unanswered
<1>7. (None(wire, GoodBad) => None(wire', GoodBad)) => VersionSaid'
  BY <1>1, <1>2, <1>4 DEF Version, VersionSaid
<1>8. CASE loop = "listen"
  <2> DEFINE k == nconn + 1
  <2>1. /\ k \in Conns /\ nconn' = k
        /\ wire' = Append(wire, Reply("open", "ctrl", k, "done"))
        /\ \/ /\ inst' = inst \cup {<<"ctrl", k>>}
              /\ \E at \in {"gets", "nomem"} : hpc' = [hpc EXCEPT ![k] = at]
           \/ /\ hpc' = [hpc EXCEPT ![k] = "gone"]
              /\ UNCHANGED inst
    BY <1>8 DEF ServeCtrlOpen
  <2>2. k \in 0..MaxConn /\ k > Cur /\ k > nconn /\ \A j \in Conns : j > k => j > nconn
    BY <1>3, <2>1, ConnsNat DEF Conns
  <2>3. \A j \in Conns : j > nconn /\ j # k => j > k
    BY <1>3, ConnsNat DEF Conns
  <2>4. k <= Cur + 1
    BY <1>3
  <2>5. hpc[k] = "none" /\ reply[k] = "none"
    BY <1>2, <2>1, <2>2 DEF Version, Instances, Fresh, Lost
  <2>6. VersionSaid'
    BY <1>5, <1>7, <2>1, <2>2
  <2> HIDE DEF k
  <2>7. hpc \in [Conns -> Handlers]
    BY DEF IInv, Types, ServiceTypes
  <2>8. PICK at \in {"gets", "nomem", "gone"} :
          /\ hpc' = [hpc EXCEPT ![k] = at] /\ inst \subseteq inst'
          /\ at # "gone" => <<"ctrl", k>> \in inst'
    BY <2>1
  <2>9. Instances'
    BY <1>4, <2>1, <2>2, <2>3, <2>4, <2>7, <2>8 DEF Version, Instances
  <2>10. Fresh'
    BY <1>1, <1>4, <2>1, <2>5, <2>7, <2>8 DEF Version, Fresh, Lost, Quiet
  <2> QED BY <1>6, <2>6, <2>9, <2>10 DEF Version
<1>9. CASE loop # "listen"
  <2>1. /\ UNCHANGED <<nconn, inst, hpc>>
        /\ \E why \in {"notfound", "busy"} : wire' = Append(wire, Reply("open", "ctrl", 0, why))
    BY <1>9 DEF ServeCtrlOpen
  <2>2. VersionSaid'
    BY <1>5, <1>7, <2>1, ConnsNat
  <2>3. Instances' /\ Fresh'
    BY <1>1, <1>4, <2>1 DEF Version, Instances, Fresh, Lost
  <2> QED BY <1>6, <2>2, <2>3 DEF Version
<1> QED BY <1>8, <1>9

\* What a read of the control pipe takes, and what a handler says.
LEMMA ReadTakes ==
    ASSUME IInv, NEW h \in 0..MaxConn, NEW w \in Seq(Said), CtrlReads(h, w),
           NEW R, R \subseteq Messages
    PROVE  /\ None(wire', Of("read", "ctrl", R)) <=>
                 /\ None(w, Of("read", "ctrl", R))
                 /\ h \in Conns /\ <<"ctrl", h>> \in ends => reply[h] \notin R
           /\ \A k \in Conns : k # h => reply'[k] = reply[k]
           /\ \A k \in Conns : reply'[k] \in {reply[k], "none"}
<1>1. "none" \notin R /\ "failed" \notin R
  BY WinexeAssumption DEF Messages, Codes
<1>2. reply \in [Conns -> Messages \cup {"none"}] /\ "ctrl" \in Pipes /\ R \subseteq Results
  BY DEF IInv, Types, Speak, Pipes, Results
<1>3. CASE /\ h \in Conns /\ <<"ctrl", h>> \in ends /\ reply[h] # "none"
           /\ wire' = Append(w, Reply("read", "ctrl", h, reply[h]))
           /\ reply' = [reply EXCEPT ![h] = "none"]
           /\ UNCHANGED pending
  <2>1. reply[h] \in Results
    BY <1>2, <1>3, Distinct
  <2>2. /\ Reply("read", "ctrl", h, reply[h]) \in Said
        /\ Reply("read", "ctrl", h, reply[h]) \in Of("read", "ctrl", R) <=> reply[h] \in R
    BY <1>2, <2>1, Replying, Kinds
  <2> QED BY <1>2, <1>3, <2>2, Puts
<1>4. CASE /\ h \in Conns /\ <<"ctrl", h>> \in ends \cap inst /\ reply[h] = "none"
           /\ wire' = w /\ UNCHANGED reply
  BY <1>1, <1>4
<1>5. CASE /\ \/ <<"ctrl", h>> \notin ends
              \/ <<"ctrl", h>> \notin inst /\ (h \in Conns => reply[h] = "none")
           /\ wire' = Append(w, Reply("read", "ctrl", h, "failed"))
           /\ UNCHANGED <<pending, reply>>
  <2>1. /\ Reply("read", "ctrl", h, "failed") \in Said
        /\ Reply("read", "ctrl", h, "failed") \notin Of("read", "ctrl", R)
    BY SMTT(30), <1>1, <1>2, Replying, Kinds, Distinct
  <2> QED BY <1>1, <1>5, <2>1, Puts
<1> QED BY <1>3, <1>4, <1>5 DEF CtrlReads

LEMMA SaysTells ==
    ASSUME IInv, Conversation, NEW k \in Conns, NEW message \in Messages, Hprintf(k, message)
    PROVE  /\ \A R : R \subseteq Messages =>
                 (None(wire', Of("read", "ctrl", R)) <=>
                     /\ None(wire, Of("read", "ctrl", R))
                     /\ <<"ctrl", k>> \in pending => message \notin R)
           /\ \A j \in Conns : j # k => reply'[j] = reply[j]
           /\ reply'[k] \in {reply[k], message}
           /\ reply'[k] # reply[k] => <<"ctrl", k>> \in ends \ pending
           /\ \A j \in Conns : j # k => (<<"ctrl", j>> \in pending' <=> <<"ctrl", j>> \in pending)
<1>1. reply \in [Conns -> Messages \cup {"none"}] /\ wire \in Seq(Said)
  BY DEF IInv, Types, Speak, Conversation
<1>2. CASE <<"ctrl", k>> \in pending
  <2>1. /\ wire' = Append(wire, Reply("read", "ctrl", k, message))
        /\ pending' = pending \ {<<"ctrl", k>>} /\ reply' = reply
    BY <1>2 DEF Hprintf
  <2>2. ASSUME NEW R, R \subseteq Messages
        PROVE  None(wire', Of("read", "ctrl", R)) <=>
                  None(wire, Of("read", "ctrl", R)) /\ message \notin R
    <3>1. k \in 0..MaxConn /\ message \in Results /\ "ctrl" \in Pipes
      BY ConnsNat, Distinct DEF Pipes
    <3>2. /\ Reply("read", "ctrl", k, message) \in Said
          /\ Reply("read", "ctrl", k, message) \in Of("read", "ctrl", R) <=> message \in R
      BY <3>1, Replying, Kinds
    <3> QED BY <1>1, <2>1, <3>2, Puts
  <2> QED BY <1>2, <2>1, <2>2
<1>3. CASE <<"ctrl", k>> \notin pending
  BY <1>1, <1>3 DEF Hprintf
<1> QED BY <1>2, <1>3

\* The current control pipe is opened, and the question asked.
LEMMA OpenedReads ==
    ASSUME IInv, Conversation, CtrlOpened
    PROVE  /\ UNCHANGED <<flow, rc, abort, ends, met, nconn, exe, registered, inst, hpc, proc,
                          owner, ec, starts>>
           /\ flow = "loop" /\ state = "OPENING" /\ state' = "GETTING_VERSION"
           /\ nconn \in Conns /\ nconn > Cur /\ Cur' = nconn /\ <<"ctrl", nconn>> \in ends
           /\ \A k \in Conns : <<"ctrl", k>> \notin pending
           /\ \E w \in Seq(Said) : CtrlReads(nconn, w) /\ None(w, CtrlSays)
           /\ \/ /\ ioWrite["ctrl"] = 0 /\ Written(nconn, <<"get version">>)
              \/ /\ ioWrite'["ctrl"] = ioWrite["ctrl"] /\ ioWrite["ctrl"] # 0
                 /\ ioWrite["ctrl"] # nconn /\ inbox' = inbox
<1> DEFINE h == Cached(ioWrite, "ctrl", nconn)
<1>1. /\ state = "OPENING" /\ Head(wire).conn = nconn /\ nconn \in Conns /\ nconn > Cur
      /\ <<"ctrl", nconn>> \in ends /\ None(Tail(wire), CtrlSays)
      /\ \A k \in Conns : <<"ctrl", k>> \notin pending
      /\ ioRead["ctrl"] = 0
  BY OpenedHead
<1>2. flow = "loop" /\ wire # <<>>
  BY DEF CtrlOpened, Handles
<1>3. Tail(wire) \in Seq(Said) /\ nconn \in 0..MaxConn /\ nconn # 0
  BY <1>1, <1>2, Hears, ConnsNat
<1>4. /\ UNCHANGED <<flow, rc, abort, ends, met, nconn, exe, registered, inst, hpc, proc, owner,
                     ec, starts>>
      /\ state' = "GETTING_VERSION" /\ fd' = [fd EXCEPT !["ctrl"] = nconn]
      /\ ioWrite' = [ioWrite EXCEPT !["ctrl"] = h]
      /\ Written(h, <<"get version">>)
      /\ AsyncRead("ctrl", nconn, WriteFails(h, Tail(wire)))
  BY <1>1 DEF CtrlOpened, WriteThenRead, host, command
<1>5. /\ h \in 0..MaxConn /\ Cur' = nconn /\ ioWrite'["ctrl"] = h
      /\ ioWrite["ctrl"] = 0 => h = nconn
      /\ ioWrite["ctrl"] # 0 => h = ioWrite["ctrl"] /\ h <= Cur
  BY <1>3, <1>4 DEF Cached, IInv, Types, HandleTypes, Pipes, Cur, Conversation, Numbered
<1> HIDE DEF h
<1>6. WriteFails(h, Tail(wire)) \in Seq(Said) /\ None(WriteFails(h, Tail(wire)), CtrlSays)
  <2>1. /\ WriteFails(h, Tail(wire)) \in Seq(Said)
        /\ Agree(WriteFails(h, Tail(wire)), Tail(wire), Refusals)
    BY <1>3, <1>5, WriteFailsAdds
  <2> QED BY <1>1, <2>1, RefusalsApart DEF Agree
<1>7. CtrlReads(nconn, WriteFails(h, Tail(wire)))
  <2>1. Cached(ioRead, "ctrl", nconn) = nconn
    BY <1>1 DEF Cached
  <2>2. SendRead(<<"ctrl", nconn>>, WriteFails(h, Tail(wire)))
    BY <1>4, <2>1 DEF AsyncRead
  <2> QED BY <1>3, <1>6, <2>2, CtrlReadKinds
<1>8. ioWrite["ctrl"] # 0 => h # nconn /\ inbox' = inbox
  <2>1. nconn > Cur /\ Cur \in 0..MaxConn /\ MaxConn \in Nat
    BY <1>1, Currents, ConnsNat
  <2>2. ASSUME ioWrite["ctrl"] # 0 PROVE h # nconn
    BY <1>3, <1>5, <2>1, <2>2
  <2>3. h # nconn => <<"ctrl", h>> \notin ends
    <3>1. \A k \in Conns : <<"ctrl", k>> \in ends => k = nconn
      BY DEF Conversation, Controlled
    <3>2. <<"ctrl", h>> \in ends => h \in Conns
      BY DEF IInv, Types, EndTypes, Ends
    <3> QED BY <3>1, <3>2
  <2> QED BY <1>4, <2>2, <2>3 DEF Written, Open
<1> QED BY <1>1, <1>2, <1>4, <1>5, <1>6, <1>7, <1>8

\* An answer is handled, and the control pipe read again.
LEMMA AnswerReads ==
    ASSUME IInv, Conversation,
           ReadStdIoErr \/ ReadReturnCode \/ ReadOtherError \/ ReadGoodVersion
    PROVE  /\ UNCHANGED <<flow, abort, fd, ends, met, nconn, exe, registered, inst, hpc, proc,
                          owner, ec, starts>>
           /\ flow = "loop" /\ wire # <<>> /\ Talking /\ Cur \in Conns
           /\ Head(wire).result \in Messages /\ Head(wire) \in CtrlSays
           /\ \A R : Head(wire) \in Of("read", "ctrl", R) <=> Head(wire).result \in R
           /\ \A k \in Conns : <<"ctrl", k>> \notin pending
           /\ <<"ctrl", Cur>> \in ends
           /\ \E w \in Seq(Said) : CtrlReads(Cur, w) /\ None(w, CtrlSays)
           /\ ~ReadGoodVersion => UNCHANGED <<state, ioWrite, inbox>>
           /\ ReadGoodVersion =>
                 /\ state' = "RUNNING"
                 /\ \E h \in 0..MaxConn : h <= Cur /\ Written(h, <<"set system", "run">>)
<1>1. /\ flow = "loop" /\ wire # <<>> /\ Head(wire).what = "read"
      /\ Head(wire).result \in Messages
  BY DEF ReadStdIoErr, ReadReturnCode, ReadOtherError, ReadGoodVersion, Handles, Messages, Codes
<1>2. /\ Talking /\ Cur \in Conns /\ ioRead["ctrl"] = Cur
      /\ \A k \in Conns : <<"ctrl", k>> \notin pending
      /\ None(Tail(wire), CtrlSays)
      /\ Head(wire) \in CtrlSays /\ Head(wire).pipe = "ctrl"
  BY <1>1, Answered
<1>3. Head(wire) \in Said /\ Tail(wire) \in Seq(Said)
  BY <1>1, Hears
<1>4. \A R : Head(wire) \in Of("read", "ctrl", R) <=> Head(wire).result \in R
  BY <1>1, <1>2, <1>3, Kinds
<1>5. <<"ctrl", Cur>> \in ends /\ Cur # 0 /\ Cur \in 0..MaxConn
  BY <1>1, <1>2, ConnsNat DEF Conversation, Controlled, Up
<1>6. ASSUME NEW w \in Seq(Said), AsyncRead("ctrl", Cur, w) PROVE CtrlReads(Cur, w)
  <2>1. SendRead(<<"ctrl", Cur>>, w)
    BY <1>2, <1>5, <1>6 DEF AsyncRead, Cached
  <2> QED BY <1>5, <2>1, CtrlReadKinds
<1>7. CASE ReadStdIoErr \/ ReadReturnCode \/ ReadOtherError
  <2>1. /\ UNCHANGED <<flow, abort, fd, ends, met, nconn, exe, registered, inst, hpc, proc, owner,
                       ec, starts, state, ioWrite, inbox>>
        /\ AsyncRead("ctrl", Cur, Tail(wire))
    BY <1>7 DEF ReadStdIoErr, ReadReturnCode, ReadOtherError, client, host, command, Cur
  <2>2. CtrlReads(Cur, Tail(wire))
    BY <1>3, <1>6, <2>1
  <2>3. ~ReadGoodVersion
    <3>1. Head(wire).result # "good"
      BY <1>7, WinexeAssumption
      DEF ReadStdIoErr, ReadReturnCode, ReadOtherError, Handles
    <3> QED BY <3>1 DEF ReadGoodVersion, Handles
  <2> QED BY <1>1, <1>2, <1>3, <1>4, <1>5, <2>1, <2>2, <2>3
<1>8. CASE ReadGoodVersion
  <2> DEFINE h == Cached(ioWrite, "ctrl", Cur)
  <2>1. /\ UNCHANGED <<flow, abort, fd, ends, met, nconn, exe, registered, inst, hpc, proc, owner,
                       ec, starts>>
        /\ AsyncRead("ctrl", Cur, WriteFails(h, Tail(wire)))
        /\ Written(h, <<"set system", "run">>)
        /\ state' = "RUNNING"
    BY <1>8 DEF ReadGoodVersion, WriteThenRead, host, command, Cur
  <2>2. h \in 0..MaxConn /\ h <= Cur
    BY <1>5 DEF Cached, IInv, Types, HandleTypes, Pipes, Conversation, Numbered
  <2> HIDE DEF h
  <2>3. /\ WriteFails(h, Tail(wire)) \in Seq(Said)
        /\ Agree(WriteFails(h, Tail(wire)), Tail(wire), Refusals)
    BY <1>3, <2>2, WriteFailsAdds
  <2>4. None(WriteFails(h, Tail(wire)), CtrlSays)
    BY <1>2, <2>3, RefusalsApart DEF Agree
  <2>5. CtrlReads(Cur, WriteFails(h, Tail(wire)))
    BY <1>6, <2>1, <2>3
  <2> QED BY <1>1, <1>2, <1>4, <1>5, <1>8, <2>1, <2>2, <2>3, <2>4, <2>5
<1> QED BY <1>7, <1>8

\* Nothing that was said before is taken for an answer of the new pipe.
LEMMA OpenedSilent ==
    ASSUME IInv, Conversation, Version, CtrlOpened
    PROVE  /\ inbox[nconn] = <<>> /\ hpc[nconn] \in Quiet /\ Lost(nconn)
           /\ hpc[nconn] = "gets" => <<"ctrl", nconn>> \in inst /\ reply[nconn] = "none"
           /\ None(wire', VersionAnswers) /\ None(wire', GoodBad) /\ None(wire', BadErr)
           /\ None(wire', RunAnswers)
<1>1. /\ UNCHANGED <<flow, nconn, exe, inst, hpc>>
      /\ flow = "loop" /\ state = "OPENING" /\ state' = "GETTING_VERSION"
      /\ nconn \in Conns /\ nconn > Cur /\ Cur' = nconn /\ <<"ctrl", nconn>> \in ends
      /\ \/ /\ ioWrite["ctrl"] = 0 /\ Written(nconn, <<"get version">>)
         \/ /\ ioWrite'["ctrl"] = ioWrite["ctrl"] /\ ioWrite["ctrl"] # 0
            /\ ioWrite["ctrl"] # nconn /\ inbox' = inbox
  BY OpenedReads
<1>2. PICK w \in Seq(Said) : CtrlReads(nconn, w) /\ None(w, CtrlSays)
  BY OpenedReads
<1>3. nconn \in 0..MaxConn /\ Cur \in 0..MaxConn /\ MaxConn \in Nat
  BY <1>1, Currents, ConnsNat
<1> DEFINE n == nconn
<1>n. n \in Nat /\ Cur \in Nat /\ n > Cur /\ n \in Conns /\ n' = n
  <2>1. n \in Nat /\ Cur \in Nat
    BY <1>3
  <2>2. n > Cur /\ n \in Conns /\ n' = n
    BY <1>1
  <2> QED BY <2>1, <2>2
<1>4. /\ inbox[nconn] = <<>> /\ hpc[nconn] \in Quiet /\ Lost(nconn)
      /\ hpc[nconn] = "gets" => <<"ctrl", nconn>> \in inst /\ reply[nconn] = "none"
  <2>1. hpc[nconn] # "none"
    <3>1. ~(n > n)
      BY <1>n
    <3> QED BY <1>1, <3>1 DEF Version, Instances
  <2>2. inbox[nconn] = <<>> /\ hpc[nconn] \in Quiet /\ Lost(nconn)
    BY <1>1, <2>1 DEF Version, Fresh, Up
  <2> QED BY <1>1, <2>2 DEF Version, Instances, Lost
<1>6. ASSUME NEW R, R \subseteq Messages, "error:" \notin R
      PROVE  None(wire', Of("read", "ctrl", R))
  <2>1. None(w, Of("read", "ctrl", R))
    BY <1>2, <1>6, NoneSub DEF CtrlSays, Of
  <2>2. reply[nconn] \notin R
    <3>1. "none" \notin R
      BY <1>6, WinexeAssumption DEF Messages, Codes
    <3> QED BY <1>4, <1>6, <3>1 DEF Lost
  <2> QED BY <1>2, <1>3, <1>6, <2>1, <2>2, ReadTakes
<1>7. /\ None(wire', VersionAnswers) /\ None(wire', GoodBad) /\ None(wire', BadErr)
      /\ None(wire', RunAnswers)
  BY <1>6, WinexeAssumption DEF VersionAnswers, GoodBad, BadErr, RunAnswers, Messages, Codes
<1> QED BY <1>4, <1>7

LEMMA OpenedVersion ==
    ASSUME IInv, Conversation, Version, CtrlOpened
    PROVE  Version'
<1>1. /\ UNCHANGED <<flow, nconn, exe, inst, hpc>>
      /\ flow = "loop" /\ state = "OPENING" /\ state' = "GETTING_VERSION"
      /\ nconn \in Conns /\ nconn > Cur /\ Cur' = nconn /\ <<"ctrl", nconn>> \in ends
      /\ \/ /\ ioWrite["ctrl"] = 0 /\ Written(nconn, <<"get version">>)
         \/ /\ ioWrite'["ctrl"] = ioWrite["ctrl"] /\ ioWrite["ctrl"] # 0
            /\ ioWrite["ctrl"] # nconn /\ inbox' = inbox
  BY OpenedReads
<1>2. PICK w \in Seq(Said) : CtrlReads(nconn, w) /\ None(w, CtrlSays)
  BY OpenedReads
<1>3. nconn \in 0..MaxConn /\ Cur \in 0..MaxConn /\ MaxConn \in Nat
  BY <1>1, Currents, ConnsNat
<1> DEFINE n == nconn
<1>n. n \in Nat /\ Cur \in Nat /\ n > Cur /\ n \in Conns /\ n' = n
  <2>1. n \in Nat /\ Cur \in Nat
    BY <1>3
  <2>2. n > Cur /\ n \in Conns /\ n' = n
    BY <1>1
  <2> QED BY <2>1, <2>2
<1>4. /\ inbox[nconn] = <<>> /\ hpc[nconn] \in Quiet /\ Lost(nconn)
      /\ hpc[nconn] = "gets" => <<"ctrl", nconn>> \in inst /\ reply[nconn] = "none"
  BY OpenedSilent
<1>5. inbox \in [Conns -> Seq(Lines)]
  BY DEF IInv, Types, Speak
<1>7. /\ None(wire', VersionAnswers) /\ None(wire', GoodBad) /\ None(wire', BadErr)
      /\ None(wire', RunAnswers)
  BY OpenedSilent
<1>8. /\ \A k \in Conns : k # nconn => reply'[k] = reply[k]
      /\ \A k \in Conns : reply'[k] \in {reply[k], "none"}
  BY <1>2, <1>3, ReadTakes
<1>9. /\ \A k \in Conns : k # nconn => inbox'[k] = inbox[k]
      /\ inbox'[nconn] \in {<<>>, <<"get version">>}
  <2>1. <<>> \o <<"get version">> = <<"get version">>
    OBVIOUS
  <2> QED BY <1>1, <1>4, <1>5, <2>1 DEF Written
<1>10. hpc[nconn] = "gets" =>
          /\ <<"ctrl", nconn>> \in pending'
          /\ \/ inbox'[nconn] = <<"get version">>
             \/ inbox'[nconn] = <<>> /\ ioWrite'["ctrl"] \notin {0, nconn}
  <2>1. ASSUME hpc[nconn] = "gets" PROVE <<"ctrl", nconn>> \in pending'
    BY <1>1, <1>2, <1>4, <2>1 DEF CtrlReads
  <2>2. ASSUME hpc[nconn] = "gets", Written(nconn, <<"get version">>)
        PROVE  inbox'[nconn] = <<"get version">>
    <3>1. <<>> \o <<"get version">> = <<"get version">>
      OBVIOUS
    <3> QED BY <1>1, <1>4, <1>5, <2>2, <3>1 DEF Written, Open
  <2> QED BY <1>1, <1>4, <2>1, <2>2
<1>11. Instances'
  <2>1. n <= n + 1
    BY <1>n
  <2> QED BY <1>1, <2>1 DEF Version, Instances
<1>12. Fresh'
  <2>1. ASSUME NEW k \in Conns, k > n PROVE k > Cur /\ k # n
    BY <1>n, <2>1 DEF Conns
  <2>2. Up' <=> Up
    BY <1>1 DEF Up
  <2> QED BY <1>1, <1>8, <1>9, <2>1, <2>2 DEF Version, Fresh, Lost
<1>13. AskedOnce'
  <2>1. \A k \in Conns : None(inbox[k], Question)
    BY <1>1 DEF Version, AskedOnce
  <2>2. <<"get version">> # <<>> /\ Tail(<<"get version">>) = <<>>
    OBVIOUS
  <2>3. None(Tail(<<"get version">>), Question) /\ None(<<>>, Question)
    BY <2>2, Silence
  <2> QED BY <1>1, <1>4, <1>7, <1>9, <1>10, <2>1, <2>2, <2>3 DEF AskedOnce
<1>14. Unanswered'
  <2>1. inbox'[nconn] = <<"get version">> => Asked(nconn)'
    <3>1. <<"get version">> # <<>> /\ Head(<<"get version">>) = "get version"
      OBVIOUS
    <3>2. nconn' = nconn
      BY <1>1
    <3> QED BY <3>1, <3>2 DEF Asked
  <2>2. Lost(nconn)'
    BY <1>1, <1>4, <1>8 DEF Lost
  <2> QED BY <1>1, <1>4, <1>10, <2>1, <2>2 DEF Unanswered, Asked
<1>15. VersionSaid'
  BY <1>1, <1>7, <1>8 DEF Version, VersionSaid
<1> QED BY <1>11, <1>12, <1>13, <1>14, <1>15 DEF Version

\* An answer while the version is awaited that is not about it.
LEMMA UnaskedSilent ==
    ASSUME IInv, Conversation, Version, Asking, ~ReadGoodVersion,
           ReadStdIoErr \/ ReadReturnCode \/ ReadOtherError \/ ReadGoodVersion
    PROVE  /\ hpc[Cur] \in Quiet \ {"gets"} /\ Lost(Cur)
           /\ None(wire', VersionAnswers) /\ None(wire', BadErr) /\ None(wire', RunAnswers)
<1>1. /\ UNCHANGED <<flow, fd, nconn, exe, inst, hpc>>
      /\ flow = "loop" /\ wire # <<>> /\ Talking /\ Cur \in Conns
      /\ Head(wire).result \in Messages /\ Head(wire) \in CtrlSays
      /\ \A R : Head(wire) \in Of("read", "ctrl", R) <=> Head(wire).result \in R
      /\ \A k \in Conns : <<"ctrl", k>> \notin pending
      /\ ~ReadGoodVersion => UNCHANGED <<state, ioWrite, inbox>>
      /\ ReadGoodVersion =>
            /\ state' = "RUNNING"
            /\ \E h \in 0..MaxConn : h <= Cur /\ Written(h, <<"set system", "run">>)
  BY AnswerReads
<1>2. PICK w \in Seq(Said) : CtrlReads(Cur, w) /\ None(w, CtrlSays)
  BY AnswerReads
<1>3. /\ \A S : None(wire, S) <=> Head(wire) \notin S /\ None(Tail(wire), S)
      /\ None(Tail(wire), CtrlSays)
  <2>1. /\ \A S : None(wire, S) <=> Head(wire) \notin S /\ None(Tail(wire), S)
        /\ One(wire, CtrlSays) => None(Tail(wire), CtrlSays)
    BY <1>1, Hears
  <2> QED BY <2>1 DEF Conversation, Waiting
<1>4. Cur' = Cur /\ (Up' <=> Up) /\ Cur \in 0..MaxConn /\ Up
  BY <1>1, Currents DEF Cur, Up
<1>5. /\ \A k \in Conns : reply'[k] \in {reply[k], "none"}
      /\ \A R : R \subseteq Messages /\ reply[Cur] \notin R => None(wire', Of("read", "ctrl", R))
  <2>1. ASSUME NEW R, R \subseteq Messages, reply[Cur] \notin R
        PROVE  None(wire', Of("read", "ctrl", R))
    <3>1. None(w, Of("read", "ctrl", R))
      BY <1>2, <2>1, NoneSub DEF CtrlSays, Of
    <3> QED BY <1>2, <1>4, <2>1, <3>1, ReadTakes
  <2> QED BY <1>2, <1>4, <2>1, ReadTakes
<1>6. state = "GETTING_VERSION"
  BY DEF Asking
<1>7. Head(wire).result \notin {"std_io_err"} \cup Codes
  <2>1. None(wire, RunAnswers)
    BY DEF Version, VersionSaid
  <2> QED BY <1>1, <1>3, <2>1 DEF RunAnswers
<1>8. Head(wire).result = "error:"
  BY <1>6, <1>7
  DEF ReadStdIoErr, ReadReturnCode, ReadOtherError, ReadGoodVersion, Handles, Codes
<1>9. None(wire, VersionAnswers)
  <2>1. None(Tail(wire), VersionAnswers)
    BY <1>3, VersionKinds, NoneSub
  <2>2. Head(wire) \notin VersionAnswers
    <3>1. Head(wire).result \notin {"good", "bad", "error"}
      BY <1>8
    <3>2. \A R : Head(wire) \in Of("read", "ctrl", R) <=> Head(wire).result \in R
      BY <1>1
    <3> QED BY <3>1, <3>2 DEF VersionAnswers
  <2> QED BY <1>3, <2>1, <2>2
<1>10. hpc[Cur] \in Quiet \ {"gets"} /\ Lost(Cur)
  BY <1>1, <1>9 DEF Version, Unanswered
<1>11. /\ None(wire', VersionAnswers) /\ None(wire', BadErr) /\ None(wire', RunAnswers)
  <2>1. /\ reply[Cur] \notin {"good", "bad", "error"} /\ reply[Cur] \notin {"bad", "error"}
        /\ reply[Cur] \notin {"std_io_err"} \cup Codes
    BY <1>10, WinexeAssumption DEF Lost, Codes
  <2> QED BY <1>5, <2>1 DEF VersionAnswers, BadErr, RunAnswers, Messages
<1> QED BY <1>10, <1>11

LEMMA AnswersVersion ==
    ASSUME IInv, Conversation, Version,
           ReadStdIoErr \/ ReadReturnCode \/ ReadOtherError \/ ReadGoodVersion
    PROVE  Version'
<1>1. /\ UNCHANGED <<flow, fd, nconn, exe, inst, hpc>>
      /\ flow = "loop" /\ wire # <<>> /\ Talking /\ Cur \in Conns
      /\ Head(wire).result \in Messages /\ Head(wire) \in CtrlSays
      /\ \A R : Head(wire) \in Of("read", "ctrl", R) <=> Head(wire).result \in R
      /\ \A k \in Conns : <<"ctrl", k>> \notin pending
      /\ ~ReadGoodVersion => UNCHANGED <<state, ioWrite, inbox>>
      /\ ReadGoodVersion =>
            /\ state' = "RUNNING"
            /\ \E h \in 0..MaxConn : h <= Cur /\ Written(h, <<"set system", "run">>)
  BY AnswerReads
<1>2. PICK w \in Seq(Said) : CtrlReads(Cur, w) /\ None(w, CtrlSays)
  BY AnswerReads
<1>3. /\ \A S : None(wire, S) <=> Head(wire) \notin S /\ None(Tail(wire), S)
      /\ None(Tail(wire), CtrlSays)
  <2>1. /\ \A S : None(wire, S) <=> Head(wire) \notin S /\ None(Tail(wire), S)
        /\ One(wire, CtrlSays) => None(Tail(wire), CtrlSays)
    BY <1>1, Hears
  <2> QED BY <2>1 DEF Conversation, Waiting
<1>4. Cur' = Cur /\ (Up' <=> Up) /\ Cur \in 0..MaxConn /\ Up
  BY <1>1, Currents DEF Cur, Up
<1>5. /\ \A k \in Conns : reply'[k] \in {reply[k], "none"}
      /\ \A R : R \subseteq Messages /\ reply[Cur] \notin R => None(wire', Of("read", "ctrl", R))
  <2>1. ASSUME NEW R, R \subseteq Messages, reply[Cur] \notin R
        PROVE  None(wire', Of("read", "ctrl", R))
    <3>1. None(w, Of("read", "ctrl", R))
      BY <1>2, <2>1, NoneSub DEF CtrlSays, Of
    <3> QED BY <1>2, <1>4, <2>1, <3>1, ReadTakes
  <2> QED BY <1>2, <1>4, <2>1, ReadTakes
<1>6. Instances'
  BY <1>1, <1>4 DEF Version, Instances
<1>7. \A k \in Conns : Lost(k) => Lost(k)'
  BY <1>1, <1>5 DEF Lost
<1>8. None(wire', GoodBad)
  BY <1>1, <1>5 DEF Version, VersionSaid, GoodBad, Messages
<1>9. \A k \in Conns : reply'[k] \notin {"good", "bad"}
  BY <1>5 DEF Version, VersionSaid
<1>10. CASE ReadGoodVersion
  <2>1. state = "GETTING_VERSION" /\ \A k \in Conns : None(inbox[k], Question)
    <3>1. Head(wire) \in GoodBad /\ Head(wire) \in VersionAnswers
      BY <1>1, <1>10 DEF ReadGoodVersion, Handles, GoodBad, VersionAnswers
    <3>2. ~None(wire, GoodBad) /\ ~None(wire, VersionAnswers)
      BY <1>3, <3>1
    <3> QED BY <3>2 DEF Version, VersionSaid, AskedOnce
  <2>2. PICK h \in 0..MaxConn : h <= Cur /\ Written(h, <<"set system", "run">>)
    BY <1>1, <1>10
  <2>3. <<"set system", "run">> \in Seq(Lines) /\ None(<<"set system", "run">>, Question)
    <3>1. "set system" \in Lines /\ "run" \in Lines
      BY DEF Lines
    <3>2. <<"set system", "run">> \in Seq(Lines)
      BY <3>1, Listing
    <3> QED BY ZenonT(30), <3>2, TwoLines DEF Question
  <2>4. /\ \A k \in Conns : None(inbox'[k], Question)
        /\ \A k \in Conns : k # h => inbox'[k] = inbox[k]
    BY <2>1, <2>2, <2>3, WritesBehind DEF Behind
  <2>5. Fresh'
    <3>1. Cur \in Nat /\ h \in Nat /\ h <= Cur
      <4>1. MaxConn \in Nat
        BY ConnsNat
      <4>2. \A i \in 0..MaxConn : i \in Nat
        BY <4>1
      <4>3. Cur \in 0..MaxConn /\ h <= Cur
        BY <1>4, <2>2
      <4> QED BY <4>2, <4>3
    <3>2. ASSUME NEW k \in Conns, k > Cur PROVE k # h
      BY <3>1, <3>2 DEF Conns
    <3> QED BY <1>1, <1>4, <1>7, <2>4, <3>2 DEF Version, Fresh
  <2>6. AskedOnce' /\ Unanswered' /\ VersionSaid'
    BY <1>1, <1>8, <1>9, <1>10, <2>4 DEF AskedOnce, Unanswered, VersionSaid, Asking
  <2> QED BY <1>6, <2>5, <2>6 DEF Version
<1>11. CASE ~ReadGoodVersion
  <2>1. UNCHANGED <<state, ioWrite, inbox>>
    BY <1>1, <1>11
  <2>2. Fresh'
    BY <1>1, <1>4, <1>7, <2>1 DEF Version, Fresh
  <2>3. CASE state # "GETTING_VERSION"
    <3>1. AskedOnce' /\ Unanswered' /\ VersionSaid'
      BY <1>1, <1>8, <1>9, <2>1, <2>3
      DEF Version, AskedOnce, Unanswered, VersionSaid, Asking, Talking
    <3> QED BY <1>6, <2>2, <3>1 DEF Version
  <2>4. CASE state = "GETTING_VERSION"
    <3>1. Asking
      BY <1>1, <2>4 DEF Asking
    <3>2. /\ hpc[Cur] \in Quiet \ {"gets"} /\ Lost(Cur)
          /\ None(wire', VersionAnswers) /\ None(wire', BadErr) /\ None(wire', RunAnswers)
      BY <1>11, <3>1, UnaskedSilent
    <3>3. AskedOnce'
      BY <1>1, <1>4, <2>1, <3>2 DEF Version, AskedOnce
    <3>4. Unanswered'
      BY <1>1, <1>4, <1>7, <3>2 DEF Unanswered
    <3>5. VersionSaid'
      BY <1>8, <1>9, <2>1, <2>4, <3>2 DEF VersionSaid
    <3> QED BY <1>6, <2>2, <3>3, <3>4, <3>5 DEF Version
  <2> QED BY <2>3, <2>4
<1> QED BY <1>10, <1>11

\* No answer of the right version makes the client close the pipe.
LEMMA ClosingOther ==
    ASSUME IInv, Conversation, Version, ReadBadVersion
    PROVE  /\ exe # "good" /\ state = "GETTING_VERSION"
           /\ Asking /\ ~None(wire, BadErr)
           /\ \A k \in Conns : None(inbox[k], Question)
<1>1. /\ flow = "loop" /\ wire # <<>> /\ Head(wire).what = "read"
      /\ Head(wire).result \in {"bad", "error"}
      /\ Head(wire).result = "error" => state = "GETTING_VERSION"
  BY DEF ReadBadVersion, Handles
<1>2. Head(wire).result \in Messages
  BY <1>1 DEF Messages
<1>3. /\ Head(wire) \in Said /\ Head(wire).pipe = "ctrl" /\ Talking
      /\ \A S : None(wire, S) <=> Head(wire) \notin S /\ None(Tail(wire), S)
  BY <1>1, <1>2, Hears, Answered
<1>4. /\ Head(wire) \in BadErr /\ Head(wire) \in VersionAnswers
      /\ Head(wire).result = "bad" => Head(wire) \in GoodBad
  BY <1>1, <1>3, Kinds DEF BadErr, VersionAnswers, GoodBad
<1>5. ~None(wire, BadErr) /\ ~None(wire, VersionAnswers)
      /\ (Head(wire).result = "bad" => ~None(wire, GoodBad))
  BY <1>3, <1>4
<1>6. state = "GETTING_VERSION"
  BY <1>1, <1>5 DEF Version, VersionSaid
<1> QED BY <1>1, <1>5, <1>6 DEF Version, VersionSaid, AskedOnce, Asking

LEMMA ClosingVersion ==
    ASSUME IInv, Conversation, Version, ReadBadVersion
    PROVE  Version'
<1>1. /\ exe # "good" /\ state = "GETTING_VERSION"
      /\ \A k \in Conns : None(inbox[k], Question)
  BY ClosingOther
<1>2. /\ UNCHANGED <<flow, fd, nconn, exe, inst, hpc, inbox, reply>>
      /\ state' = "CLOSING_FOR_REINSTALL" /\ flow = "loop"
      /\ wire # <<>> /\ Head(wire).result \in Messages /\ Head(wire).what = "read"
      /\ wire' = Append(Append(Tail(wire), Reply("close", "ctrl", fd["ctrl"], "done")),
                        Reply("read", "ctrl", Cached(ioRead, "ctrl", fd["ctrl"]), "failed"))
  BY DEF ReadBadVersion, Handles, CloseReply, host, service, Messages
<1>3. Cur' = Cur /\ (Up' <=> Up) /\ ~Asking'
  BY <1>2 DEF Cur, Up, Asking
<1>4. None(wire', GoodBad)
  <2> DEFINE a == Reply("close", "ctrl", fd["ctrl"], "done")
             b == Reply("read", "ctrl", Cached(ioRead, "ctrl", fd["ctrl"]), "failed")
  <2>1. Tail(wire) \in Seq(Said) /\ None(Tail(wire), GoodBad)
    BY <1>2, Hears, Answered, VersionKinds, NoneSub
  <2>2. a \in Said /\ b \in Said /\ a \notin GoodBad /\ b \notin GoodBad
    <3>1. fd["ctrl"] \in 0..MaxConn /\ Cached(ioRead, "ctrl", fd["ctrl"]) \in 0..MaxConn
          /\ "ctrl" \in Pipes
      BY DEF Cached, IInv, Types, HandleTypes, Pipes
    <3>2. a \in Said /\ b \in Said /\ a.what = "close" /\ b.result = "failed"
      BY <3>1, Replying, Distinct
    <3> QED BY <3>2, Kinds DEF GoodBad
  <2> HIDE DEF a, b
  <2>3. Append(Tail(wire), a) \in Seq(Said) /\ None(Append(Tail(wire), a), GoodBad)
    BY <2>1, <2>2, Puts
  <2>4. None(Append(Append(Tail(wire), a), b), GoodBad)
    BY <2>2, <2>3, Puts
  <2> QED BY <1>2, <2>4 DEF a, b
<1>5. Instances' /\ Fresh'
  <2>1. ServiceStays
    BY <1>2 DEF ServiceStays
  <2> QED BY <1>2, <1>3, <2>1, StaysInstances
<1>6. AskedOnce' /\ Unanswered' /\ VersionSaid'
  BY <1>1, <1>2, <1>3, <1>4 DEF Version, AskedOnce, Unanswered, VersionSaid
<1> QED BY <1>5, <1>6 DEF Version

\* A handler moves on, and says m or nothing.
Tells(k, m) ==
    \A R : R \subseteq Messages =>
        (None(wire', Of("read", "ctrl", R)) <=>
            None(wire, Of("read", "ctrl", R)) /\ (<<"ctrl", k>> \in pending => m \notin R))
Hushes ==
    \A R : R \subseteq Messages =>
        (None(wire', Of("read", "ctrl", R)) <=> None(wire, Of("read", "ctrl", R)))
Proceeds(k, next) ==
    /\ UNCHANGED <<flow, state, fd, ioWrite, ends, nconn, exe>>
    /\ hpc' = [hpc EXCEPT ![k] = next] /\ next # "none" /\ hpc[k] # "none"
    /\ \A j \in Conns : j # k =>
          /\ <<"ctrl", j>> \in inst' <=> <<"ctrl", j>> \in inst
          /\ <<"ctrl", j>> \in pending' <=> <<"ctrl", j>> \in pending
          /\ reply'[j] = reply[j] /\ inbox'[j] = inbox[j]
    /\ next # "gone" => <<"ctrl", k>> \in inst'

\* One that is not at the question.
LEMMA ProceedsVersion ==
    ASSUME IInv, Conversation, Version, NEW k \in Conns, NEW next, Proceeds(k, next),
           k > Cur => ~Up /\ inbox'[k] = <<>>,
           None(inbox[k], Question), None(inbox'[k], Question),
           ~(k = Cur /\ Asking /\ None(wire, VersionAnswers)),
           reply'[k] \notin {"good", "bad"},
           Hushes \/ \E m \in Messages \ {"good", "bad"} : Tells(k, m)
    PROVE  Version'
<1>1. /\ Cur' = Cur /\ (Up' <=> Up) /\ (Asking' <=> Asking)
      /\ \A j \in Conns : j # k =>
            /\ hpc'[j] = hpc[j] /\ reply'[j] = reply[j] /\ inbox'[j] = inbox[j]
            /\ Lost(j)' <=> Lost(j)
            /\ Asked(j)' <=> Asked(j)
      /\ hpc'[k] = next
  BY DEF Proceeds, Cur, Up, Asking, Lost, Asked, IInv, Types, ServiceTypes
<1>2. <<"ctrl", k>> \in pending => k = Cur /\ ~Asking
  <2>1. <<"ctrl", k>> \in pending => k = Cur /\ None(wire, CtrlSays)
    BY DEF Conversation, Waiting
  <2> QED BY <2>1, VersionKinds, NoneSub
<1>3. \A R : R \subseteq Messages =>
         /\ None(wire', Of("read", "ctrl", R)) => None(wire, Of("read", "ctrl", R))
         /\ \/ <<"ctrl", k>> \notin pending
            \/ "good" \in R /\ R \subseteq {"good", "bad"}
            => (None(wire', Of("read", "ctrl", R)) <=> None(wire, Of("read", "ctrl", R)))
  BY DEF Hushes, Tells
<1>4. /\ None(wire', GoodBad) <=> None(wire, GoodBad)
      /\ None(wire', VersionAnswers) => None(wire, VersionAnswers)
      /\ <<"ctrl", k>> \notin pending =>
            /\ None(wire', VersionAnswers) <=> None(wire, VersionAnswers)
            /\ None(wire', BadErr) <=> None(wire, BadErr)
            /\ None(wire', RunAnswers) <=> None(wire, RunAnswers)
  <2>1. {"good", "bad"} \subseteq Messages /\ {"good", "bad", "error"} \subseteq Messages
        /\ {"bad", "error"} \subseteq Messages /\ {"std_io_err"} \cup Codes \subseteq Messages
    BY DEF Messages
  <2> QED BY <1>3, <2>1 DEF GoodBad, VersionAnswers, BadErr, RunAnswers
<1>5. Instances'
  BY <1>1 DEF Version, Instances, Proceeds
<1>6. Fresh'
  BY <1>1 DEF Version, Fresh
<1>7. AskedOnce'
  <2>1. ASSUME NEW j \in Conns, j # k, ~None(inbox[j], Question)
        PROVE  /\ inbox[j] # <<>> /\ None(Tail(inbox[j]), Question)
               /\ j = Cur /\ state = "GETTING_VERSION" /\ None(wire', VersionAnswers)
               /\ hpc[j] \in Quiet
               /\ hpc[j] = "gets" /\ Up => <<"ctrl", j>> \in pending
    <3>1. /\ inbox[j] # <<>> /\ None(Tail(inbox[j]), Question)
          /\ j = Cur /\ state = "GETTING_VERSION" /\ None(wire, VersionAnswers)
          /\ hpc[j] \in Quiet
          /\ hpc[j] = "gets" /\ Up => <<"ctrl", j>> \in pending
      BY <2>1 DEF Version, AskedOnce
    <3> QED BY <1>2, <1>4, <2>1, <3>1
  <2>2. state' = state
    BY DEF Proceeds
  <2> QED BY <1>1, <2>1, <2>2 DEF AskedOnce, Proceeds
<1>8. Unanswered'
  <2>1. ASSUME Asking, None(wire', VersionAnswers)
        PROVE  Cur # k /\ Cur \in Conns /\ None(wire, VersionAnswers)
    BY <1>4, <2>1, CurrentConn DEF Asking
  <2> QED BY <1>1, <2>1 DEF Version, Unanswered, Proceeds
<1>9. VersionSaid'
  BY <1>1, <1>2, <1>4 DEF Version, VersionSaid, Proceeds
<1> QED BY <1>5, <1>6, <1>7, <1>8, <1>9 DEF Version

\* A handler without memory says so, whatever it is asked.
LEMMA LostVersion ==
    ASSUME IInv, Conversation, Version, NEW k \in Conns,
           NoMemory(k) \/ Flush(k, "flushLost", "lost")
    PROVE  Version'
<1>1. /\ UNCHANGED <<flow, state, fd, ioWrite, ends, nconn, exe, inst, inbox>>
      /\ hpc[k] \in {"nomem", "flushLost"}
      /\ \E next \in {"flushLost", "lost"} : hpc' = [hpc EXCEPT ![k] = next]
      /\ \/ Hprintf(k, "error:") /\ hpc'[k] = "flushLost"
         \/ UNCHANGED <<wire, pending, reply>> /\ hpc[k] = "flushLost" /\ hpc'[k] = "lost"
  BY DEF NoMemory, Flush, Says, Moves, client, io, host, smb, IInv, Types, ServiceTypes
<1>2. /\ Cur' = Cur /\ (Up' <=> Up) /\ (Asking' <=> Asking)
      /\ \A j \in Conns : j # k => hpc'[j] = hpc[j]
      /\ hpc'[k] \in {"flushLost", "lost"}
      /\ \A j \in Conns : Asked(j)' <=> Asked(j)
  BY <1>1 DEF Cur, Up, Asking, Asked, IInv, Types, ServiceTypes
<1>3. "error:" \in Messages
  BY DEF Messages
<1>4. /\ \A R : R \subseteq Messages /\ "error:" \notin R =>
            (None(wire', Of("read", "ctrl", R)) <=> None(wire, Of("read", "ctrl", R)))
      /\ \A j \in Conns : j # k =>
            /\ reply'[j] = reply[j]
            /\ <<"ctrl", j>> \in pending' <=> <<"ctrl", j>> \in pending
      /\ reply'[k] \in {reply[k], "error:"}
  BY <1>1, <1>3, SaysTells
<1>5. /\ None(wire', GoodBad) <=> None(wire, GoodBad)
      /\ None(wire', VersionAnswers) <=> None(wire, VersionAnswers)
      /\ None(wire', BadErr) <=> None(wire, BadErr)
      /\ None(wire', RunAnswers) <=> None(wire, RunAnswers)
  <2>1. "error:" \notin Codes
    BY WinexeAssumption DEF Codes
  <2> QED BY <1>4, <2>1 DEF GoodBad, VersionAnswers, BadErr, RunAnswers, Messages
<1>6. \A j \in Conns : Lost(j) => Lost(j)'
  BY <1>1, <1>2, <1>4 DEF Lost
<1>7. Instances'
  BY <1>1, <1>2 DEF Version, Instances
<1>8. Fresh'
  BY <1>1, <1>2, <1>6 DEF Version, Fresh, Quiet
<1>9. AskedOnce'
  BY <1>1, <1>2, <1>4, <1>5 DEF Version, AskedOnce, Quiet
<1>10. Unanswered'
  <2>1. Asking => Cur \in Conns
    BY CurrentConn DEF Asking
  <2> QED BY <1>1, <1>2, <1>4, <1>5, <1>6, <2>1 DEF Version, Unanswered, Quiet
<1>11. VersionSaid'
  BY <1>1, <1>2, <1>4, <1>5 DEF Version, VersionSaid
<1> QED BY <1>7, <1>8, <1>9, <1>10, <1>11 DEF Version

\* The question is answered.
LEMMA GetVersionVersion ==
    ASSUME IInv, Conversation, Version, NEW k \in Conns, GetVersion(k)
    PROVE  Version'
<1>1. /\ UNCHANGED <<flow, state, fd, ioWrite, ends, nconn, exe, inst>>
      /\ hpc[k] = "gets" /\ hpc' = [hpc EXCEPT ![k] = "flushAnswer"]
      /\ inbox[k] # <<>> /\ Head(inbox[k]) = "get version"
      /\ inbox' = [inbox EXCEPT ![k] = Tail(@)]
  BY DEF GetVersion, Gets, Says, client, io, host
<1>2. PICK m \in {"good", "bad", "error"} : Hprintf(k, m) /\ (exe = "good" => m = "good")
  BY DEF GetVersion, Says
<1>3. inbox \in [Conns -> Seq(Lines)] /\ hpc \in [Conns -> Handlers]
  BY DEF IInv, Types, Speak, ServiceTypes
<1>4. ~None(inbox[k], Question)
  <2>1. Head(inbox[k]) \in Question
    BY <1>1 DEF Question
  <2> QED BY <1>1, <1>3, <2>1, NoneTail
<1>5. /\ None(Tail(inbox[k]), Question)
      /\ k = Cur /\ state = "GETTING_VERSION" /\ None(wire, VersionAnswers)
      /\ Up => <<"ctrl", k>> \in pending
  BY <1>1, <1>4 DEF Version, AskedOnce
<1>6. /\ Cur' = Cur /\ (Up' <=> Up) /\ (Asking' <=> Asking) /\ (Asking => Up)
      /\ \A j \in Conns : j # k => hpc'[j] = hpc[j] /\ inbox'[j] = inbox[j]
      /\ hpc'[k] = "flushAnswer" /\ inbox'[k] = Tail(inbox[k])
  BY <1>1, <1>3 DEF Cur, Up, Asking
<1>7. /\ \A R : R \subseteq Messages =>
            (None(wire', Of("read", "ctrl", R)) <=>
               None(wire, Of("read", "ctrl", R)) /\ (<<"ctrl", k>> \in pending => m \notin R))
      /\ \A j \in Conns : j # k => reply'[j] = reply[j]
      /\ reply'[k] = reply[k]
  <2>1. m \in Messages
    BY DEF Messages
  <2>2. ~Up => ends = {}
    BY DEF Conversation, Phases
  <2> QED BY <1>2, <1>5, <2>1, <2>2, SaysTells
<1>8. Instances'
  BY <1>1, <1>6 DEF Version, Instances
<1>9. Fresh'
  <2>1. ~(k > Cur)
    BY <1>5, Currents, ConnsNat
  <2> QED BY <1>6, <1>7, <2>1 DEF Version, Fresh, Lost
<1>10. AskedOnce'
  <2>1. \A j \in Conns : j # k => None(inbox[j], Question)
    BY <1>5 DEF Version, AskedOnce
  <2> QED BY <1>5, <1>6, <2>1 DEF AskedOnce
<1>11. ASSUME Asking PROVE ~None(wire', VersionAnswers)
  BY <1>5, <1>6, <1>7, <1>11 DEF VersionAnswers, Messages
<1>12. Unanswered'
  BY <1>6, <1>11 DEF Unanswered
<1>13. VersionSaid'
  <2>1. Asking => None(wire', RunAnswers)
    <3>1. m \notin {"std_io_err"} \cup Codes /\ {"std_io_err"} \cup Codes \subseteq Messages
      BY WinexeAssumption DEF Codes, Messages
    <3> QED BY <1>7, <3>1 DEF Version, VersionSaid, RunAnswers
  <2>2. Asking => None(wire, BadErr)
    BY <1>5, VersionKinds, NoneSub
  <2>3. Asking /\ ~None(wire', BadErr) => exe # "good"
    BY <1>2, <1>7, <2>2 DEF BadErr, Messages
  <2>4. \A j \in Conns : reply'[j] \notin {"good", "bad"}
    BY <1>7 DEF Version, VersionSaid
  <2> QED BY <1>1, <1>5, <1>6, <2>1, <2>3, <2>4 DEF VersionSaid
<1> QED BY <1>8, <1>9, <1>10, <1>12, <1>13 DEF Version

LEMMA UnsaidHushes == Unsaid => Hushes
<1>1. \A R : R \subseteq Messages => Of("read", "ctrl", R) \subseteq CtrlSays
  BY DEF CtrlSays, Of
<1> QED BY <1>1 DEF Unsaid, Hushes

LEMMA HprintfTells ==
    ASSUME IInv, Conversation, NEW k \in Conns, NEW message \in Messages, Hprintf(k, message)
    PROVE  Tells(k, message)
BY SaysTells DEF Tells

\* A handler at work is not at the question.
LEMMA BusyVersion ==
    ASSUME IInv, Conversation, Version, NEW k \in Conns, NEW next, Proceeds(k, next),
           hpc[k] \notin Quiet, inbox' = inbox,
           \/ reply' = reply /\ Hushes
           \/ \E m \in Messages \ {"good", "bad"} : Hprintf(k, m)
    PROVE  Version'
<1>1. hpc[k] # "none"
  BY DEF Proceeds
<1>2. k > Cur => ~Up /\ inbox'[k] = <<>>
  BY <1>1 DEF Version, Fresh
<1>3. None(inbox[k], Question)
  BY DEF Version, AskedOnce
<1>4. ~(k = Cur /\ Asking /\ None(wire, VersionAnswers))
  BY DEF Version, Unanswered
<1>5. reply'[k] \notin {"good", "bad"}
  BY SaysTells DEF Version, VersionSaid
<1>6. Hushes \/ \E m \in Messages \ {"good", "bad"} : Tells(k, m)
  BY HprintfTells
<1> QED BY <1>2, <1>3, <1>4, <1>5, <1>6, ProceedsVersion

\* Nor is one that finds another line.
LEMMA OtherLineVersion ==
    ASSUME IInv, Conversation, Version, NEW k \in Conns, NEW line, line # "get version",
           Gets(k, line), NEW next, Proceeds(k, next),
           \/ reply' = reply /\ Hushes
           \/ \E m \in Messages \ {"good", "bad"} : Hprintf(k, m)
    PROVE  Version'
<1>1. /\ hpc[k] = "gets" /\ inbox[k] # <<>> /\ Head(inbox[k]) = line
      /\ inbox' = [inbox EXCEPT ![k] = Tail(@)]
  BY DEF Gets
<1>2. inbox \in [Conns -> Seq(Lines)]
  BY DEF IInv, Types, Speak
<1>3. ~(k > Cur)
  BY <1>1 DEF Version, Fresh
<1>4. /\ None(inbox[k], Question) <=>
            Head(inbox[k]) \notin Question /\ None(Tail(inbox[k]), Question)
  BY <1>1, <1>2, NoneTail
<1>5. None(inbox[k], Question) /\ None(inbox'[k], Question)
  BY <1>1, <1>2, <1>4 DEF Version, AskedOnce, Question
<1>6. ~(k = Cur /\ Asking /\ None(wire, VersionAnswers))
  BY <1>1 DEF Version, Unanswered, Asked
<1>7. reply'[k] \notin {"good", "bad"}
  BY SaysTells DEF Version, VersionSaid
<1>8. Hushes \/ \E m \in Messages \ {"good", "bad"} : Tells(k, m)
  BY HprintfTells
<1> QED BY <1>3, <1>5, <1>6, <1>7, <1>8, ProceedsVersion

\* A connection that was accepted is used, or its pipe is open.
LEMMA NextOpen ==
    ASSUME IInv, Conversation, Version, NEW k \in Conns, k > Cur, hpc[k] # "none", Up
    PROVE  <<"ctrl", k>> \in ends /\ k = nconn
<1>1. k <= nconn /\ nconn <= Cur + 1
  <2>1. ~(k > nconn)
    BY DEF Version, Instances
  <2> QED BY <2>1, ConnsNat DEF Version, Instances, Conversation, Numbered, Conns
<1>2. Cur \in Nat /\ k \in Nat /\ nconn \in Nat
  BY Currents, ConnsNat DEF Conversation, Numbered, Conns
<1>3. k = nconn /\ Cur # nconn
  BY <1>1, <1>2
<1>4. state = "OPENING" /\ Opening
  BY <1>3 DEF Conversation, Phases, Opened
<1> QED BY <1>3, <1>4 DEF Opening

LEMMA EofVersion ==
    ASSUME IInv, Conversation, Version, NEW k \in Conns, GetsEof(k)
    PROVE  Version'
<1>1. /\ hpc[k] = "gets" /\ inbox[k] = <<>> /\ <<"ctrl", k>> \notin ends
      /\ hpc' = [hpc EXCEPT ![k] = "finish"]
      /\ UNCHANGED <<flow, state, fd, ioWrite, ends, nconn, exe, inst, inbox, reply, pending, wire>>
  BY DEF GetsEof, Moves, client, io, smb, host
<1>2. Proceeds(k, "finish")
  BY <1>1 DEF Proceeds, Version, Instances
<1>3. k > Cur => ~Up
  BY <1>1, NextOpen
<1>4. None(inbox[k], Question)
  BY <1>1, Silence
<1>5. ~(k = Cur /\ Asking)
  BY <1>1 DEF Asking, Conversation, Controlled, Talking, Up
<1>6. Hushes
  BY <1>1 DEF Hushes
<1>7. reply'[k] \notin {"good", "bad"}
  BY <1>1 DEF Version, VersionSaid
<1> QED BY <1>1, <1>2, <1>3, <1>4, <1>5, <1>6, <1>7, ProceedsVersion

\* What a handler says or does besides moving on.
LEMMA MovesProceeds ==
    ASSUME IInv, Conversation, Version, NEW k \in Conns, NEW next, Moves(k, next),
           hpc[k] \notin {"none", "gone"}, next # "none"
    PROVE  Proceeds(k, next) /\ reply' = reply /\ inbox' = inbox /\ Hushes
BY DEF Moves, Proceeds, Hushes, client, io, smb, host, Version, Instances

LEMMA SaysProceeds ==
    ASSUME IInv, Conversation, Version, NEW k \in Conns, NEW next, NEW m \in Messages,
           Says(k, m, next), hpc[k] \notin {"none", "gone"}, next # "none",
           \A j \in Conns : <<"ctrl", j>> \in inst' <=> <<"ctrl", j>> \in inst,
           \A j \in Conns : j # k => inbox'[j] = inbox[j]
    PROVE  Proceeds(k, next) /\ Hprintf(k, m)
BY SaysTells DEF Says, Proceeds, client, io, host, Version, Instances

LEMMA DisconnectProceeds ==
    ASSUME IInv, Conversation, Version, NEW k \in Conns, DisconnectData(k) \/ Finish(k)
    PROVE  /\ \E next : Proceeds(k, next)
           /\ reply' = reply /\ inbox' = inbox /\ Hushes /\ hpc[k] \in {"disconnect", "finish"}
<1>1. Unsaid
  <2>1. DataPipes \in SUBSET Pipes /\ {"ctrl"} \in SUBSET Pipes
    BY DEF Pipes
  <2>2. Adds(wire', wire, Aside)
    BY <2>1, DisconnectAside DEF DisconnectData, Finish
  <2> QED BY <2>2, AsideUnsaid DEF Conversation
<1>2. CASE DisconnectData(k)
  <2>1. Proceeds(k, "finish")
    BY <1>2 DEF DisconnectData, Proceeds, Disconnect, DataPipes, client, io, host,
            Version, Instances
  <2> QED BY <1>1, <1>2, <2>1, UnsaidHushes DEF DisconnectData
<1>3. CASE Finish(k)
  <2>1. Proceeds(k, "gone")
    BY <1>3 DEF Finish, Proceeds, Disconnect, client, io, host
  <2> QED BY <1>1, <1>3, <2>1, UnsaidHushes DEF Finish
<1> QED BY <1>2, <1>3

LEMMA HandlerVersion ==
    ASSUME IInv, Conversation, Version, NEW k \in Conns, HandleConnection(k)
    PROVE  Version'
<1>1. /\ {"error", "error:", "std_io_err"} \cup Codes \subseteq Messages \ {"good", "bad"}
  BY WinexeAssumption DEF Messages, Codes
<1>2. ASSUME NEW next, Moves(k, next), hpc[k] \notin Quiet \cup {"none"}, next # "none"
      PROVE  Version'
  BY <1>2, MovesProceeds, BusyVersion DEF Quiet
<1>3. ASSUME NEW next, NEW m \in Messages \ {"good", "bad"}, Says(k, m, next),
             hpc[k] \notin Quiet \cup {"none"}, next # "none", UNCHANGED <<inst, inbox>>
      PROVE  Version'
  BY <1>3, SaysProceeds, BusyVersion DEF Quiet
<1>4. CASE NoMemory(k) \/ Flush(k, "flushLost", "lost")
  BY <1>4, LostVersion
<1>5. CASE GetsEof(k) \/ GetVersion(k)
  BY <1>5, EofVersion, GetVersionVersion
<1>6. CASE SetSystem(k)
  <2>1. Proceeds(k, "gets") /\ reply' = reply /\ Hushes /\ Gets(k, "set system")
    BY <1>6 DEF SetSystem, Gets, Proceeds, Hushes, client, io, host, smb, Version, Instances,
            IInv, Types, ServiceTypes, Speak
  <2> QED BY <2>1, OtherLineVersion
<1>7. CASE UnknownCommand(k) \/ RunFails(k) \/ Run(k)
  <2>1. hpc[k] = "gets" /\ \A j \in Conns : j # k => inbox'[j] = inbox[j]
    BY <1>7 DEF UnknownCommand, RunFails, Run, Gets, IInv, Types, Speak
  <2>2. \A j \in Conns : <<"ctrl", j>> \in inst' <=> <<"ctrl", j>> \in inst
    BY <1>7 DEF UnknownCommand, RunFails, Run, DataPipes
  <2>3. PICK line \in {"abort", "run"}, next \in {"flushAnswer", "flushFailure", "flushPipes"},
             m \in {"error", "std_io_err"} :
          Gets(k, line) /\ Says(k, m, next)
    BY <1>7 DEF UnknownCommand, RunFails, Run
  <2>4. Proceeds(k, next) /\ Hprintf(k, m)
    BY <1>1, <2>1, <2>2, <2>3, SaysProceeds
  <2> QED BY <1>1, <2>3, <2>4, OtherLineVersion
<1>8. CASE \/ Flush(k, "flushAnswer", "gets") \/ Flush(k, "flushFailure", "finish")
           \/ Flush(k, "flushPipes", "connectIn") \/ Flush(k, "flushCode", "disconnect")
  BY <1>2, <1>8 DEF Flush, Quiet
<1>9. CASE \/ Connect(k, "in", "connectIn", "connectOut")
           \/ Connect(k, "out", "connectOut", "connectErr")
           \/ Connect(k, "err", "connectErr", "create")
           \/ FlushStream(k, "out", "flushOut", "flushErr")
           \/ FlushStream(k, "err", "flushErr", "code")
  BY <1>2, <1>9 DEF Connect, FlushStream, Quiet
<1>10. CASE CreateProcess(k) \/ Terminate(k) \/ ProcessDone(k)
  BY <1>2, <1>10 DEF CreateProcess, Terminate, ProcessDone, Quiet
<1>11. CASE \/ ConnectFails(k, "in", "connectIn") \/ ConnectFails(k, "out", "connectOut")
            \/ ConnectFails(k, "err", "connectErr") \/ CreateProcessFails(k)
  BY <1>1, <1>3, <1>11 DEF ConnectFails, CreateProcessFails, Quiet
<1>12. CASE ReturnCode(k)
  <2>1. ec \in Codes
    BY <1>12 DEF ReturnCode, IInv, Types, CodeKnown
  <2> QED BY <1>1, <1>3, <1>12, <2>1 DEF ReturnCode, Quiet
<1>13. CASE DisconnectData(k) \/ Finish(k)
  <2>1. hpc[k] \notin Quiet
    BY <1>13, DisconnectProceeds DEF Quiet
  <2> QED BY <1>13, <2>1, DisconnectProceeds, BusyVersion
<1> QED
  BY <1>4, <1>5, <1>6, <1>7, <1>8, <1>9, <1>10, <1>11, <1>12, <1>13 DEF HandleConnection

LEMMA NextVersion == IInv /\ Conversation /\ Version /\ [Next]_vars => Version'
<1> SUFFICES ASSUME IInv, Conversation, Version, [Next]_vars PROVE Version'
  OBVIOUS
<1> QED
  BY StepKinds, IdleVersion, LeavesVersion, StoppedVersion, TurnsVersion, OpenedVersion,
     AnswersVersion, ClosingVersion, TimerVersion, OpenVersion, HandlerVersion
  DEF Answering

LEMMA VersionHolds == Spec => [](IInv /\ Conversation /\ Version)
<1>1. IInv /\ Conversation /\ Version /\ [Next]_vars => (IInv /\ Conversation /\ Version)'
  BY NextInv, NextConverses, NextVersion
<1> QED BY <1>1, InitInv, InitConversation, InitVersion, PTL DEF Spec

\* winexe.c, on_ctrl_pipe_read and on_ctrl_pipe_close: only a service of another
\* version is removed for its version, however often the pipe is opened: no
\* answer of the right one, not even that it has no memory, is taken for the
\* answer of an old one, and none was asked by a pipe that is gone.
THEOREM RemovesOnlyOther == Spec => ReinstallsOnlyOther
<1>1. ASSUME IInv, Conversation, Version, [Next]_vars, flow # "reUninstall", flow' = "reUninstall"
      PROVE  exe # "good"
  <2>1. ~Idle /\ ~Leaves /\ ~Stopped
    BY <1>1 DEF Idle, Leaves, Stopped
  <2>2. ASSUME Answering \/ Timer \/ ServeCtrlOpen \/ \E k \in Conns : HandleConnection(k)
        PROVE  flow' = flow
    <3>1. \A k \in Conns : HandleConnection(k) => flow' = flow
      BY <1>1, HandlerSays
    <3>2. CtrlOpened \/ ReadBadVersion \/ Timer \/ ServeCtrlOpen => flow' = flow
      BY DEF Timer, ServeCtrlOpen, CtrlOpened, ReadBadVersion
    <3>3. ReadStdIoErr \/ ReadReturnCode \/ ReadOtherError \/ ReadGoodVersion => flow' = flow
      BY <1>1, AnswerReads
    <3> QED BY <2>2, <3>1, <3>2, <3>3 DEF Answering
  <2>3. Turns
    BY <1>1, <2>1, <2>2, StepKinds
  <2>4. state = "CLOSING_FOR_REINSTALL"
    BY <1>1, <2>3 DEF Turns
  <2> QED BY <1>1, <2>4 DEF Version, VersionSaid
<1>2. IInv /\ Conversation /\ Version /\ [Next]_vars
        => [flow # "reUninstall" /\ flow' = "reUninstall" => exe # "good"]_vars
  BY <1>1
<1> QED BY <1>2, VersionHolds, PTL DEF Spec, ReinstallsOnlyOther

-----------------------------------------------------------------------------
(* One reinstallation is enough, if the old file can be deleted.           *)

\* The file is never old again once it was deleted or replaced.
Replaced ==
    /\ ~registered => exe = "none"
    /\ flow = "reInstall" => exe = "none"
    /\ state = "OPENING" /\ Cur # 0 => exe # "bad"
    /\ nconn >= 2 => exe # "bad" /\ (Asking => None(wire, BadErr))
\* The connections that the client ever had.
Met == \A k \in Conns : <<"ctrl", k>> \in met <=> k <= nconn

Once == Replaced /\ Met

LEMMA InitOnce == Init => Once
<1> SUFFICES ASSUME Init PROVE Once
  OBVIOUS
<1>1. Cur = 0
  BY DEF Init, Cur, Pipes
<1>2. Met
  <2>1. \A k \in Conns : ~(k <= 0)
    BY ConnsNat DEF Conns
  <2> QED BY <2>1 DEF Init, Met
<1>3. /\ exe = FirstVersion /\ (registered <=> FirstVersion # "none")
      /\ nconn = 0 /\ flow \in {"mainUninstall", "mainInstall"}
  BY DEF Init
<1>4. ~(0 >= 2)
  OBVIOUS
<1>5. Replaced
  BY <1>1, <1>3, <1>4 DEF Replaced
<1> QED BY <1>2, <1>5 DEF Once

\* How the file on the host may change.
LEMMA InstallRenews ==
    ASSUME IInv, SvcInstall(TRUE, TRUE)
    PROVE  /\ exe' \in {exe, "good"}
           /\ registered' = TRUE \/ (UNCHANGED <<exe, registered>> /\ exe # "none")
BY DEF SvcInstall, IInv, Types, ServiceTypes

\* It may not become old, and is gone when the service is not registered.
LEMMA Renews ==
    ASSUME IInv, ~Sticky, ~registered => exe = "none",
           UNCHANGED <<exe, registered>> \/ SvcUninstall \/ SvcInstall(TRUE, TRUE)
    PROVE  /\ exe' = "bad" => exe = "bad"
           /\ ~registered' => exe' = "none"
<1>1. CASE SvcUninstall
  BY <1>1, Uninstalls DEF Unlinked
<1>2. CASE SvcInstall(TRUE, TRUE)
  BY <1>2, InstallRenews
<1> QED BY <1>1, <1>2

LEMMA IdleOnce ==
    ASSUME IInv, Conversation, Version, Once, Idle
    PROVE  Once'
<1>1. /\ UNCHANGED <<flow, state, nconn, exe, registered>> /\ Cur' = Cur
      /\ None(wire', BadErr) <=> None(wire, BadErr)
  BY VersionKinds DEF Idle, Cur, Unsaid
<1>2. Met'
  BY DEF Once, Met, Idle, SameCtrl
<1>3. Replaced'
  BY <1>1 DEF Once, Replaced, Asking
<1> QED BY <1>2, <1>3 DEF Once

LEMMA LeavesOnce ==
    ASSUME IInv, Conversation, Version, Once, Leaves, ~Sticky
    PROVE  Once'
<1>1. /\ UNCHANGED <<state, nconn, met>> /\ Cur' = Cur /\ ~Asking' /\ flow' # "reInstall"
  BY DEF Leaves, Cur, Asking
<1>2. /\ exe' = "bad" => exe = "bad"
      /\ ~registered' => exe' = "none"
  BY Renews DEF Leaves, Once, Replaced
<1>3. Replaced'
  BY <1>1, <1>2 DEF Once, Replaced
<1>4. Met'
  BY <1>1 DEF Once, Met
<1> QED BY <1>3, <1>4 DEF Once

LEMMA StoppedOnce ==
    ASSUME IInv, Conversation, Version, Once, Stopped, ~Sticky
    PROVE  Once'
<1>1. /\ UNCHANGED <<state, nconn, met>> /\ Cur' = Cur /\ (Asking' => Asking)
      /\ None(wire', BadErr) <=> None(wire, BadErr)
  BY VersionKinds DEF Stopped, Cur, Asking, Unsaid
<1>2. UNCHANGED <<exe, registered>> \/ exe' = "none"
  BY DEF Stopped, Unlinked
<1>3. flow' = "reInstall" => flow = "reInstall" \/ exe' = "none"
  BY DEF Stopped, Unlinked, Once, Replaced
<1>4. Replaced'
  BY <1>1, <1>2, <1>3 DEF Once, Replaced
<1>5. Met'
  BY <1>1 DEF Once, Met
<1> QED BY <1>4, <1>5 DEF Once

LEMMA TurnsOnce ==
    ASSUME IInv, Conversation, Version, Once, Turns, ~Sticky
    PROVE  Once'
<1>1. UNCHANGED <<nconn, met>> /\ Cur' = Cur /\ ~Asking' /\ flow' # "reInstall"
  BY DEF Turns, Cur, Asking, Conversation, Phases, Opened, InMain
<1>2. /\ exe' = "bad" => exe = "bad"
      /\ ~registered' => exe' = "none"
  BY Renews DEF Turns, Once, Replaced
<1>3. state' = "OPENING" => state = "OPENING" \/ flow = "reInstall"
  BY DEF Turns
<1>4. Replaced'
  BY <1>1, <1>2, <1>3 DEF Once, Replaced
<1>5. Met'
  BY <1>1 DEF Once, Met
<1> QED BY <1>4, <1>5 DEF Once

LEMMA AnsweringOnce ==
    ASSUME IInv, Conversation, Version, Once, Answering
    PROVE  Once'
<1>1. CASE CtrlOpened
  <2>1. /\ UNCHANGED <<flow, met, nconn, exe, registered>> /\ flow = "loop"
        /\ state' = "GETTING_VERSION"
    BY <1>1, OpenedReads
  <2>2. None(wire', BadErr)
    BY <1>1, OpenedSilent
  <2> QED BY <2>1, <2>2 DEF Once, Replaced, Met
<1>2. CASE ReadBadVersion
  <2>1. /\ UNCHANGED <<flow, met, nconn, exe, registered>> /\ state' = "CLOSING_FOR_REINSTALL"
    BY <1>2 DEF ReadBadVersion, host
  <2> QED BY <2>1 DEF Once, Replaced, Met, Asking
<1>3. CASE ReadStdIoErr \/ ReadReturnCode \/ ReadOtherError \/ ReadGoodVersion
  <2>1. /\ UNCHANGED <<flow, fd, met, nconn, exe, registered>> /\ flow = "loop" /\ Talking
        /\ ~ReadGoodVersion => state' = state
        /\ ReadGoodVersion => state' = "RUNNING"
    BY <1>3, AnswerReads
  <2>2. Asking' => Asking /\ ~ReadGoodVersion
    BY <2>1 DEF Asking
  <2>3. Asking' => None(wire', BadErr)
    BY <1>3, <2>2, UnaskedSilent
  <2> QED BY <2>1, <2>3 DEF Once, Replaced, Met, Talking
<1> QED BY <1>1, <1>2, <1>3 DEF Answering

\* The failure of a write is no answer, nor is that of an open.
LEMMA TimerUnsaid == ASSUME IInv, Conversation, Timer PROVE Unsaid
<1> DEFINE h == Cached(ioWrite, "ctrl", fd["ctrl"])
<1>1. h \in 0..MaxConn /\ wire' = WriteFails(h, wire)
  BY DEF Timer, Cached, IInv, Types, HandleTypes, Pipes
<1> HIDE DEF h
<1>2. Agree(WriteFails(h, wire), wire, Refusals)
  BY <1>1, WriteFailsAdds DEF Conversation
<1>3. \A S : S \subseteq CtrlSays => Apart(S, Refusals)
  BY RefusalsApart DEF Apart
<1> QED BY <1>1, <1>2, <1>3 DEF Agree, Unsaid

LEMMA OpenUnsaid == ASSUME IInv, Conversation, ServeCtrlOpen PROVE Unsaid
<1>1. PICK k \in 0..MaxConn, result \in {"done", "notfound", "busy"} :
        wire' = Append(wire, Reply("open", "ctrl", k, result))
  BY ConnsNat DEF ServeCtrlOpen
<1>2. /\ Reply("open", "ctrl", k, result) \in Said
      /\ Reply("open", "ctrl", k, result) \notin CtrlSays
  <2>1. /\ Reply("open", "ctrl", k, result) \in Said
        /\ Reply("open", "ctrl", k, result).what = "open"
    BY Replying, Distinct DEF Pipes
  <2> QED BY <2>1, Kinds
<1> QED BY <1>1, <1>2, Puts DEF Conversation, Unsaid

LEMMA TimerOnce ==
    ASSUME IInv, Conversation, Version, Once, Timer
    PROVE  Once'
<1>1. UNCHANGED <<flow, state, fd, met, nconn, exe, registered>>
  BY DEF Timer, host
<1>2. None(wire', BadErr) <=> None(wire, BadErr)
  BY TimerUnsaid, VersionKinds DEF Unsaid
<1> QED BY <1>1, <1>2 DEF Once, Replaced, Met, Asking, Cur

LEMMA OpenOnce ==
    ASSUME IInv, Conversation, Version, Once, ServeCtrlOpen
    PROVE  Once'
<1>1. /\ UNCHANGED <<flow, state, fd, exe, registered>>
      /\ opening # <<>> /\ Head(opening) = "ctrl"
  BY DEF ServeCtrlOpen, client
<1>2. state = "OPENING" /\ Opening /\ Up
  <2>1. Up
    BY <1>1 DEF Conversation, Phases
  <2>2. opening \notin Seq(DataPipes)
    BY <1>1 DEF DataPipes
  <2> QED BY <2>1, <2>2 DEF Conversation, Phases, Opened
<1>3. Cur = nconn /\ nconn \in 0..MaxConn
  BY <1>1, <1>2, NoOpens DEF Opening, Conversation, Numbered
<1>4. CASE loop = "listen"
  <2>1. nconn + 1 \in Conns /\ nconn' = nconn + 1 /\ met' = met \cup {<<"ctrl", nconn + 1>>}
    BY <1>4 DEF ServeCtrlOpen
  <2>2. \A k \in Conns : k <= nconn + 1 <=> k <= nconn \/ k = nconn + 1
    BY <1>3, ConnsNat DEF Conns
  <2>3. Met'
    BY <2>1, <2>2 DEF Once, Met
  <2>4. nconn' >= 2 => Cur # 0
    BY <1>3, <2>1, ConnsNat
  <2>5. Replaced'
    BY <1>1, <1>2, <2>4 DEF Once, Replaced, Asking, Cur
  <2> QED BY <2>3, <2>5 DEF Once
<1>5. CASE loop # "listen"
  <2>1. UNCHANGED <<nconn, met>>
    BY <1>5 DEF ServeCtrlOpen
  <2> QED BY <1>1, <1>2, <2>1 DEF Once, Replaced, Met, Asking, Cur
<1> QED BY <1>4, <1>5

\* While the version is awaited a handler says that it has no memory, or answers.
LEMMA AskingHandler ==
    ASSUME IInv, Conversation, Version, Asking, NEW k \in Conns, HandleConnection(k)
    PROVE  \/ Hushes
           \/ <<"ctrl", k>> \in pending /\ (Tells(k, "error:") \/ GetVersion(k))
<1>1. CASE <<"ctrl", k>> \notin pending
  <2>1. CASE \E message \in Messages : Hprintf(k, message)
    BY <1>1, <2>1 DEF Hprintf, Hushes
  <2>2. ASSUME NEW ps \in SUBSET Pipes, Disconnect(k, ps) PROVE Hushes
    BY <2>2, DisconnectAside, AsideUnsaid, UnsaidHushes DEF Conversation
  <2> QED BY <2>1, <2>2, HandlerSays DEF Hushes
<1>2. CASE <<"ctrl", k>> \in pending
  <2>1. k = Cur /\ None(wire, VersionAnswers)
    BY <1>2, VersionKinds, NoneSub DEF Conversation, Waiting
  <2>2. /\ hpc[k] \in Quiet
        /\ hpc[k] = "gets" => inbox[k] = <<>> \/ Head(inbox[k]) = "get version"
    BY <2>1 DEF Version, Unanswered, Asked
  <2>3. NoMemory(k) \/ Flush(k, "flushLost", "lost") \/ GetsEof(k) \/ GetVersion(k)
    <3>1. ~(SetSystem(k) \/ UnknownCommand(k) \/ Run(k) \/ RunFails(k))
      BY <2>2 DEF SetSystem, UnknownCommand, Run, RunFails, Gets
    <3> QED BY <2>2, <3>1
            DEF HandleConnection, Quiet, Flush, Connect, ConnectFails, CreateProcess,
                CreateProcessFails, Terminate, ProcessDone, FlushStream, ReturnCode,
                DisconnectData, Finish
  <2>4. CASE NoMemory(k)
    <3>1. "error:" \in Messages
      BY DEF Messages
    <3> QED BY <1>2, <2>4, <3>1, HprintfTells DEF NoMemory, Says
  <2>5. CASE Flush(k, "flushLost", "lost") \/ GetsEof(k)
    BY <2>5 DEF Flush, GetsEof, Moves, smb, Hushes
  <2> QED BY <1>2, <2>3, <2>4, <2>5
<1> QED BY <1>1, <1>2

\* Only the handler of an old service says that it is of another version.
LEMMA HandlerOnce ==
    ASSUME IInv, Conversation, Version, Once, NEW k \in Conns, HandleConnection(k)
    PROVE  Once'
<1>1. UNCHANGED <<flow, state, fd, met, nconn, exe, registered>>
  BY HandlerSays DEF client, host
<1>2. ASSUME Asking, None(wire, BadErr), exe # "bad" PROVE None(wire', BadErr)
  <2>1. {"bad", "error"} \subseteq Messages /\ "good" \in Messages
    BY DEF Messages
  <2>2. CASE Hushes
    BY <1>2, <2>1, <2>2 DEF Hushes, BadErr
  <2>3. CASE Tells(k, "error:")
    BY <1>2, <2>1, <2>3 DEF Tells, BadErr
  <2>4. CASE GetVersion(k)
    <3>1. exe = "good"
      <4>1. hpc[k] = "gets"
        BY <2>4 DEF GetVersion, Gets
      <4> QED BY <1>2, <4>1 DEF IInv, Types, ServiceTypes, HasFile, HasService
    <3>2. Tells(k, "good")
      BY <2>1, <2>4, <3>1, HprintfTells DEF GetVersion, Says
    <3> QED BY <1>2, <2>1, <3>2 DEF Tells, BadErr
  <2> QED BY <1>2, <2>2, <2>3, <2>4, AskingHandler
<1> QED BY <1>1, <1>2 DEF Once, Replaced, Met, Asking, Cur

\* The client has no end that it did not open.
Had == ends \subseteq met /\ met \subseteq Ends

LEMMA EndsHad ==
    ASSUME IInv, [Next]_vars
    PROVE  \/ met' = met /\ ends' \subseteq ends
           \/ \E e \in Ends : met' = met \cup {e} /\ ends' = ends \cup {e}
<1>1. CASE UNCHANGED vars
  BY <1>1 DEF vars, smb
<1>2. CASE Client
  <2>1. CASE Callback
    BY <2>1
    DEF Callback, CtrlOpened, DataOpened, CtrlOpenFailed, DataFailed, DataRead, ReadStdIoErr,
        ReadReturnCode, ReadGoodVersion, ReadBadVersion, ReadOtherError, CtrlFailed, CloseDone,
        ExitProgram, ClientGone
  <2>2. CASE Blocked
    BY <2>2
    DEF Blocked, MainUninstall, MainInstall, ErrorInstall, ReUninstall, ReInstall, ExitUninstall,
        SvcInstall, ExitProgram, ClientGone
  <2>3. CASE Timer
    BY <2>3 DEF Timer
  <2> QED BY <1>2, <2>1, <2>2, <2>3 DEF Client
<1>3. CASE ServerLoop \/ Command \/ Environment
  BY <1>3
  DEF ServerLoop, CreateInstance, LoopEnds, Command, Exit, Produce, Environment, Signal,
      RequestTimesOut, OtherClient, ServiceDies, ExitProgram, ClientGone, smb
<1>4. CASE ServeCtrlOpen
  <2>1. CASE loop = "listen"
    <3>1. <<"ctrl", nconn + 1>> \in Ends
      BY <1>4, <2>1 DEF ServeCtrlOpen, Ends, Pipes
    <3> QED BY <1>4, <2>1, <3>1 DEF ServeCtrlOpen
  <2> QED BY <1>4, <2>1 DEF ServeCtrlOpen
<1>5. CASE ServeDataOpen
  <2>1. inst \subseteq Ends
    BY DEF IInv, Types, EndTypes
  <2> QED BY <1>5, <2>1 DEF ServeDataOpen
<1>6. ASSUME NEW k \in Conns, HandleConnection(k) PROVE UNCHANGED <<met, ends>>
  BY <1>6, HandlerSays
<1> QED BY <1>1, <1>2, <1>3, <1>4, <1>5, <1>6 DEF Next, SmbServer

LEMMA HadHolds == Spec => []Had
<1>1. Init => Had
  BY DEF Init, Had
<1>2. IInv /\ Had /\ [Next]_vars => Had'
  BY EndsHad DEF Had
<1> QED BY <1>1, <1>2, Invariant, PTL DEF Spec

LEMMA NextOnce == IInv /\ Conversation /\ Version /\ Once /\ ~Sticky /\ [Next]_vars => Once'
<1> SUFFICES ASSUME IInv, Conversation, Version, Once, ~Sticky, [Next]_vars PROVE Once'
  OBVIOUS
<1> QED
  BY StepKinds, IdleOnce, LeavesOnce, StoppedOnce, TurnsOnce, AnsweringOnce, TimerOnce, OpenOnce,
     HandlerOnce

LEMMA OnceHolds == ~Sticky => (Spec => [](IInv /\ Conversation /\ Version /\ Once))
<1>1. ~Sticky /\ IInv /\ Conversation /\ Version /\ Once /\ [Next]_vars
        => (IInv /\ Conversation /\ Version /\ Once)'
  BY NextInv, NextConverses, NextVersion, NextOnce
<1>2. Init => IInv /\ Conversation /\ Version /\ Once
  BY InitInv, InitConversation, InitVersion, InitOnce
<1>3. ASSUME ~Sticky PROVE Spec => [](IInv /\ Conversation /\ Version /\ Once)
  <2>1. IInv /\ Conversation /\ Version /\ Once /\ [Next]_vars
          => (IInv /\ Conversation /\ Version /\ Once)'
    BY <1>1, <1>3
  <2> QED BY <1>2, <2>1, PTL DEF Spec
<1> QED BY <1>3

\* winexe.c, on_ctrl_pipe_read, and service.c, svc_uninstall: if the old file can
\* be deleted, the service is reinstalled for its version at most once, whatever
\* other clients do to the service meanwhile: the pipe that is closed for a
\* reinstallation is the first that the client ever opened.
THEOREM ReinstallsOnce == ~Sticky => (Spec => ReinstalledOnce)
<1>1. ASSUME IInv, Conversation, Version, Once, Had, ReadBadVersion PROVE OneConnection
  <2>1. Asking /\ ~None(wire, BadErr)
    BY <1>1, ClosingOther
  <2>2. nconn = 1
    <3>1. ~(nconn >= 2)
      BY <1>1, <2>1 DEF Once, Replaced
    <3>2. nconn = Cur /\ nconn \in Conns
      BY <1>1, <2>1, CurrentConn DEF Asking, Conversation, Phases, Opened
    <3> QED BY <3>1, <3>2 DEF Conns
  <2>3. {e \in met : e[1] = "ctrl"} = {<<"ctrl", 1>>}
    <3>1. <<"ctrl", 1>> \in met
      BY <1>1, <2>2, ConnsNat, WinexeAssumption DEF Once, Met, Conns
    <3>2. ASSUME NEW e \in met, e[1] = "ctrl" PROVE e = <<"ctrl", 1>>
      <4>1. PICK k \in Conns : e = <<"ctrl", k>>
        BY <1>1, <3>2 DEF Had, Ends
      <4>2. k <= 1 /\ k \in Nat /\ k # 0
        BY <1>1, <2>2, <3>2, <4>1 DEF Once, Met, Conns
      <4> QED BY <4>1, <4>2
    <3> QED BY <3>1, <3>2
  <2> QED BY <2>3, FS_Singleton DEF OneConnection
<1>2. ASSUME ~Sticky PROVE Spec => ReinstalledOnce
  <2>1. IInv /\ Conversation /\ Version /\ Once /\ Had /\ [Next]_vars
          => [ReadBadVersion => OneConnection]_vars
    BY <1>1
  <2> QED BY <1>2, <2>1, OnceHolds, HadHolds, PTL DEF Spec, ReinstalledOnce
<1> QED BY <1>2

-----------------------------------------------------------------------------
(* The command is started once, and its code is earned.                    *)

RunLine == {"run"}
Others == {"get version", "set system"}
NotAbort == Lines \ {"abort"}

\* Lines of which at most one is the command, with nothing after it but aborts.
Orders(w) == One(w, RunLine) /\ Before(w, Others, RunLine)

After == {"wait", "flushOut", "flushErr", "code"}
Stage == Path \cup After \cup {"flushCode", "disconnect"}

\* The command waits in the current pipe of a client that sent it, once, and
\* nobody aborts but who was asked to.
Ordered ==
    \A k \in Conns :
        /\ Orders(inbox[k])
        /\ None(inbox[k], RunLine) \/ (k = Cur /\ state = "RUNNING" /\ proc = "none")
        /\ None(inbox[k], {"abort"}) \/ abort

\* Who runs a command, or is about to, is the handler of the current pipe.
Staged ==
    \A k \in Conns :
        /\ hpc[k] \in Stage => k = Cur /\ state = "RUNNING" /\ None(inbox[k], NotAbort)
        /\ hpc[k] \in Path => proc = "none"
        /\ hpc[k] \in After => proc # "none"
        /\ hpc[k] = "wait" => ec = "none"

\* What becomes of the command.
Started ==
    /\ proc \in {"none", "running", "exited", "terminated"}
    /\ proc = "none" => owner = 0 /\ starts = 0 /\ ec = "none"
    /\ proc # "none" =>
          owner = Cur /\ starts = 1 /\ state = "RUNNING" /\ None(inbox[Cur], NotAbort)
    /\ ec \in Codes => proc \in {"exited", "terminated"} /\ (ec = ExitCode => proc = "exited")
    /\ Up /\ ec = "0x1234" => abort

\* Nobody tells another code than that of the command, and 0x1234 only after an
\* abort.
Earned(r) == r = ec /\ (r = "0x1234" => abort)
Unearned == {r \in Codes : ~Earned(r)}
Result ==
    /\ \A k \in Conns : reply[k] \notin Unearned
    /\ None(wire, Of("read", "ctrl", Unearned))
    /\ rc \notin Unearned
    /\ rc \in {"rc99", "rc1"} \cup Codes

Commanded == Ordered /\ Staged /\ Started /\ Result

LEMMA OrdersTail ==
    ASSUME NEW w \in Seq(Lines), w # <<>>
    PROVE  /\ Tail(w) \in Seq(Lines)
           /\ Orders(w) => Orders(Tail(w)) /\ (Head(w) = "run" => None(Tail(w), NotAbort))
           /\ \A S : None(w, S) => None(Tail(w), S)
<1>1. ASSUME Orders(w) PROVE Orders(Tail(w)) /\ (Head(w) = "run" => None(Tail(w), NotAbort))
  <2>1. /\ One(Tail(w), RunLine) /\ Before(Tail(w), Others, RunLine)
        /\ Head(w) = "run" => None(Tail(w), RunLine) /\ None(Tail(w), Others)
    BY <1>1, OneTail, BeforeTail DEF Orders, RunLine
  <2>2. NotAbort = RunLine \cup Others
    BY DEF NotAbort, Lines, RunLine, Others
  <2> QED BY <2>1, <2>2 DEF Orders, None
<1> QED BY <1>1, NoneTail, Dropping

LEMMA OrdersAbort ==
    ASSUME NEW w \in Seq(Lines)
    PROVE  /\ Orders(w) => Orders(w \o <<"abort">>)
           /\ \A S : None(w, S) /\ "abort" \notin S => None(w \o <<"abort">>, S)
<1>1. "abort" \in Lines /\ <<"abort">> \in Seq(Lines)
  <2>1. "abort" \in Lines
    BY DEF Lines
  <2> QED BY <2>1, Listing
<1>2. None(<<"abort">>, RunLine) /\ None(<<"abort">>, Others)
  BY OneLine DEF RunLine, Others
<1>3. Orders(w) => Orders(w \o <<"abort">>)
  BY <1>1, <1>2, NoneJoin, BeforeJoin DEF Orders
<1>4. ASSUME NEW S, None(w, S), "abort" \notin S PROVE None(w \o <<"abort">>, S)
  BY <1>1, <1>4, OneLine, NoneJoin
<1> QED BY <1>3, <1>4

LEMMA JoinTwo ==
    ASSUME NEW X, NEW w \in Seq(X), NEW a \in X, NEW b \in X
    PROVE  w \o <<a, b>> = Append(Append(w, a), b)
<1> DEFINE u == <<a, b>>
           v == Append(Append(w, a), b)
<1>1. Len(u) = 2 /\ u[1] = a /\ u[2] = b /\ Len(w) \in Nat /\ u \in Seq(X)
  OBVIOUS
<1>2. v \in Seq(X) /\ w \o u \in Seq(X) /\ Len(w \o u) = Len(w) + 2 /\ Len(v) = Len(w) + 2
  BY <1>1
<1>3. ASSUME NEW i \in 1..(Len(w) + 2) PROVE (w \o u)[i] = v[i]
  <2>1. CASE i \in 1..Len(w)
    BY <1>1, <2>1
  <2>2. CASE i = Len(w) + 1
    BY <1>1, <2>2
  <2>3. CASE i = Len(w) + 2
    BY <1>1, <2>3
  <2> QED BY <1>1, <2>1, <2>2, <2>3
<1> QED BY <1>1, <1>2, <1>3

LEMMA OrdersRun ==
    ASSUME NEW w \in Seq(Lines), None(w, RunLine)
    PROVE  /\ Orders(w)
           /\ Orders(w \o <<"set system", "run">>)
           /\ None(w, {"abort"}) => None(w \o <<"set system", "run">>, {"abort"})
<1> DEFINE v == Append(w, "set system")
<1>1. "set system" \in Lines /\ "run" \in Lines
  BY DEF Lines
<1>2. w \o <<"set system", "run">> = Append(v, "run")
  <2>1. \A a, b \in Lines : w \o <<a, b>> = Append(Append(w, a), b)
    BY JoinTwo
  <2> QED BY <1>1, <2>1
<1>3. v \in Seq(Lines) /\ None(v, RunLine) /\ (None(w, {"abort"}) => None(v, {"abort"}))
  <2>1. v \in Seq(Lines)
    BY <1>1, Appending
  <2>2. \A S : None(v, S) <=> None(w, S) /\ "set system" \notin S
    BY NoneAppend
  <2> QED BY <2>1, <2>2 DEF RunLine
<1> HIDE DEF v
<1>4. None(w, RunLine) /\ None(v, RunLine) => Orders(w) /\ Orders(v)
  BY DEF Orders, None, One, Before
<1>5. One(Append(v, "run"), RunLine) /\ Before(Append(v, "run"), Others, RunLine)
  BY <1>3, <1>4, OneAppend, BeforeAppend DEF Orders, RunLine, Others
<1>6. None(v, {"abort"}) => None(Append(v, "run"), {"abort"})
  BY <1>3, NoneAppend
<1> QED BY <1>2, <1>3, <1>4, <1>5, <1>6 DEF Orders

LEMMA WritesLines ==
    ASSUME IInv, NEW h, NEW lines, Written(h, lines)
    PROVE  \A k \in Conns :
              \/ inbox'[k] = inbox[k]
              \/ k = h /\ <<"ctrl", k>> \in ends /\ inbox'[k] = inbox[k] \o lines
BY DEF IInv, Types, Speak, Written, Open

LEMMA InitCommanded == Init => Commanded
<1> SUFFICES ASSUME Init PROVE Commanded
  OBVIOUS
<1>1. \A S : None(<<>>, S) /\ One(<<>>, S)
  BY Silence
<1>2. \A S, T : Before(<<>>, T, S)
  BY DEF Before
<1>3. Ordered
  BY <1>1, <1>2 DEF Init, Ordered, Orders
<1>4. Staged
  BY DEF Init, Staged, Stage, Path, After
<1>5. "none" \notin Codes /\ "rc99" \notin Codes
  BY WinexeAssumption DEF Codes
<1>6. Started
  BY <1>5 DEF Init, Started
<1>7. Result
  BY <1>1, <1>5 DEF Init, Result, Unearned
<1> QED BY <1>3, <1>4, <1>6, <1>7 DEF Commanded

-----------------------------------------------------------------------------
\* Steps that do not run the command.

\* The process may end meanwhile, and a handler be gone.
Runs ==
    /\ UNCHANGED <<owner, ec, starts>>
    /\ proc' = proc \/ (proc = "running" /\ proc' = "exited")
    /\ abort => abort'
    /\ Up' => Up
    /\ state = "RUNNING" => state' = "RUNNING" /\ Cur' = Cur
    /\ \A k \in Conns : hpc'[k] = hpc[k] \/ hpc'[k] \notin Stage

LEMMA RunsOrdered ==
    ASSUME IInv, Commanded, Runs, UNCHANGED inbox
    PROVE  Ordered'
BY DEF Commanded, Ordered, Runs

LEMMA RunsStaged ==
    ASSUME IInv, Commanded, Runs,
           state = "RUNNING" /\ Cur \in Conns /\ None(inbox[Cur], NotAbort) =>
              None(inbox'[Cur], NotAbort)
    PROVE  Staged'
<1>1. Path \subseteq Stage /\ After \subseteq Stage /\ "wait" \in Stage
  BY DEF Stage, After
<1>2. proc' = "none" <=> proc = "none"
  BY DEF Runs
<1> QED BY <1>1, <1>2 DEF Commanded, Staged, Runs

LEMMA RunsStarted ==
    ASSUME IInv, Conversation, Commanded, Runs,
           state = "RUNNING" /\ Cur \in Conns /\ None(inbox[Cur], NotAbort) =>
              None(inbox'[Cur], NotAbort)
    PROVE  Started'
<1>1. "none" \notin Codes
  BY WinexeAssumption DEF Codes
<1>2. proc' = "none" <=> proc = "none"
  BY DEF Runs
<1>3. state = "RUNNING" => Cur \in Conns
  BY CurrentConn
<1> QED BY <1>1, <1>2, <1>3 DEF Commanded, Started, Runs

\* What was earned stays earned.
LEMMA EarnedStays ==
    ASSUME IInv, ec' = ec \/ ec = "none", abort => abort'
    PROVE  /\ Unearned' \subseteq Unearned /\ Unearned \subseteq Codes
           /\ Unearned' \subseteq Messages /\ Unearned \subseteq Messages
           /\ Of("read", "ctrl", Unearned') \subseteq Of("read", "ctrl", Unearned)
<1>1. Unearned' \subseteq Unearned /\ Unearned \subseteq Codes /\ Codes \subseteq Messages
  BY WinexeAssumption DEF Unearned, Earned, Codes, Messages
<1> QED BY <1>1 DEF Of

\* None of X is told.
Quiets(X) ==
    /\ \A k \in Conns : reply'[k] = reply[k] \/ reply'[k] \notin X
    /\ \A R : R \subseteq X =>
          (None(wire, Of("read", "ctrl", R)) => None(wire', Of("read", "ctrl", R)))

LEMMA QuietsResult ==
    ASSUME IInv, Commanded, Quiets(Codes), rc' \in {rc, "rc1"}, ec' = ec \/ ec = "none",
           abort => abort'
    PROVE  Result'
<1>1. /\ Unearned' \subseteq Unearned /\ Unearned \subseteq Codes
      /\ Of("read", "ctrl", Unearned') \subseteq Of("read", "ctrl", Unearned)
  BY EarnedStays
<1>2. None(wire', Of("read", "ctrl", Unearned'))
  <2>1. None(wire', Of("read", "ctrl", Unearned))
    BY <1>1 DEF Commanded, Result, Quiets
  <2> QED BY <1>1, <2>1, NoneSub
<1>3. "rc1" \notin Codes
  BY WinexeAssumption DEF Codes
<1> QED BY <1>1, <1>2, <1>3 DEF Commanded, Result, Quiets

LEMMA UnsaidQuiets ==
    ASSUME Unsaid, UNCHANGED reply, NEW X \in SUBSET Messages
    PROVE  Quiets(X)
<1>1. \A R : R \subseteq X => Of("read", "ctrl", R) \subseteq CtrlSays
  BY DEF CtrlSays, Of
<1> QED BY <1>1 DEF Unsaid, Quiets

LEMMA CodesSaid == Codes \in SUBSET Messages
BY DEF Messages

LEMMA IdleCommanded ==
    ASSUME IInv, Conversation, Version, Commanded, Idle \/ Leaves \/ Stopped \/ Turns
    PROVE  Commanded'
<1>1. Runs /\ UNCHANGED <<inbox, reply>> /\ rc' \in {rc, "rc1"}
  <2>1. state = "RUNNING" => state' = "RUNNING"
    BY DEF Idle, Leaves, Stopped, Turns, Conversation, Phases, Talking, Reinstalling
  <2>2. "gone" \notin Stage /\ "none" \notin Stage
    BY DEF Stage, Path, After
  <2>3. \A k \in Conns : hpc'[k] = hpc[k] \/ hpc'[k] \notin Stage
    <3>1. SvcUninstall => ServiceStays
      BY Uninstalls
    <3>2. hpc' = hpc \/ ServiceStays
      BY <3>1 DEF Idle, Leaves, Stopped, Turns, ServiceStays
    <3> QED BY <2>2, <3>2 DEF ServiceStays
  <2>4. /\ UNCHANGED <<owner, ec, starts, inbox, reply>> /\ Cur' = Cur
        /\ proc' = proc \/ (proc = "running" /\ proc' = "exited")
    BY DEF Idle, Leaves, Stopped, Turns, Cur
  <2>6. abort => abort'
    BY DEF Idle, Leaves, Stopped, Turns
  <2>5. (Up' => Up) /\ rc' \in {rc, "rc1"}
    BY DEF Idle, Leaves, Stopped, Turns, Up
  <2> QED BY <2>1, <2>3, <2>4, <2>5, <2>6 DEF Runs
<1>2. Quiets(Codes)
  <2>1. CASE Unsaid
    BY <1>1, <2>1, UnsaidQuiets, CodesSaid
  <2>2. CASE Leaves
    <3>1. \A R : R \subseteq Codes => Of("read", "ctrl", R) \subseteq CtrlSays
      BY DEF CtrlSays, Of, Messages
    <3> QED BY <1>1, <2>2, <3>1 DEF Leaves, Quiets
  <2> QED BY <2>1, <2>2 DEF Idle, Stopped, Turns
<1>3. Ordered' /\ Staged' /\ Started'
  BY <1>1, RunsOrdered, RunsStaged, RunsStarted
<1>4. Result'
  BY <1>1, <1>2, QuietsResult DEF Runs
<1> QED BY <1>3, <1>4 DEF Commanded

\* A read of the control pipe takes what was earned.
LEMMA ReadsResult ==
    ASSUME IInv, Commanded, NEW h \in 0..MaxConn, NEW w \in Seq(Said), CtrlReads(h, w),
           None(w, CtrlSays), ec' = ec, abort => abort',
           rc' \notin Unearned, rc' \in {"rc99", "rc1"} \cup Codes
    PROVE  Result'
<1>1. /\ Unearned' \subseteq Unearned
      /\ Unearned \subseteq Codes /\ Unearned \subseteq Messages
      /\ Of("read", "ctrl", Unearned') \subseteq Of("read", "ctrl", Unearned)
  BY EarnedStays
<1>2. /\ \A k \in Conns : reply'[k] \in {reply[k], "none"}
      /\ None(wire', Of("read", "ctrl", Unearned)) <=>
            /\ None(w, Of("read", "ctrl", Unearned))
            /\ h \in Conns /\ <<"ctrl", h>> \in ends => reply[h] \notin Unearned
  BY <1>1, ReadTakes
<1>3. None(w, Of("read", "ctrl", Unearned))
  BY <1>1, NoneSub DEF CtrlSays, Of
<1>4. None(wire', Of("read", "ctrl", Unearned'))
  <2>1. None(wire', Of("read", "ctrl", Unearned))
    BY <1>2, <1>3 DEF Commanded, Result
  <2> QED BY <1>1, <2>1, NoneSub
<1>5. "none" \notin Codes
  BY WinexeAssumption DEF Codes
<1> QED BY <1>1, <1>2, <1>4, <1>5 DEF Commanded, Result

LEMMA AskedCommanded ==
    ASSUME IInv, Conversation, Version, Commanded, CtrlOpened
    PROVE  Commanded'
<1>1. /\ UNCHANGED <<flow, rc, abort, hpc, proc, owner, ec, starts>>
      /\ state = "OPENING" /\ nconn \in Conns
      /\ inbox' = inbox \/ Written(nconn, <<"get version">>)
  BY OpenedReads
<1>2. PICK w \in Seq(Said) : CtrlReads(nconn, w) /\ None(w, CtrlSays)
  BY OpenedReads
<1>3. Runs
  BY <1>1 DEF Runs, Up
<1>4. /\ <<"get version">> \in Seq(Lines)
      /\ \A S : "get version" \notin S => None(<<"get version">>, S)
  <2>1. "get version" \in Lines
    BY DEF Lines
  <2> QED BY <2>1, Listing, OneLine
<1>5. ASSUME NEW k \in Conns, NEW S, "get version" \notin S, None(inbox[k], S)
      PROVE  None(inbox'[k], S) /\ inbox'[k] \in Seq(Lines)
  <2>1. inbox[k] \in Seq(Lines)
    BY DEF IInv, Types, Speak
  <2>2. inbox'[k] = inbox[k] \/ inbox'[k] = inbox[k] \o <<"get version">>
    BY <1>1, WritesLines
  <2> QED BY <1>4, <1>5, <2>1, <2>2, NoneJoin, Joining
<1>6. Ordered'
  <2>1. \A k \in Conns : None(inbox[k], RunLine) /\ (None(inbox[k], {"abort"}) \/ abort)
    BY <1>1 DEF Commanded, Ordered
  <2>2. \A k \in Conns : /\ None(inbox'[k], RunLine) /\ inbox'[k] \in Seq(Lines)
                         /\ None(inbox'[k], {"abort"}) \/ abort
    BY <1>5, <2>1 DEF RunLine
  <2> QED BY <1>1, <2>2, OrdersRun DEF Ordered
<1>7. Staged' /\ Started'
  BY <1>1, <1>3, RunsStaged, RunsStarted
<1>8. Result'
  <2>1. nconn \in 0..MaxConn
    BY <1>1, ConnsNat
  <2> QED BY <1>1, <1>2, <2>1, ReadsResult DEF Commanded, Result
<1> QED BY <1>6, <1>7, <1>8 DEF Commanded

LEMMA AnswersCommanded ==
    ASSUME IInv, Conversation, Version, Commanded,
           ReadStdIoErr \/ ReadReturnCode \/ ReadOtherError \/ ReadGoodVersion
    PROVE  Commanded'
<1>1. /\ UNCHANGED <<flow, abort, fd, hpc, proc, owner, ec, starts>>
      /\ wire # <<>> /\ flow = "loop" /\ Cur \in Conns
      /\ \A R : Head(wire) \in Of("read", "ctrl", R) <=> Head(wire).result \in R
      /\ ~ReadGoodVersion => UNCHANGED <<state, inbox>>
      /\ ReadGoodVersion =>
            /\ state' = "RUNNING"
            /\ \E h \in 0..MaxConn : h <= Cur /\ Written(h, <<"set system", "run">>)
  BY AnswerReads
<1>2. PICK w \in Seq(Said) : CtrlReads(Cur, w) /\ None(w, CtrlSays)
  BY AnswerReads
<1>3. \A S : None(wire, S) => Head(wire) \notin S
  BY <1>1, Hears
<1>4. Runs
  BY <1>1 DEF Runs, Up, Cur
<1>5. Result'
  <2>1. Head(wire).result \notin Unearned
    BY <1>1, <1>3 DEF Commanded, Result
  <2>2. rc' = rc \/ (rc' = Head(wire).result /\ rc' \in Codes)
    BY DEF ReadStdIoErr, ReadReturnCode, ReadOtherError, ReadGoodVersion, client, Handles, Codes
  <2>3. rc' \notin Unearned /\ rc' \in {"rc99", "rc1"} \cup Codes
    BY <2>1, <2>2 DEF Commanded, Result
  <2>4. Cur \in 0..MaxConn
    BY Currents
  <2> QED BY <1>1, <1>2, <2>3, <2>4, ReadsResult
<1>6. CASE ~ReadGoodVersion
  BY <1>1, <1>4, <1>5, <1>6, RunsOrdered, RunsStaged, RunsStarted DEF Commanded
<1>7. CASE ReadGoodVersion
  <2>1. state = "GETTING_VERSION"
    <3>1. Head(wire) \in GoodBad
      BY <1>1, <1>7 DEF ReadGoodVersion, Handles, GoodBad
    <3> QED BY <1>3, <3>1 DEF Version, VersionSaid
  <2>2. PICK h \in 0..MaxConn : Written(h, <<"set system", "run">>)
    BY <1>1, <1>7
  <2>3. Staged' /\ Started'
    BY <1>4, <2>1, RunsStaged, RunsStarted
  <2>4. ASSUME NEW k \in Conns
        PROVE  /\ Orders(inbox'[k])
               /\ None(inbox'[k], RunLine) \/ k = Cur
               /\ None(inbox'[k], {"abort"}) \/ abort
    <3>1. \/ inbox'[k] = inbox[k]
          \/ <<"ctrl", k>> \in ends /\ inbox'[k] = inbox[k] \o <<"set system", "run">>
      BY <2>2, WritesLines
    <3>2. <<"ctrl", k>> \in ends => k = Cur
      BY <2>1, CurrentConn DEF Conversation, Controlled
    <3>3. inbox[k] \in Seq(Lines) /\ None(inbox[k], RunLine) /\ Orders(inbox[k])
          /\ (None(inbox[k], {"abort"}) \/ abort)
      BY <2>1 DEF Commanded, Ordered, IInv, Types, Speak
    <3> QED BY <3>1, <3>2, <3>3, OrdersRun
  <2>5. proc = "none"
    BY <2>1 DEF Commanded, Started
  <2>6. Ordered'
    BY <1>1, <1>7, <2>4, <2>5 DEF Ordered, Cur
  <2> QED BY <1>5, <2>3, <2>6 DEF Commanded
<1> QED BY <1>6, <1>7

LEMMA ClosingCommanded ==
    ASSUME IInv, Conversation, Version, Commanded, ReadBadVersion
    PROVE  Commanded'
<1>1. /\ UNCHANGED <<flow, rc, abort, fd, hpc, inbox, reply, proc, owner, ec, starts>>
      /\ state' = "CLOSING_FOR_REINSTALL" /\ state = "GETTING_VERSION"
  BY ClosingOther DEF ReadBadVersion, host, service, command
<1>2. Conversation'
  BY ClosingConverses
<1>3. Quiets(Codes)
  <2>1. None(wire', CtrlSays)
    BY <1>1, <1>2 DEF Conversation, Waiting, Talking
  <2>2. \A R : R \subseteq Codes => Of("read", "ctrl", R) \subseteq CtrlSays
    BY DEF CtrlSays, Of, Messages
  <2> QED BY <1>1, <2>1, <2>2, NoneSub DEF Quiets
<1>4. Runs
  BY <1>1 DEF Runs, Up
<1> QED BY <1>1, <1>3, <1>4, RunsOrdered, RunsStaged, RunsStarted, QuietsResult DEF Commanded

LEMMA TimerCommanded ==
    ASSUME IInv, Conversation, Version, Commanded, Timer
    PROVE  Commanded'
<1>1. /\ UNCHANGED <<flow, state, rc, abort, fd, hpc, reply, proc, owner, ec, starts>> /\ abort
      /\ \E h : Written(h, <<"abort">>)
  BY DEF Timer, command
<1>2. Quiets(Codes)
  BY <1>1, TimerUnsaid, UnsaidQuiets, CodesSaid
<1>3. Runs
  BY <1>1 DEF Runs, Up, Cur
<1>4. ASSUME NEW k \in Conns
      PROVE  /\ Orders(inbox[k]) => Orders(inbox'[k])
             /\ \A S : None(inbox[k], S) /\ "abort" \notin S => None(inbox'[k], S)
  <2>1. inbox[k] \in Seq(Lines)
    BY DEF IInv, Types, Speak
  <2>2. inbox'[k] = inbox[k] \/ inbox'[k] = inbox[k] \o <<"abort">>
    BY <1>1, WritesLines
  <2> QED BY <2>1, <2>2, OrdersAbort
<1>5. Ordered'
  <2>1. \A k \in Conns : None(inbox[k], RunLine) => None(inbox'[k], RunLine)
    BY <1>4 DEF RunLine
  <2> QED BY <1>1, <1>4, <2>1 DEF Commanded, Ordered, Cur
<1>6. Staged' /\ Started'
  <2>1. \A k \in Conns : None(inbox[k], NotAbort) => None(inbox'[k], NotAbort)
    BY <1>4 DEF NotAbort
  <2> QED BY <1>3, <2>1, RunsStaged, RunsStarted
<1> QED BY <1>1, <1>2, <1>5, <1>6, QuietsResult DEF Commanded

LEMMA OpenCommanded ==
    ASSUME IInv, Conversation, Version, Commanded, ServeCtrlOpen
    PROVE  Commanded'
<1>1. UNCHANGED <<flow, state, rc, abort, fd, inbox, reply, proc, owner, ec, starts>>
  BY DEF ServeCtrlOpen, client, command
<1>2. Quiets(Codes)
  BY <1>1, OpenUnsaid, UnsaidQuiets, CodesSaid
<1>3. \A k \in Conns : hpc'[k] = hpc[k] \/ hpc'[k] \notin Stage
  <2>1. hpc \in [Conns -> Handlers]
    BY DEF IInv, Types, ServiceTypes
  <2>2. {"gets", "nomem", "gone"} \cap Stage = {}
    BY DEF Stage, Path, After
  <2> QED BY <2>1, <2>2 DEF ServeCtrlOpen
<1>4. Runs
  BY <1>1, <1>3 DEF Runs, Up, Cur
<1> QED BY <1>1, <1>2, <1>4, RunsOrdered, RunsStaged, RunsStarted, QuietsResult DEF Commanded

-----------------------------------------------------------------------------
\* What the handlers do.

LEMMA MovesQuiets ==
    ASSUME IInv, Conversation, NEW k \in Conns, NEW next, NEW X \in SUBSET Messages,
           Moves(k, next) \/ \E m \in Messages \ X : Says(k, m, next)
    PROVE  Quiets(X)
<1>1. CASE Moves(k, next)
  BY <1>1 DEF Moves, smb, Quiets
<1>2. ASSUME NEW m \in Messages \ X, Says(k, m, next) PROVE Quiets(X)
  <2>1. /\ \A R : R \subseteq Messages =>
              (None(wire', Of("read", "ctrl", R)) <=>
                 None(wire, Of("read", "ctrl", R)) /\ (<<"ctrl", k>> \in pending => m \notin R))
        /\ \A j \in Conns : reply'[j] = reply[j] \/ reply'[j] = m
    BY <1>2, SaysTells DEF Says
  <2> QED BY <2>1 DEF Quiets
<1> QED BY <1>1, <1>2

\* Only ReturnCode tells a code, and only Run names the pipes.
LEMMA HandlerQuiets ==
    ASSUME IInv, Conversation, NEW k \in Conns, HandleConnection(k),
           NEW X, \/ X = Codes /\ ~ReturnCode(k)
                  \/ X = {"std_io_err"} /\ ~ReturnCode(k) /\ ~Run(k)
    PROVE  Quiets(X)
<1>1. /\ {"good", "bad", "error", "error:"} \subseteq Messages \ X
      /\ ~Run(k) \/ "std_io_err" \in Messages \ X
      /\ X \in SUBSET Messages
  BY WinexeAssumption DEF Messages, Codes
<1>2. CASE DisconnectData(k) \/ Finish(k)
  <2>1. DataPipes \in SUBSET Pipes /\ {"ctrl"} \in SUBSET Pipes
    BY DEF Pipes
  <2>2. Adds(wire', wire, Aside) /\ reply' = reply
    BY <1>2, <2>1, DisconnectAside DEF DisconnectData, Finish
  <2> QED BY <1>1, <2>2, AsideUnsaid, UnsaidQuiets DEF Conversation
<1>3. CASE GetVersion(k)
  <2>1. \E m \in Messages \ X : Says(k, m, "flushAnswer")
    BY <1>1, <1>3 DEF GetVersion
  <2> QED BY <1>1, <2>1, MovesQuiets
<1>4. CASE SetSystem(k)
  BY <1>4 DEF SetSystem, smb, Quiets
<1>5. CASE NoMemory(k) \/ UnknownCommand(k) \/ Run(k) \/ RunFails(k) \/ CreateProcessFails(k)
  BY <1>1, <1>5, MovesQuiets DEF NoMemory, UnknownCommand, Run, RunFails, CreateProcessFails
<1>6. ASSUME NEW p, NEW at, ConnectFails(k, p, at) PROVE Quiets(X)
  BY <1>1, <1>6, MovesQuiets DEF ConnectFails
<1>7. ASSUME NEW at, NEW next, NEW p,
             \/ Flush(k, at, next) \/ Connect(k, p, at, next) \/ FlushStream(k, p, at, next)
      PROVE  Quiets(X)
  BY <1>1, <1>7, MovesQuiets DEF Flush, Connect, FlushStream
<1>8. CASE GetsEof(k) \/ CreateProcess(k) \/ Terminate(k) \/ ProcessDone(k)
  BY <1>1, <1>8, MovesQuiets DEF GetsEof, CreateProcess, Terminate, ProcessDone
<1>9. CASE ReturnCode(k)
  BY <1>9
<1> QED BY <1>2, <1>3, <1>4, <1>5, <1>6, <1>7, <1>8, <1>9 DEF HandleConnection

\* A handler goes from one place to the next.
Goes(k, next) ==
    /\ UNCHANGED <<flow, state, rc, fd, abort>>
    /\ hpc' = [hpc EXCEPT ![k] = next]
    /\ \A j \in Conns : j # k => inbox'[j] = inbox[j]

LEMMA HandlerGoes ==
    ASSUME IInv, NEW k \in Conns, NEW next, NEW m,
           Moves(k, next) \/ (Says(k, m, next) /\ (inbox' = inbox \/ \E line : Gets(k, line)))
    PROVE  Goes(k, next)
BY DEF Goes, Moves, Says, Gets, client, IInv, Types, Speak

\* It only goes on with what it does.
LEMMA GoesCommanded ==
    ASSUME IInv, Conversation, Commanded, NEW k \in Conns, NEW next, Goes(k, next),
           UNCHANGED <<inbox, proc, owner, ec, starts>>,
           next \in Stage => hpc[k] \in Stage, next \in Path => hpc[k] \in Path,
           next \in After => hpc[k] \in After, next # "wait"
    PROVE  Ordered' /\ Staged' /\ Started'
<1>1. /\ \A j \in Conns : j # k => hpc'[j] = hpc[j]
      /\ hpc'[k] = next
  BY DEF Goes, IInv, Types, ServiceTypes
<1>2. Ordered'
  BY DEF Goes, Commanded, Ordered, Cur
<1>3. Started'
  BY DEF Goes, Commanded, Started, Cur, Up
<1>4. Staged'
  BY <1>1 DEF Goes, Commanded, Staged, Cur
<1> QED BY <1>2, <1>3, <1>4

\* It takes a line that is not the command.
LEMMA GetsCommanded ==
    ASSUME IInv, Conversation, Commanded, NEW k \in Conns, NEW next, Goes(k, next),
           NEW line, Gets(k, line), UNCHANGED <<proc, owner, ec, starts>>, next \notin Stage
    PROVE  Ordered' /\ Staged' /\ Started'
<1>1. inbox \in [Conns -> Seq(Lines)] /\ hpc \in [Conns -> Handlers]
  BY DEF IInv, Types, Speak, ServiceTypes
<1>2. inbox[k] # <<>> /\ inbox'[k] = Tail(inbox[k])
  BY <1>1 DEF Gets
<1>3. ASSUME NEW j \in Conns
      PROVE  /\ Orders(inbox[j]) => Orders(inbox'[j])
             /\ \A S : None(inbox[j], S) => None(inbox'[j], S)
  <2>1. inbox[j] \in Seq(Lines)
    BY <1>1
  <2>2. inbox'[j] = inbox[j] \/ (inbox[j] # <<>> /\ inbox'[j] = Tail(inbox[j]))
    BY <1>2 DEF Goes
  <2> QED BY <2>1, <2>2, OrdersTail
<1>4. Ordered'
  <2>1. \A j \in Conns : /\ None(inbox[j], RunLine) => None(inbox'[j], RunLine)
                         /\ None(inbox[j], {"abort"}) => None(inbox'[j], {"abort"})
    BY <1>3
  <2> QED BY <1>3, <2>1 DEF Goes, Commanded, Ordered, Cur
<1>5. Runs
  BY <1>1 DEF Goes, Runs, Cur, Up
<1>6. Staged' /\ Started'
  BY <1>3, <1>5, RunsStaged, RunsStarted
<1> QED BY <1>4, <1>6

LEMMA RunCommanded ==
    ASSUME IInv, Conversation, Commanded, NEW k \in Conns, Run(k)
    PROVE  Ordered' /\ Staged' /\ Started'
<1>1. /\ Gets(k, "run") /\ UNCHANGED <<proc, owner, ec, starts>>
      /\ Goes(k, "flushPipes")
  BY HandlerGoes DEF Run, command
<1>2. inbox \in [Conns -> Seq(Lines)] /\ hpc \in [Conns -> Handlers]
  BY DEF IInv, Types, Speak, ServiceTypes
<1>3. /\ inbox[k] \in Seq(Lines) /\ inbox[k] # <<>> /\ Head(inbox[k]) = "run"
      /\ inbox'[k] = Tail(inbox[k]) /\ hpc'[k] = "flushPipes"
      /\ \A j \in Conns : j # k => inbox'[j] = inbox[j] /\ hpc'[j] = hpc[j]
  BY <1>1, <1>2 DEF Gets, Goes
<1>4. /\ k = Cur /\ state = "RUNNING" /\ proc = "none"
  <2>1. ~None(inbox[k], RunLine)
    BY <1>3, NoneTail DEF RunLine
  <2> QED BY <2>1 DEF Commanded, Ordered
<1>5. /\ Orders(inbox'[k]) /\ None(inbox'[k], NotAbort)
      /\ None(inbox[k], {"abort"}) => None(inbox'[k], {"abort"})
  BY <1>3, OrdersTail DEF Commanded, Ordered
<1>6. Ordered'
  BY <1>1, <1>3, <1>4, <1>5 DEF Goes, Commanded, Ordered, Cur
<1>7. Staged'
  <2>1. "flushPipes" \notin After
    BY DEF After
  <2> QED BY <1>1, <1>3, <1>4, <1>5, <2>1 DEF Goes, Commanded, Staged, Cur
<1>8. Started'
  BY <1>1, <1>4 DEF Goes, Commanded, Started, Up
<1> QED BY <1>6, <1>7, <1>8

LEMMA CreateCommanded ==
    ASSUME IInv, Conversation, Commanded, NEW k \in Conns, CreateProcess(k)
    PROVE  Ordered' /\ Staged' /\ Started'
<1>1. /\ hpc[k] = "create" /\ Goes(k, "wait") /\ inbox' = inbox
      /\ proc' = "running" /\ owner' = k /\ starts' = starts + 1 /\ ec' = ec
  BY HandlerGoes DEF CreateProcess, Moves
<1>2. /\ k = Cur /\ state = "RUNNING" /\ None(inbox[k], NotAbort) /\ proc = "none"
  BY <1>1 DEF Commanded, Staged, Stage, Path
<1>3. ec = "none" /\ starts = 0
  BY <1>2 DEF Commanded, Started
<1>4. \A j \in Conns : None(inbox[j], RunLine)
  <2>1. None(inbox[k], RunLine)
    BY <1>2 DEF None, NotAbort, Lines, RunLine
  <2> QED BY <1>2, <2>1 DEF Commanded, Ordered
<1>5. hpc'[k] = "wait" /\ \A j \in Conns : j # k => hpc'[j] = hpc[j]
  BY <1>1 DEF Goes, IInv, Types, ServiceTypes
<1>6. Ordered'
  BY <1>1, <1>4 DEF Goes, Commanded, Ordered
<1>7. Staged'
  <2>1. "wait" \notin Path
    BY DEF Path
  <2>2. Path \subseteq Stage /\ After \subseteq Stage
    BY DEF Stage
  <2> QED BY <1>1, <1>2, <1>3, <1>5, <2>1, <2>2 DEF Goes, Commanded, Staged, Cur
<1>8. Started'
  <2>1. "none" \notin Codes /\ "none" # "0x1234"
    BY WinexeAssumption DEF Codes
  <2> QED BY <1>1, <1>2, <1>3, <2>1 DEF Goes, Started, Cur
<1> QED BY <1>6, <1>7, <1>8

\* The wait for the process ends: by itself, by an abort, or because the client
\* is gone.
LEMMA EndsCommanded ==
    ASSUME IInv, Conversation, Commanded, NEW k \in Conns, Terminate(k) \/ ProcessDone(k)
    PROVE  Ordered' /\ Staged' /\ Started'
<1>1. /\ hpc[k] = "wait" /\ Goes(k, "flushOut") /\ inbox' = inbox /\ UNCHANGED <<owner, starts>>
      /\ \/ ec' = "0x1234" /\ CtrlSignalled(k)
            /\ proc' = IF proc = "running" THEN "terminated" ELSE proc
         \/ ec' = ExitCode /\ proc = "exited" /\ proc' = proc
  BY HandlerGoes DEF Terminate, ProcessDone, Moves
<1>2. /\ k = Cur /\ state = "RUNNING" /\ None(inbox[k], NotAbort) /\ proc # "none" /\ ec = "none"
  BY <1>1 DEF Commanded, Staged, Stage, After
<1>3. hpc'[k] = "flushOut" /\ \A j \in Conns : j # k => hpc'[j] = hpc[j]
  BY <1>1 DEF Goes, IInv, Types, ServiceTypes
<1>4. proc' \in {"exited", "terminated"} /\ proc' # "none"
  BY <1>1, <1>2 DEF Commanded, Started
<1>5. Ordered'
  BY <1>1, <1>2 DEF Goes, Commanded, Ordered, Cur
<1>6. Staged'
  <2>1. "flushOut" \notin Path /\ "flushOut" \in Stage
    BY DEF Path, Stage, After
  <2>2. \A j \in Conns : hpc[j] \in Stage => j = k
    BY <1>2 DEF Commanded, Staged
  <2>3. Path \subseteq Stage /\ "wait" \in Stage
    BY DEF Stage, After
  <2> QED BY <1>1, <1>2, <1>3, <1>4, <2>1, <2>2, <2>3 DEF Goes, Commanded, Staged, Cur
<1>7. Started'
  <2>1. ASSUME Up, CtrlSignalled(k) PROVE abort
    <3>1. inbox[k] # <<>>
      <4>1. <<"ctrl", k>> \in ends
        BY <1>2, <2>1 DEF Conversation, Controlled, Talking
      <4> QED BY <2>1, <4>1 DEF CtrlSignalled
    <3>2. inbox[k] \in Seq(Lines)
      BY DEF IInv, Types, Speak
    <3>3. Head(inbox[k]) \in Lines /\ Head(inbox[k]) \notin NotAbort
      BY <1>2, <3>1, <3>2, NoneTail, Dropping
    <3>4. ~None(inbox[k], {"abort"})
      BY <3>1, <3>2, <3>3, NoneTail DEF NotAbort
    <3> QED BY <3>4 DEF Commanded, Ordered
  <2>2. ExitCode # "0x1234"
    BY WinexeAssumption
  <2> QED BY <1>1, <1>2, <1>4, <2>1, <2>2 DEF Goes, Commanded, Started, Cur, Up
<1> QED BY <1>5, <1>6, <1>7

LEMMA ReturnCommanded ==
    ASSUME IInv, Conversation, Commanded, NEW k \in Conns, ReturnCode(k)
    PROVE  Result'
<1>1. /\ hpc[k] = "code" /\ Hprintf(k, ec) /\ UNCHANGED <<rc, ec, abort, ends>>
  BY DEF ReturnCode, Says, command, client
<1>2. ec \in Codes /\ ec \in Messages
  BY <1>1 DEF IInv, Types, CodeKnown, Messages
<1>3. /\ Unearned' = Unearned /\ Unearned \subseteq Messages
  BY <1>1, EarnedStays DEF Unearned, Earned
<1>4. <<"ctrl", k>> \in ends \cup pending => ec \notin Unearned
  <2>1. ~Up => ends = {} /\ pending = {}
    BY DEF Conversation, Phases
  <2> QED BY <2>1 DEF Commanded, Started, Unearned, Earned
<1>5. /\ None(wire', Of("read", "ctrl", Unearned)) <=>
            /\ None(wire, Of("read", "ctrl", Unearned))
            /\ <<"ctrl", k>> \in pending => ec \notin Unearned
      /\ \A j \in Conns : j # k => reply'[j] = reply[j]
      /\ reply'[k] \in {reply[k], ec}
      /\ reply'[k] # reply[k] => <<"ctrl", k>> \in ends
  BY <1>1, <1>2, <1>3, SaysTells
<1> QED BY <1>1, <1>3, <1>4, <1>5 DEF Commanded, Result

LEMMA HandlerCommanded ==
    ASSUME IInv, Conversation, Version, Commanded, NEW k \in Conns, HandleConnection(k)
    PROVE  Commanded'
<1>1. UNCHANGED <<flow, state, rc, fd, abort>>
  BY HandlerSays DEF client
<1>2. Result'
  <2>1. CASE ReturnCode(k)
    BY <2>1, ReturnCommanded
  <2>2. CASE ~ReturnCode(k)
    <3>1. ec' = ec \/ ec = "none"
      <4>1. CASE Terminate(k) \/ ProcessDone(k)
        BY <4>1 DEF Terminate, ProcessDone, Commanded, Staged
      <4>2. CASE ~(Terminate(k) \/ ProcessDone(k))
        BY <4>2 DEF HandleConnection, NoMemory, Flush, GetsEof, GetVersion, SetSystem,
                    UnknownCommand, Run, RunFails, Connect, ConnectFails, CreateProcess,
                    CreateProcessFails, FlushStream, ReturnCode, DisconnectData, Finish, command
      <4> QED BY <4>1, <4>2
    <3> QED BY <1>1, <2>2, <3>1, HandlerQuiets, QuietsResult
  <2> QED BY <2>1, <2>2
<1>3. Ordered' /\ Staged' /\ Started'
  <2>1. CASE Run(k)
    BY <2>1, RunCommanded
  <2>2. CASE CreateProcess(k)
    BY <2>2, CreateCommanded
  <2>3. CASE Terminate(k) \/ ProcessDone(k)
    BY <2>3, EndsCommanded
  <2>4. CASE GetVersion(k) \/ SetSystem(k) \/ UnknownCommand(k) \/ RunFails(k)
    <3>1. {"flushAnswer", "gets", "flushFailure"} \cap Stage = {}
      BY DEF Stage, Path, After
    <3>2. ASSUME SetSystem(k) PROVE Goes(k, "gets") /\ \E line : Gets(k, line)
      BY <3>2 DEF SetSystem, Gets, Goes, client, IInv, Types, Speak, ServiceTypes
    <3>3. ASSUME ~SetSystem(k)
          PROVE  \E next \in {"flushAnswer", "flushFailure"} : \E m :
                    Says(k, m, next) /\ \E line : Gets(k, line)
      BY <2>4, <3>3 DEF GetVersion, UnknownCommand, RunFails
    <3>4. \E next \in {"flushAnswer", "gets", "flushFailure"} :
             Goes(k, next) /\ \E line : Gets(k, line)
      BY <3>2, <3>3, HandlerGoes
    <3>5. UNCHANGED <<proc, owner, ec, starts>>
      BY <2>4 DEF GetVersion, SetSystem, UnknownCommand, RunFails, command
    <3> QED BY <3>1, <3>4, <3>5, GetsCommanded
  <2>5. ASSUME NEW next, Goes(k, next), UNCHANGED <<inbox, proc, owner, ec, starts>>,
               \/ next \notin Stage
               \/ next \in {"flushCode", "disconnect"} /\ hpc[k] \in Stage
               \/ next \in Path /\ hpc[k] \in Path
               \/ next \in After /\ hpc[k] \in After /\ next # "wait"
        PROVE  Ordered' /\ Staged' /\ Started'
    <3>1. /\ Path \subseteq Stage /\ After \subseteq Stage /\ Path \cap After = {}
          /\ "flushCode" \notin Path \cup After /\ "disconnect" \notin Path \cup After
          /\ "wait" \in Stage /\ "wait" \notin Path
      BY DEF Stage, Path, After
    <3> QED BY <2>5, <3>1, GoesCommanded
  <2>6. ASSUME NEW at, NEW next, Flush(k, at, next),
               \/ <<at, next>> \in {<<"flushLost", "lost">>, <<"flushAnswer", "gets">>,
                                    <<"flushFailure", "finish">>}
               \/ <<at, next>> = <<"flushPipes", "connectIn">>
               \/ <<at, next>> = <<"flushCode", "disconnect">>
        PROVE  Ordered' /\ Staged' /\ Started'
    <3>1. Goes(k, next) /\ UNCHANGED <<inbox, proc, owner, ec, starts>> /\ hpc[k] = at
      BY <2>6, HandlerGoes DEF Flush, Moves, command
    <3> QED BY <2>5, <2>6, <3>1 DEF Stage, Path, After
  <2>7. ASSUME NEW p, NEW at, NEW next, Connect(k, p, at, next), at \in Path, next \in Path
        PROVE  Ordered' /\ Staged' /\ Started'
    <3>1. Goes(k, next) /\ UNCHANGED <<inbox, proc, owner, ec, starts>> /\ hpc[k] = at
      BY <2>7, HandlerGoes DEF Connect, Moves, command
    <3> QED BY <2>5, <2>7, <3>1
  <2>8. ASSUME NEW p, NEW at, ConnectFails(k, p, at), at \in Path
        PROVE  Ordered' /\ Staged' /\ Started'
    <3>1. /\ Goes(k, "flushCode") /\ UNCHANGED <<inbox, proc, owner, ec, starts>>
          /\ hpc[k] = at
      BY <2>8, HandlerGoes DEF ConnectFails, command
    <3> QED BY <2>5, <2>8, <3>1 DEF Stage
  <2>9. ASSUME NEW p, NEW at, NEW next, FlushStream(k, p, at, next), at \in After,
               next \in {"flushErr", "code"}
        PROVE  Ordered' /\ Staged' /\ Started'
    <3>1. Goes(k, next) /\ UNCHANGED <<inbox, proc, owner, ec, starts>> /\ hpc[k] = at
      BY <2>9, HandlerGoes DEF FlushStream, Moves, command
    <3>2. next \in After /\ next # "wait"
      BY <2>9 DEF After
    <3> QED BY <2>5, <2>9, <3>1, <3>2
  <2>10. CASE NoMemory(k) \/ GetsEof(k)
    <3>1. /\ Goes(k, "flushLost") \/ Goes(k, "finish")
          /\ UNCHANGED <<inbox, proc, owner, ec, starts>>
      BY <2>10, HandlerGoes DEF NoMemory, GetsEof, Moves, command
    <3>2. "flushLost" \notin Stage /\ "finish" \notin Stage
      BY DEF Stage, Path, After
    <3> QED BY <2>5, <3>1, <3>2
  <2>11. CASE CreateProcessFails(k) \/ ReturnCode(k)
    <3>1. /\ Goes(k, "flushCode") /\ UNCHANGED <<inbox, proc, owner, ec, starts>>
          /\ hpc[k] \in {"create", "code"}
      BY <2>11, HandlerGoes DEF CreateProcessFails, ReturnCode, command
    <3>2. "create" \in Stage /\ "code" \in Stage
      BY DEF Stage, Path, After
    <3> QED BY <2>5, <3>1, <3>2
  <2>12. CASE DisconnectData(k) \/ Finish(k)
    <3>1. /\ Goes(k, "finish") \/ Goes(k, "gone")
          /\ UNCHANGED <<inbox, proc, owner, ec, starts>>
      BY <2>12 DEF DisconnectData, Finish, Goes, client, command
    <3>2. "finish" \notin Stage /\ "gone" \notin Stage
      BY DEF Stage, Path, After
    <3> QED BY <2>5, <3>1, <3>2
  <2>13. /\ {"flushPipes", "connectIn", "connectOut", "connectErr", "create"} \subseteq Path
         /\ {"flushOut", "flushErr"} \subseteq After
    BY DEF Path, After
  <2>14. ASSUME NEW at, NEW next, Flush(k, at, next),
                <<at, next>> \in {<<"flushLost", "lost">>, <<"flushAnswer", "gets">>,
                                  <<"flushFailure", "finish">>, <<"flushPipes", "connectIn">>,
                                  <<"flushCode", "disconnect">>}
         PROVE  Ordered' /\ Staged' /\ Started'
    BY <2>6, <2>14
  <2> QED BY <2>1, <2>2, <2>3, <2>4, <2>7, <2>8, <2>9, <2>10, <2>11, <2>12, <2>13, <2>14
          DEF HandleConnection
<1> QED BY <1>2, <1>3 DEF Commanded

LEMMA NextCommanded ==
    IInv /\ Conversation /\ Version /\ Commanded /\ [Next]_vars => Commanded'
<1> SUFFICES ASSUME IInv, Conversation, Version, Commanded, [Next]_vars PROVE Commanded'
  OBVIOUS
<1>1. Answering =>
         \/ CtrlOpened \/ ReadBadVersion
         \/ ReadStdIoErr \/ ReadReturnCode \/ ReadOtherError \/ ReadGoodVersion
  BY DEF Answering
<1>2. Answering => Commanded'
  BY <1>1, AskedCommanded, ClosingCommanded, AnswersCommanded
<1> QED
  BY <1>2, StepKinds, IdleCommanded, TimerCommanded, OpenCommanded, HandlerCommanded

LEMMA CommandedHolds == Spec => [](IInv /\ Conversation /\ Version /\ Commanded)
<1>1. IInv /\ Conversation /\ Version /\ Commanded /\ [Next]_vars
        => (IInv /\ Conversation /\ Version /\ Commanded)'
  BY NextInv, NextConverses, NextVersion, NextCommanded
<1>2. Init => IInv /\ Conversation /\ Version /\ Commanded
  BY InitInv, InitConversation, InitVersion, InitCommanded
<1> QED BY <1>1, <1>2, PTL DEF Spec

\* winexe.c, on_ctrl_pipe_read, and winexesvc.c, cmd_run: a result the client
\* knows is that of the one command it had started: its own exit code only if it
\* ended by itself, 0x1234 only if the user asked for an abort.  No line, answer
\* or handler of an earlier connection gives it another.
THEOREM EarnsItsResult == Spec => []ResultIsEarned
<1>1. IInv /\ Conversation /\ Version /\ Commanded => ResultIsEarned
  <2> SUFFICES ASSUME Commanded PROVE ResultIsEarned
    OBVIOUS
  <2>1. ExitCode # "0x1234" /\ ExitCode \in Codes /\ "0x1234" \in Codes
    BY WinexeAssumption DEF Codes
  <2>2. rc \in Codes => rc = ec /\ (rc = "0x1234" => abort)
    BY DEF Commanded, Result, Unearned, Earned
  <2> QED BY <2>1, <2>2 DEF Commanded, Started, ResultIsEarned
<1> QED BY <1>1, CommandedHolds, PTL

-----------------------------------------------------------------------------
(* What the command wrote arrives, and before its code.                    *)

\* What a context holds: the number of a connection, or 0.
Fds == 0..MaxConn

DataSays == {r \in Said : r.pipe # "ctrl"}
CtrlTalk == {r \in Said : r.pipe = "ctrl"}
Chunks(p) == Of("read", p, {"chunk"})
Dones(p) == Of("open", p, {"done"})
Live(p) == Chunks(p) \cup Dones(p)
Strays(p) == {r \in Dones(p) : r.conn # Cur}
Fails == {r \in DataSays : /\ r.what \in {"open", "read"}
                           /\ r.result \in {"failed", "notfound", "busy"}}
NamedSays == Of("read", "ctrl", {"std_io_err"})
CodeSays == Of("read", "ctrl", Codes)

\* The pipes are named to the client, or the command is ordered.
Named == ~None(wire, NamedSays) \/ \E k \in Conns : reply[k] = "std_io_err"
Ordering == \E k \in Conns : ~None(inbox[k], RunLine)

\* Until the client reads the names of the data pipes it has nothing of them.
Untouched ==
    /\ opening \in {<<>>, <<"ctrl">>} /\ None(wire, DataSays)
    /\ \A p \in DataPipes :
          /\ fd[p] = 0 /\ ioRead[p] = 0
          /\ \A k \in Fds : <<p, k>> \notin ends \cup pending
Naming ==
    /\ state # "RUNNING" \/ Ordering \/ Named => Untouched
    /\ Ordering => ~Named
    /\ Named => state = "RUNNING"
    /\ \A k \in Conns : reply[k] = "std_io_err" => k = Cur /\ None(wire, NamedSays)

\* Of each data pipe there is one open under way, or one read.
Token(p) ==
    /\ One(opening, {p}) /\ One(wire, Live(p))
    /\ ~None(opening, {p}) => None(wire, Live(p)) /\ <<p, Cur>> \notin pending
    /\ <<p, Cur>> \in pending => None(wire, Live(p))
    /\ None(wire, Strays(p))
    /\ fd[p] \in {0, Cur} /\ ioRead[p] \in {0, Cur}
    /\ <<p, Cur>> \in pending \/ ~None(wire, Chunks(p)) => fd[p] = Cur
    /\ \A k \in Fds : <<p, k>> \in pending => k = Cur
Tokens == \A p \in DataPipes : Token(p)

\* Nothing is written out that was not written, and nothing twice.
OnWire(s) == IF None(wire, Chunks(s)) THEN 0 ELSE 1
Bounded ==
    /\ buffered \in [Streams -> Nat] /\ printed \in [Streams -> Nat]
    /\ produced \in [Streams -> 0..MaxOut]
    /\ \A s \in Streams : printed[s] + OnWire(s) + buffered[s] <= produced[s]
    /\ proc = "none" => \A s \in Streams : produced[s] = 0

\* While the handler of the current pipe serves the command, no data pipe fails
\* and nothing is lost.
Serving == Up /\ Cur # 0 /\ hpc[Cur] \in Path \cup After
Ready(p) ==
    {"create"} \cup After \cup
        (IF p = "in" THEN {"connectOut", "connectErr"}
         ELSE IF p = "out" THEN {"connectErr"} ELSE {})
Intact(p) ==
    /\ <<p, Cur>> \in inst
    /\ ~None(wire, Live(p)) \/ <<p, Cur>> \in pending \/ hpc[Cur] \in Ready(p) =>
          <<p, Cur>> \in ends
Kept(s) == printed[s] + OnWire(s) + buffered[s] = produced[s]
Served ==
    Serving =>
        /\ None(wire, Fails) /\ \A p \in DataPipes : Intact(p)
        /\ hpc[Cur] \in After => \A s \in Streams : Kept(s)
        /\ hpc[Cur] \in {"flushErr", "code"} => buffered["out"] = 0
        /\ hpc[Cur] = "code" => buffered["err"] = 0

\* The code is told after all that was written, and so it is known.
Telling == Up /\ (~None(wire, CodeSays) \/ \E k \in Conns : reply[k] \in Codes)
Told == Telling => \A s \in Streams : buffered[s] = 0 /\ Kept(s)
Sorted == \A s \in Streams : Before(wire, Chunks(s), CodeSays)
Known ==
    rc \in Codes =>
        \A s \in Streams : printed[s] = produced[s] /\ buffered[s] = 0 /\ None(wire, Chunks(s))

Delivered == Naming /\ Tokens /\ Bounded /\ Served /\ Told /\ Sorted /\ Known

LEMMA DataKinds ==
    ASSUME NEW r \in Said
    PROVE  /\ r \in DataSays <=> r.pipe # "ctrl"
           /\ r \in CtrlTalk <=> r.pipe = "ctrl"
           /\ \A p : r \in Chunks(p) <=> r.what = "read" /\ r.pipe = p /\ r.result = "chunk"
           /\ \A p : r \in Dones(p) <=> r.what = "open" /\ r.pipe = p /\ r.result = "done"
           /\ \A p : r \in Live(p) <=> r \in Chunks(p) \/ r \in Dones(p)
           /\ \A p : r \in Strays(p) <=> r \in Dones(p) /\ r.conn # Cur
           /\ r \in Fails <=> /\ r.pipe # "ctrl" /\ r.what \in {"open", "read"}
                              /\ r.result \in {"failed", "notfound", "busy"}
BY DEF DataSays, CtrlTalk, Chunks, Dones, Live, Strays, Fails, Of

LEMMA DataSets ==
    /\ DataSays \subseteq Said /\ CtrlTalk \subseteq Said /\ Fails \subseteq DataSays
    /\ NamedSays \subseteq CtrlTalk /\ CodeSays \subseteq CtrlTalk
    /\ \A p \in DataPipes : /\ Live(p) \subseteq DataSays /\ Strays(p) \subseteq Dones(p)
                            /\ Chunks(p) \subseteq Live(p) /\ Dones(p) \subseteq Live(p)
                            /\ Strays(p) \subseteq DataSays /\ Chunks(p) \subseteq DataSays
    /\ Streams \subseteq DataPipes /\ DataPipes \subseteq Pipes /\ "ctrl" \notin DataPipes
BY DEF DataSays, CtrlTalk, Fails, NamedSays, CodeSays, Live, Strays, Chunks, Dones, Of, Streams,
       DataPipes, Pipes

LEMMA InitDelivered == Init => Delivered
<1> SUFFICES ASSUME Init PROVE Delivered
  OBVIOUS
<1>1. \A S : None(<<>>, S) /\ One(<<>>, S)
  BY Silence
<1>2. wire = <<>> /\ opening = <<>> /\ \A k \in Conns : inbox[k] = <<>> /\ reply[k] = "none"
  BY DEF Init
<1>3. ~Ordering /\ ~Named
  BY <1>1, <1>2 DEF Ordering, Named
<1>4. Untouched
  BY <1>1, DataSets DEF Init, Untouched
<1>5. Naming
  BY <1>1, <1>2, <1>3, <1>4 DEF Naming
<1>6. Tokens
  BY <1>1, DataSets DEF Init, Tokens, Token
<1>7. Bounded
  BY <1>1, <1>2, WinexeAssumption DEF Init, Bounded, OnWire
<1>8. Served
  BY DEF Init, Served, Serving, Cur, Pipes
<1>9. "none" \notin Codes /\ "rc99" \notin Codes
  BY WinexeAssumption DEF Codes
<1>10. Told /\ Known
  BY <1>1, <1>2, <1>9 DEF Init, Told, Telling, Known
<1>11. Sorted
  BY <1>2 DEF Sorted, Before
<1> QED BY <1>5, <1>6, <1>7, <1>8, <1>10, <1>11 DEF Delivered

-----------------------------------------------------------------------------
\* The wire says the same of the data pipes, and nothing that was on it before
\* is after what was said of the control pipe since.
Alike(w2, w) ==
    /\ w2 \in Seq(Said)
    /\ \A S : S \subseteq DataSays =>
          /\ None(w2, S) <=> None(w, S)
          /\ One(w, S) => One(w2, S)
          /\ \A T : T \subseteq CtrlTalk => (Before(w, S, T) => Before(w2, S, T))

LEMMA AlikeSame == ASSUME NEW w \in Seq(Said) PROVE Alike(w, w)
BY DEF Alike

LEMMA AlikeAfter ==
    ASSUME NEW u, NEW v, NEW w, Alike(u, v), Alike(v, w)
    PROVE  Alike(u, w)
BY DEF Alike

LEMMA AlikeTail ==
    ASSUME NEW w \in Seq(Said), w # <<>>, Head(w).pipe = "ctrl"
    PROVE  Alike(Tail(w), w)
<1>1. Head(w) \notin DataSays
  BY DEF DataSays
<1> QED BY <1>1, Takes, BeforeTail DEF Alike

LEMMA AlikeAppend ==
    ASSUME NEW w \in Seq(Said), NEW r \in Said, r.pipe = "ctrl"
    PROVE  Alike(Append(w, r), w)
<1>1. r \notin DataSays
  BY DEF DataSays
<1>2. ASSUME NEW S, NEW T, S \subseteq DataSays, Before(w, S, T)
      PROVE  Before(Append(w, r), S, T)
  BY <1>1, <1>2, BeforeAppend
<1> QED BY <1>1, <1>2, Puts DEF Alike

\* Reads that fail are all that is added.
LEMMA FailuresLeave ==
    ASSUME NEW w \in Seq(Said), NEW w2, Adds(w2, w, Failures)
    PROVE  /\ w2 \in Seq(Said)
           /\ \A S : Apart(S, Failures) =>
                 /\ None(w2, S) <=> None(w, S)
                 /\ One(w, S) => One(w2, S)
                 /\ \A T : Apart(T, Failures) => (Before(w, S, T) => Before(w2, S, T))
<1>1. PICK v \in Seq(Failures) : w2 = w \o v
  BY DEF Adds
<1>2. v \in Seq(Said) /\ \A i \in DOMAIN v : v[i] \in Failures
  <2>1. Failures \subseteq Said
    BY DEF Failures
  <2> QED BY <2>1
<1>3. \A S : Apart(S, Failures) => None(v, S)
  BY <1>2 DEF None, Apart
<1> QED BY <1>1, <1>2, <1>3, NoneJoin, BeforeJoin, Joining

-----------------------------------------------------------------------------
\* A step that has nothing to do with the data pipes, but for what is opened.
Spares ==
    /\ UNCHANGED <<buffered, produced, printed>>
    /\ \A p \in DataPipes :
          /\ fd'[p] = fd[p] /\ ioRead'[p] = ioRead[p]
          /\ \A k \in Fds : /\ <<p, k>> \in ends' <=> <<p, k>> \in ends
                            /\ <<p, k>> \in pending' <=> <<p, k>> \in pending
    /\ Alike(wire', wire)

Aloof ==
    /\ Spares
    /\ opening' = opening \/ {opening, opening'} \subseteq {<<>>, <<"ctrl">>}

LEMMA ReadAlike ==
    ASSUME IInv, Bounded, NEW h \in 0..MaxConn, NEW w \in Seq(Said), SendRead(<<"ctrl", h>>, w)
    PROVE  /\ Alike(wire', w) /\ buffered' = buffered
           /\ \A p \in DataPipes, k \in Fds : <<p, k>> \in pending' <=> <<p, k>> \in pending
<1> DEFINE e == <<"ctrl", h>>
<1>1. e[1] = "ctrl" /\ e[2] = h /\ \A p \in DataPipes, k \in Fds : e # <<p, k>>
  BY DataSets
<1>2. reply[h] # "none" /\ h \in Conns => reply[h] \in Results
  BY Distinct DEF IInv, Types, Speak
<1>3. e \in ends => h \in Conns
  BY DEF IInv, Types, EndTypes, Ends
<1>4. [s \in Streams |-> IF s = e[1] THEN buffered[s] - 1 ELSE buffered[s]] = buffered
  BY <1>1, DataSets DEF Bounded
<1>5. ASSUME NEW m \in Results PROVE Alike(Append(w, Reply("read", "ctrl", h, m)), w)
  <2>1. Reply("read", "ctrl", h, m) \in Said /\ Reply("read", "ctrl", h, m).pipe = "ctrl"
    BY <1>5, Replying DEF Pipes
  <2> QED BY <2>1, AlikeAppend
<1>6. HasData(e) <=> reply[h] # "none"
  BY <1>1 DEF HasData, Streams
<1>7. ReadReply(e) = Reply("read", "ctrl", h, reply[h])
  BY <1>1 DEF ReadReply
<1> HIDE DEF e
<1>8. CASE /\ e \in ends /\ HasData(e)
           /\ wire' = Append(w, ReadReply(e))
           /\ buffered' = [s \in Streams |-> IF s = e[1] THEN buffered[s] - 1 ELSE buffered[s]]
           /\ UNCHANGED pending
  <2>1. reply[h] \in Results
    BY <1>2, <1>3, <1>6, <1>8
  <2> QED BY <1>4, <1>5, <1>7, <1>8, <2>1
<1>9. CASE pending' = pending \cup {e} /\ wire' = w /\ UNCHANGED <<reply, buffered>>
  BY <1>1, <1>9, AlikeSame
<1>10. CASE /\ wire' = Append(w, Reply("read", e[1], e[2], "failed"))
            /\ UNCHANGED <<pending, reply, buffered>>
  <2>1. "failed" \in Results
    BY Distinct
  <2> QED BY <1>1, <1>5, <1>10, <2>1
<1> QED BY <1>8, <1>9, <1>10 DEF SendRead, e

LEMMA WriteAlike ==
    ASSUME NEW h \in 0..MaxConn, NEW w \in Seq(Said)
    PROVE  WriteFails(h, w) \in Seq(Said) /\ Alike(WriteFails(h, w), w)
<1>1. /\ Reply("write", "ctrl", h, "failed") \in Said
      /\ Reply("write", "ctrl", h, "failed").pipe = "ctrl"
  BY Replying, Distinct DEF Pipes
<1>2. Alike(Append(w, Reply("write", "ctrl", h, "failed")), w) /\ Alike(w, w)
  BY <1>1, AlikeAppend, AlikeSame
<1> QED BY <1>2 DEF WriteFails, Alike

\* The control pipe is read again, at the end of a callback of it.
LEMMA CtrlReadAlike ==
    ASSUME IInv, Conversation, Bounded, wire # <<>>, Head(wire).pipe = "ctrl",
           NEW k \in 0..MaxConn,
           \/ AsyncRead("ctrl", k, Tail(wire))
           \/ \E lines : WriteThenRead(lines, k, Tail(wire))
    PROVE  /\ Alike(wire', wire) /\ buffered' = buffered
           /\ \A p \in DataPipes :
                 /\ ioRead'[p] = ioRead[p]
                 /\ \A j \in Fds : <<p, j>> \in pending' <=> <<p, j>> \in pending
<1>1. /\ Tail(wire) \in Seq(Said) /\ Alike(Tail(wire), wire)
  BY AlikeTail, Takes DEF Conversation
<1>2. \E w \in Seq(Said) : Alike(w, wire) /\ AsyncRead("ctrl", k, w)
  <2>1. ASSUME NEW lines, WriteThenRead(lines, k, Tail(wire))
        PROVE  \E w \in Seq(Said) : Alike(w, wire) /\ AsyncRead("ctrl", k, w)
    <3> DEFINE h == Cached(ioWrite, "ctrl", k)
    <3>1. h \in 0..MaxConn
      BY DEF Cached, IInv, Types, HandleTypes, Pipes
    <3>2. AsyncRead("ctrl", k, WriteFails(h, Tail(wire)))
      BY <2>1 DEF WriteThenRead
    <3> QED BY <1>1, <3>1, <3>2, WriteAlike, AlikeAfter
  <2> QED BY <1>1, <2>1
<1>3. PICK w \in Seq(Said) : Alike(w, wire) /\ AsyncRead("ctrl", k, w)
  BY <1>2
<1>4. PICK h \in 0..MaxConn :
        ioRead' = [ioRead EXCEPT !["ctrl"] = h] /\ SendRead(<<"ctrl", h>>, w)
  <2>1. Cached(ioRead, "ctrl", k) \in 0..MaxConn
    BY DEF Cached, IInv, Types, HandleTypes, Pipes
  <2> QED BY <1>3, <2>1 DEF AsyncRead
<1>5. \A p \in DataPipes : ioRead'[p] = ioRead[p]
  BY <1>4, DataSets DEF IInv, Types, HandleTypes
<1> QED BY <1>3, <1>4, <1>5, ReadAlike, AlikeAfter

-----------------------------------------------------------------------------
(* Steps, as far as they are about the data pipes.                         *)

\* What the handlers serve stays, and so does what is known of the result.
Plain ==
    /\ Aloof
    /\ Cur' = Cur /\ (state = "RUNNING" => state' = "RUNNING") /\ (Up' => Up)
    /\ rc' \in {rc, "rc1"} /\ (proc' = "none" => proc = "none")
    /\ \A k \in Conns : hpc'[k] = hpc[k] \/ hpc'[k] \notin Path \cup After
    /\ \A p \in DataPipes, k \in Fds : <<p, k>> \in inst => <<p, k>> \in inst'

\* The client is gone.
Vanishes ==
    /\ ~Up' /\ wire' = <<>> /\ opening' = <<>> /\ ends' = {} /\ pending' = {}
    /\ UNCHANGED <<fd, ioRead, buffered, produced, printed, reply, inbox, state, proc>>
    /\ rc' \in {rc, "rc1"}

\* Server ends of the data pipes are closed, when the command is not served any
\* more.
Cut ==
    /\ Adds(wire', wire, Failures) /\ pending' \subseteq pending
    /\ UNCHANGED <<fd, ioRead, ends, opening, produced, printed, state, rc, inbox, reply>>
    /\ buffered' = buffered \/ buffered' = [s \in Streams |-> 0]
    /\ (Up' => Up) /\ (proc' = "none" => proc = "none")
    /\ Cur # 0 => hpc'[Cur] \notin Path \cup After

\* Steps that do nothing to the pipes but for the wire.
LEMMA QuietPlain ==
    ASSUME IInv, Conversation, UNCHANGED <<fd, ioRead, ends, pending, hpc, inst, proc>>,
           UNCHANGED <<buffered, produced, printed>>,
           Alike(wire', wire),
           opening' = opening \/ {opening, opening'} \subseteq {<<>>, <<"ctrl">>},
           state = "RUNNING" => state' = "RUNNING", Up' => Up, rc' \in {rc, "rc1"}
    PROVE  Plain
BY DEF Plain, Aloof, Spares, Cur

LEMMA ExitPlain ==
    ASSUME IInv, Conversation, NEW w, Alike(w, wire), ExitProgram(w), Up,
           UNCHANGED <<fd, ioRead, hpc, inst, proc, buffered, produced, printed, state, reply,
                       inbox>>,
           rc' \in {rc, "rc1"}
    PROVE  Plain \/ Vanishes
<1>1. CASE ClientGone("exited")
  BY <1>1 DEF ClientGone, Vanishes, Up
<1>2. CASE flow' = "exitUninstall" /\ wire' = w /\ UNCHANGED <<ends, met, pending, opening>>
  BY <1>2, QuietPlain
<1> QED BY <1>1, <1>2 DEF ExitProgram

LEMMA ClientPlain ==
    ASSUME IInv, Conversation, Naming,
           \/ CtrlOpenFailed \/ CtrlFailed \/ (CloseDone /\ Head(wire).pipe = "ctrl")
           \/ MainInstall \/ ErrorInstall \/ ReInstall \/ ExitUninstall
           \/ RequestTimesOut \/ Signal \/ Timer
    PROVE  Plain \/ Vanishes
<1>1. wire \in Seq(Said) /\ Alike(wire, wire)
  BY AlikeSame DEF Conversation
<1>2. wire # <<>> /\ Head(wire).pipe = "ctrl" => Alike(Tail(wire), wire)
  BY <1>1, AlikeTail
<1>3. CASE CtrlOpenFailed
  <2>1. wire # <<>> /\ Head(wire).pipe = "ctrl" /\ Up
    BY <1>3 DEF CtrlOpenFailed, Handles, Up
  <2> QED BY <1>2, <1>3, <2>1, ExitPlain, QuietPlain
          DEF CtrlOpenFailed, io, host, service, command, Up
<1>4. CASE CtrlFailed
  <2>1. wire # <<>> /\ Head(wire).pipe = "ctrl" /\ Up
    BY <1>4 DEF CtrlFailed, Handles, Up
  <2> QED BY <1>2, <1>4, <2>1, ExitPlain, QuietPlain
          DEF CtrlFailed, client, host, service, command, Up
<1>5. CASE CloseDone /\ Head(wire).pipe = "ctrl"
  <2>1. wire # <<>> /\ Up /\ Alike(wire', wire)
    BY <1>2, <1>5 DEF CloseDone, Handles, Up
  <2>2. \A p \in DataPipes : ioRead'[p] = ioRead[p]
    BY <1>5, DataSets DEF CloseDone, IInv, Types, HandleTypes
  <2> QED BY <1>5, <2>1, <2>2
          DEF CloseDone, Plain, Aloof, Spares, Cur, client, host, service, command
<1>6. CASE MainInstall \/ ReInstall
  <2>1. opening \in {<<>>, <<"ctrl">>} /\ (ReInstall => state # "RUNNING")
    BY <1>6 DEF MainInstall, ReInstall, Conversation, Phases, InMain, Reinstalling, Talking,
                Naming, Untouched
  <2> QED BY <1>1, <1>6, <2>1, QuietPlain
          DEF MainInstall, ReInstall, SvcInstall, client, io, service, command, Up
<1>7. CASE ErrorInstall
  <2>1. opening = <<>> /\ Up
    BY <1>7 DEF ErrorInstall, Conversation, Phases, InMain, Up
  <2>2. /\ UNCHANGED <<state, fd, io, service, buffered, command, printed>>
        /\ \/ flow' = "loop" /\ opening' = <<"ctrl">> /\ UNCHANGED <<rc, ends, pending, wire>>
           \/ rc' = "rc1" /\ ExitProgram(wire)
    BY <1>7 DEF ErrorInstall, SvcInstall
  <2> QED BY <1>1, <2>1, <2>2, QuietPlain, ExitPlain DEF io, service, command
<1>8. CASE ExitUninstall
  BY <1>8 DEF ExitUninstall, SvcUninstall, ServiceGone, ClientGone, Vanishes, Up, client, io,
              host, service, command
<1>9. CASE RequestTimesOut
  <2>1. Up
    BY <1>9 DEF RequestTimesOut, Up
  <2> QED BY <1>1, <1>9, <2>1, ExitPlain DEF RequestTimesOut, io, host, service, command
<1>10. CASE Signal
  <2>1. CASE ClientGone("killed")
    BY <1>10, <2>1 DEF Signal, ClientGone, Vanishes, Up, io, host, service, command
  <2>2. CASE UNCHANGED <<flow, ends, met, pending, opening, wire>>
    BY <1>1, <1>10, <2>2, QuietPlain DEF Signal, io, host, service, command
  <2> QED BY <1>10, <2>1, <2>2 DEF Signal
<1>11. CASE Timer
  <2> DEFINE h == Cached(ioWrite, "ctrl", fd["ctrl"])
  <2>1. h \in 0..MaxConn
    BY DEF Cached, IInv, Types, HandleTypes, Pipes
  <2>2. wire' = WriteFails(h, wire) /\ Up
    BY <1>11 DEF Timer
  <2>3. Alike(wire', wire)
    BY <1>1, <2>1, <2>2, WriteAlike
  <2> QED BY <1>11, <2>2, <2>3, QuietPlain DEF Timer, host, command
<1> QED BY <1>3, <1>4, <1>5, <1>6, <1>7, <1>8, <1>9, <1>10, <1>11

LEMMA HostPlain ==
    ASSUME IInv, Conversation, Commanded,
           \/ MainUninstall \/ ReUninstall \/ ServiceDies \/ Exit
           \/ ServerLoop \/ OtherClient \/ ServeCtrlOpen \/ UNCHANGED vars
    PROVE  Plain \/ Cut
<1>1. wire \in Seq(Said) /\ Alike(wire, wire)
  BY AlikeSame DEF Conversation
<1>2. Cur # 0 => Cur \in Conns
  BY Currents
<1>3. CASE ServerLoop \/ OtherClient \/ UNCHANGED vars
  BY <1>1, <1>3, QuietPlain
  DEF ServerLoop, CreateInstance, LoopEnds, OtherClient, vars, client, io, smb, host, service,
      command, Up
<1>4. CASE ServeCtrlOpen
  <2>1. \A k \in Conns : k \in 0..MaxConn
    BY ConnsNat
  <2>2. \E k \in 0..MaxConn, why \in {"done", "notfound", "busy"} :
           wire' = Append(wire, Reply("open", "ctrl", k, why))
    BY <1>4, <2>1, ConnsNat DEF ServeCtrlOpen
  <2>3. Alike(wire', wire)
    BY <1>1, <2>2, Replying, Distinct, AlikeAppend DEF Pipes
  <2>4. opening \in {<<>>, <<"ctrl">>} /\ opening' \in {<<>>, <<"ctrl">>}
    <3>1. opening # <<>> /\ Head(opening) = "ctrl"
      BY <1>4 DEF ServeCtrlOpen
    <3>2. opening \notin Seq(DataPipes)
      BY <3>1, DataSets, Dropping
    <3>3. opening = <<"ctrl">>
      BY <3>1, <3>2 DEF Conversation, Phases, Opening, Opened
    <3> QED BY <1>4, <3>3 DEF ServeCtrlOpen
  <2>5. \A k \in Conns : hpc'[k] = hpc[k] \/ hpc'[k] \notin Path \cup After
    <3>1. {"gets", "nomem", "gone"} \cap (Path \cup After) = {}
      BY DEF Path, After
    <3> QED BY <1>4, <3>1 DEF ServeCtrlOpen, IInv, Types, ServiceTypes
  <2>6. \A p \in DataPipes, k \in Fds : /\ <<p, k>> \in ends' <=> <<p, k>> \in ends
                                        /\ <<p, k>> \in inst => <<p, k>> \in inst'
    BY <1>4, DataSets DEF ServeCtrlOpen
  <2> QED BY <1>4, <2>3, <2>4, <2>5, <2>6
          DEF ServeCtrlOpen, Plain, Aloof, Spares, Cur, client, io, command, Up
<1>5. CASE (MainUninstall \/ ReUninstall) /\ ~registered
  <2>1. pending' = pending /\ wire' = wire
    <3>1. LosesReads(registered)
      BY <1>5 DEF MainUninstall, ReUninstall
    <3>2. PICK order \in [1..Cardinality({}) -> {}] :
            /\ pending' = pending \ {}
            /\ wire' = wire \o [i \in DOMAIN order |->
                                  Reply("read", order[i][1], order[i][2], "failed")]
      BY <1>5, <3>1 DEF LosesReads
    <3>3. Cardinality({}) = 0
      BY FS_EmptySet
    <3>4. order = <<>>
      BY <3>2, <3>3
    <3>5. wire \o <<>> = wire
      BY <1>1
    <3> QED BY <3>2, <3>4, <3>5
  <2> QED BY <1>1, <1>5, <2>1, QuietPlain
          DEF MainUninstall, ReUninstall, SvcUninstall, client, io, host, service, command, Up
<1>6. CASE ((MainUninstall \/ ReUninstall) /\ registered) \/ ServiceDies
  <2>1. Adds(wire', wire, Failures) /\ pending' \subseteq pending
    BY <1>6, LosesFails DEF MainUninstall, ReUninstall, ServiceDies
  <2>2. ServiceGone
    BY <1>6 DEF MainUninstall, ReUninstall, SvcUninstall, ServiceDies
  <2>3. Cur # 0 => hpc'[Cur] \notin Path \cup After
    BY <1>2, <2>2 DEF ServiceGone, Path, After
  <2> QED BY <1>6, <2>1, <2>2, <2>3
          DEF MainUninstall, ReUninstall, ServiceDies, ServiceGone, Cut, client, io, Up
<1>7. CASE Exit /\ hpc[owner] # "gone"
  <2>1. UNCHANGED <<inst, pending, wire>>
    BY <1>7 DEF Exit
  <2> QED BY <1>1, <1>7, <2>1
          DEF Exit, Plain, Aloof, Spares, Cur, client, io, host, command, Up
<1>8. CASE Exit /\ hpc[owner] = "gone"
  <2>1. DataPipes \in SUBSET Pipes /\ Disconnect(owner, DataPipes)
    BY <1>8, DataSets DEF Exit
  <2>2. Adds(wire', wire, Failures) /\ pending' \subseteq pending
    BY <2>1, DisconnectFails
  <2>3. owner = Cur /\ hpc'[Cur] = "gone"
    BY <1>8 DEF Exit, Commanded, Started
  <2>4. "gone" \notin Path \cup After
    BY DEF Path, After
  <2> QED BY <1>8, <2>2, <2>3, <2>4 DEF Exit, Cut, client, io, Up
<1> QED BY <1>3, <1>4, <1>5, <1>6, <1>7, <1>8

LEMMA SaysAlike ==
    ASSUME IInv, Conversation, NEW k \in Conns, NEW m \in Messages, Hprintf(k, m)
    PROVE  /\ Alike(wire', wire)
           /\ \A p \in DataPipes, j \in Fds : <<p, j>> \in pending' <=> <<p, j>> \in pending
<1>1. /\ Reply("read", "ctrl", k, m) \in Said /\ Reply("read", "ctrl", k, m).pipe = "ctrl"
  BY ConnsNat, Replying, Distinct DEF Pipes
<1>2. /\ Alike(wire, wire) /\ Alike(Append(wire, Reply("read", "ctrl", k, m)), wire)
  BY <1>1, AlikeSame, AlikeAppend DEF Conversation
<1> QED BY <1>2, DataSets DEF Hprintf

\* Only the disconnection of the data pipes is about them.
LEMMA HandlerAloof ==
    ASSUME IInv, Conversation, NEW k \in Conns, HandleConnection(k), ~DisconnectData(k)
    PROVE  /\ Aloof /\ UNCHANGED <<flow, state, fd, rc>>
           /\ \A p \in DataPipes, j \in Fds : <<p, j>> \in inst => <<p, j>> \in inst'
           /\ proc' = "none" => proc = "none"
<1>1. wire \in Seq(Said) /\ Alike(wire, wire)
  BY AlikeSame DEF Conversation
<1>2. ASSUME NEW m \in Messages, NEW next, Says(k, m, next), UNCHANGED produced PROVE Aloof
  BY <1>2, SaysAlike DEF Says, Aloof, Spares, client, io
<1>3. ASSUME NEW next, Moves(k, next), UNCHANGED produced PROVE Aloof
  BY <1>1, <1>3 DEF Moves, Aloof, Spares, client, io, smb
<1>4. ASSUME NEW next, Moves(k, next) \/ \E m : Says(k, m, next)
      PROVE  UNCHANGED <<flow, state, fd, rc>> /\ (Moves(k, next) => UNCHANGED inst)
  BY <1>4 DEF Moves, Says, client
<1>5. {"good", "bad", "error", "error:", "std_io_err"} \subseteq Messages
  BY DEF Messages
<1>6. CASE NoMemory(k) \/ GetVersion(k) \/ UnknownCommand(k) \/ RunFails(k) \/ CreateProcessFails(k)
  BY <1>2, <1>4, <1>5, <1>6
  DEF NoMemory, GetVersion, UnknownCommand, RunFails, CreateProcessFails, command
<1>7. CASE Run(k)
  BY <1>2, <1>4, <1>5, <1>7 DEF Run, command
<1>8. ASSUME NEW p, NEW at, ConnectFails(k, p, at)
      PROVE  Aloof /\ UNCHANGED <<flow, state, fd, rc, inst, proc>>
  BY <1>2, <1>4, <1>5, <1>8 DEF ConnectFails, command
<1>9. CASE ReturnCode(k)
  <2>1. ec \in Messages
    BY <1>9 DEF ReturnCode, IInv, Types, CodeKnown, Messages
  <2> QED BY <1>2, <1>4, <1>9, <2>1 DEF ReturnCode, command
<1>10. ASSUME NEW at, NEW next, NEW p,
              \/ Flush(k, at, next) \/ Connect(k, p, at, next) \/ FlushStream(k, p, at, next)
       PROVE  Aloof /\ UNCHANGED <<flow, state, fd, rc, inst, proc>>
  BY <1>3, <1>4, <1>10 DEF Flush, Connect, FlushStream, command
<1>11. CASE GetsEof(k) \/ CreateProcess(k) \/ Terminate(k) \/ ProcessDone(k)
  BY <1>3, <1>4, <1>11 DEF GetsEof, CreateProcess, Terminate, ProcessDone, command
<1>12. CASE SetSystem(k)
  BY <1>1, <1>12 DEF SetSystem, Aloof, Spares, client, io, smb, command
<1>13. CASE Finish(k)
  <2> DEFINE r == Reply("read", "ctrl", k, "failed")
  <2>1. r \in Said /\ r.pipe = "ctrl"
    BY ConnsNat, Replying, Distinct DEF Pipes
  <2>2. Alike(Append(wire, r), wire)
    BY <1>1, <2>1, AlikeAppend
  <2>3. FailedReads(k, {"ctrl"}) = <<r>> \/ FailedReads(k, {"ctrl"}) = <<>>
    <3>1. <<>> \in Seq(Said) /\ <<r>> \in Seq(Said)
      BY <2>1
    <3>2. <<>> \o <<>> = <<>> /\ <<>> \o <<r>> = <<r>>
      BY <3>1
    <3> HIDE DEF r
    <3> QED BY <3>2 DEF FailedReads, r
  <2>4. wire' = wire \/ wire' = Append(wire, r)
    <3>1. wire \o <<>> = wire /\ wire \o <<r>> = Append(wire, r)
      BY <1>1, <2>1
    <3> QED BY <1>13, <2>3, <3>1 DEF Finish, Disconnect
  <2>5. \A p \in DataPipes, j \in Fds :
           /\ <<p, j>> \in pending' <=> <<p, j>> \in pending
           /\ <<p, j>> \in inst' <=> <<p, j>> \in inst
    BY <1>13, DataSets DEF Finish, Disconnect
  <2> QED BY <1>1, <1>13, <2>2, <2>4, <2>5 DEF Finish, Aloof, Spares, client, io, command
<1> QED
  BY <1>6, <1>7, <1>8, <1>9, <1>10, <1>11, <1>12, <1>13 DEF HandleConnection

LEMMA DisconnectCut ==
    ASSUME IInv, Conversation, Commanded, NEW k \in Conns, DisconnectData(k)
    PROVE  Cut
<1>1. Disconnect(k, DataPipes) /\ DataPipes \in SUBSET Pipes
  BY DataSets DEF DisconnectData
<1>2. Adds(wire', wire, Failures) /\ pending' \subseteq pending
  BY <1>1, DisconnectFails
<1>3. hpc'[Cur] = "finish"
  BY DEF DisconnectData, Commanded, Staged, Stage, IInv, Types, ServiceTypes
<1>4. "finish" \notin Path \cup After
  BY DEF Path, After
<1> QED BY <1>2, <1>3, <1>4 DEF DisconnectData, Cut, client, io, command, Up

-----------------------------------------------------------------------------
(* What steps keep that are aloof of the data pipes.                       *)

LEMMA FreshTokens == IInv /\ Untouched => Tokens
<1> SUFFICES ASSUME IInv, Untouched PROVE Tokens
  OBVIOUS
<1>1. ASSUME NEW p \in DataPipes PROVE Token(p)
  <2>1. /\ Live(p) \subseteq DataSays /\ Strays(p) \subseteq DataSays
        /\ Chunks(p) \subseteq DataSays /\ p # "ctrl"
    BY DataSets
  <2>2. None(wire, Live(p)) /\ None(wire, Strays(p)) /\ None(wire, Chunks(p))
    BY <2>1, NoneSub DEF Untouched
  <2>3. None(opening, {p})
    BY <2>1 DEF Untouched, None
  <2>4. One(wire, Live(p)) /\ One(opening, {p})
    BY <2>2, <2>3, NoneOne
  <2>5. <<p, Cur>> \notin pending
    BY Currents DEF Fds, Untouched
  <2> QED BY <2>2, <2>3, <2>4, <2>5 DEF Untouched, Token
<1> QED BY <1>1 DEF Tokens

\* An open or a read of a data pipe that is under way is touched.
LEMMA AloofTokens ==
    ASSUME IInv, IInv', Tokens, Aloof, Cur' = Cur \/ Untouched
    PROVE  Tokens' /\ (Untouched => Untouched')
<1>1. ASSUME Untouched PROVE Untouched'
  <2>1. None(wire', DataSays)
    BY <1>1 DEF Aloof, Spares, Alike, Untouched
  <2> QED BY <1>1, <2>1 DEF Aloof, Spares, Untouched
<1>2. CASE Untouched
  <2>1. IInv' /\ Untouched' => Tokens'
    BY FreshTokens, PTL
  <2> QED BY <1>1, <1>2, <2>1
<1>3. CASE Cur' = Cur
  <2>1. ASSUME NEW p \in DataPipes PROVE Token(p)'
    <3>1. p # "ctrl" /\ \A S \in {Live(p), Strays(p), Chunks(p)} :
             (None(wire', S) <=> None(wire, S)) /\ (One(wire, S) => One(wire', S))
      BY DataSets DEF Aloof, Spares, Alike
    <3>2. Strays(p)' = Strays(p)
      BY <1>3 DEF Strays
    <3>3. One(opening', {p}) /\ (~None(opening', {p}) => ~None(opening, {p}))
      <4>1. CASE opening' = opening
        BY <2>1, <4>1 DEF Tokens, Token
      <4>2. CASE opening' \in {<<>>, <<"ctrl">>}
        BY <3>1, <4>2 DEF None, One
      <4> QED BY <4>1, <4>2 DEF Aloof
    <3>4. Cur \in Fds
      BY Currents DEF Fds
    <3> QED BY <1>3, <2>1, <3>1, <3>2, <3>3, <3>4 DEF Aloof, Spares, Tokens, Token
  <2> QED BY <1>1, <2>1 DEF Tokens
<1> QED BY <1>1, <1>2, <1>3

LEMMA AloofBounded ==
    ASSUME Bounded, Sorted, Aloof, proc' = "none" => proc = "none"
    PROVE  Bounded' /\ Sorted'
<1>1. \A s \in Streams : (None(wire', Chunks(s)) <=> None(wire, Chunks(s)))
  BY DataSets DEF Aloof, Spares, Alike
<1>2. Bounded'
  BY <1>1 DEF Bounded, OnWire, Aloof, Spares
<1>3. \A s \in Streams : Before(wire', Chunks(s), CodeSays)
  BY DataSets DEF Aloof, Spares, Alike, Sorted
<1> QED BY <1>2, <1>3 DEF Sorted

LEMMA AloofTold ==
    ASSUME Told, Aloof, Telling' => Telling
    PROVE  Told'
<1>1. \A s \in Streams : (None(wire', Chunks(s)) <=> None(wire, Chunks(s)))
  BY DataSets DEF Aloof, Spares, Alike
<1>2. \A s \in Streams : Kept(s)' <=> Kept(s)
  BY <1>1 DEF Kept, OnWire, Aloof, Spares
<1> QED BY <1>2 DEF Told, Aloof, Spares

LEMMA AloofKnown ==
    ASSUME Known, Aloof, rc' \in {rc, "rc1"}
    PROVE  Known'
<1>1. \A s \in Streams : (None(wire', Chunks(s)) <=> None(wire, Chunks(s)))
  BY DataSets DEF Aloof, Spares, Alike
<1>2. "rc1" \notin Codes
  BY WinexeAssumption DEF Codes
<1> QED BY <1>1, <1>2 DEF Known, Aloof, Spares

\* The handler of the current pipe serves on, or ends.
LEMMA AloofServed ==
    ASSUME IInv, Served, Aloof, Cur' = Cur, Up' => Up,
           Cur # 0 => hpc'[Cur] = hpc[Cur] \/ hpc'[Cur] \notin Path \cup After,
           \A p \in DataPipes, k \in Fds : <<p, k>> \in inst => <<p, k>> \in inst'
    PROVE  Served'
<1>1. Serving' => Serving /\ hpc'[Cur] = hpc[Cur]
  BY DEF Serving
<1>2. Cur \in Fds
  BY Currents DEF Fds
<1>3. \A S : S \subseteq DataSays => (None(wire', S) <=> None(wire, S))
  BY DEF Aloof, Spares, Alike
<1>4. ASSUME NEW p \in DataPipes, Serving', Intact(p) PROVE Intact(p)'
  <2>1. None(wire', Live(p)) <=> None(wire, Live(p))
    BY <1>3, DataSets
  <2> QED BY <1>1, <1>2, <1>4, <2>1 DEF Intact, Aloof, Spares, Ready
<1>5. \A s \in Streams : Kept(s)' <=> Kept(s)
  BY <1>3, DataSets DEF Kept, OnWire, Aloof, Spares
<1>6. None(wire', Fails) <=> None(wire, Fails)
  BY <1>3, DataSets
<1>7. ASSUME Serving'
      PROVE  /\ None(wire', Fails) /\ \A p \in DataPipes : Intact(p)'
             /\ hpc'[Cur] \in After => \A s \in Streams : Kept(s)'
             /\ hpc'[Cur] \in {"flushErr", "code"} => buffered'["out"] = 0
             /\ hpc'[Cur] = "code" => buffered'["err"] = 0
  BY <1>1, <1>4, <1>5, <1>6, <1>7 DEF Served, Aloof, Spares
<1> QED BY <1>7 DEF Served

-----------------------------------------------------------------------------
(* Who is told what.                                                       *)

\* Nobody is told to run the command, nor the names of the pipes.
Mute ==
    /\ Ordering' => Ordering
    /\ Named' => Named
    /\ \A k \in Conns : reply'[k] = "std_io_err" =>
          reply[k] = "std_io_err" /\ (None(wire, NamedSays) => None(wire', NamedSays))

LEMMA MuteNaming ==
    ASSUME Naming, Mute, state = "RUNNING" => state' = "RUNNING" /\ Cur' = Cur,
           Untouched => Untouched'
    PROVE  Naming'
<1>1. \A k \in Conns : reply[k] = "std_io_err" => Named
  BY DEF Named
<1> QED BY <1>1 DEF Naming, Mute

LEMMA CtrlAnswers == NamedSays \subseteq CtrlSays /\ CodeSays \subseteq CtrlSays
BY DEF NamedSays, CodeSays, CtrlSays, Of, Messages

LEMMA SilentMute ==
    ASSUME IInv, UNCHANGED reply, Ordering' => Ordering, Up' => Up,
           \A S : S \subseteq CtrlSays => (None(wire, S) => None(wire', S))
    PROVE  Mute /\ (Telling' => Telling)
BY CtrlAnswers DEF Mute, Named, Telling

LEMMA QuietMute ==
    ASSUME IInv, Conversation, Idle \/ Leaves \/ Stopped \/ Turns \/ Timer \/ ServeCtrlOpen
    PROVE  Mute /\ (Telling' => Telling)
<1>1. CASE Idle \/ Leaves \/ Stopped \/ Turns
  <2>1. /\ UNCHANGED <<inbox, reply>> /\ (Up' => Up)
        /\ \A S : S \subseteq CtrlSays => (None(wire, S) => None(wire', S))
    BY <1>1 DEF Idle, Leaves, Stopped, Turns, Unsaid, Up
  <2>2. Ordering' => Ordering
    BY <2>1 DEF Ordering
  <2> QED BY <2>1, <2>2, SilentMute
<1>2. CASE ServeCtrlOpen
  <2>1. UNCHANGED <<inbox, reply>> /\ (Up' => Up)
    BY <1>2 DEF ServeCtrlOpen, Up
  <2>2. Ordering' => Ordering
    BY <2>1 DEF Ordering
  <2> QED BY <1>2, <2>1, <2>2, OpenUnsaid, SilentMute DEF Unsaid
<1>3. CASE Timer
  <2>1. UNCHANGED reply /\ (Up' => Up) /\ \E h : Written(h, <<"abort">>)
    BY <1>3 DEF Timer, Up
  <2>2. ASSUME NEW k \in Conns, ~None(inbox'[k], RunLine) PROVE ~None(inbox[k], RunLine)
    <3>1. inbox'[k] = inbox[k] \/ inbox'[k] = inbox[k] \o <<"abort">>
      BY <2>1, WritesLines
    <3>2. inbox[k] \in Seq(Lines) /\ <<"abort">> \in Seq(Lines) /\ None(<<"abort">>, RunLine)
      <4>1. "abort" \in Lines
        BY DEF Lines
      <4> QED BY <4>1, Listing, OneLine DEF IInv, Types, Speak, RunLine
    <3> QED BY <2>2, <3>1, <3>2, NoneJoin
  <2>3. Ordering' => Ordering
    BY <2>2 DEF Ordering
  <2> QED BY <1>3, <2>1, <2>3, TimerUnsaid, SilentMute DEF Unsaid
<1> QED BY <1>1, <1>2, <1>3

-----------------------------------------------------------------------------
\* Steps of the first three kinds.

LEMMA PlainDelivered ==
    ASSUME IInv, IInv', Delivered, Plain, Mute, Telling' => Telling
    PROVE  Delivered'
<1>1. /\ Aloof /\ Cur' = Cur /\ (state = "RUNNING" => state' = "RUNNING") /\ (Up' => Up)
      /\ rc' \in {rc, "rc1"} /\ (proc' = "none" => proc = "none")
      /\ Cur # 0 => hpc'[Cur] = hpc[Cur] \/ hpc'[Cur] \notin Path \cup After
      /\ \A p \in DataPipes, k \in Fds : <<p, k>> \in inst => <<p, k>> \in inst'
  BY Currents DEF Plain
<1>2. Naming /\ Tokens /\ Bounded /\ Served /\ Told /\ Sorted /\ Known
  BY DEF Delivered
<1>3. Tokens' /\ (Untouched => Untouched')
  BY <1>1, <1>2, AloofTokens
<1>4. Naming'
  BY <1>1, <1>2, <1>3, MuteNaming
<1>5. Bounded' /\ Sorted' /\ Told' /\ Known' /\ Served'
  BY <1>1, <1>2, AloofBounded, AloofTold, AloofKnown, AloofServed
<1> QED BY <1>3, <1>4, <1>5 DEF Delivered

LEMMA VanishesDelivered ==
    ASSUME IInv, IInv', Delivered, Vanishes, Mute
    PROVE  Delivered'
<1>1. Naming /\ Tokens /\ Bounded /\ Known
  BY DEF Delivered
<1>2. /\ \A S : None(wire', S) /\ One(wire', S) /\ None(opening', S) /\ One(opening', S)
      /\ wire' = <<>> /\ opening' = <<>> /\ ends' = {} /\ pending' = {} /\ Cur' = Cur /\ ~Up'
      /\ UNCHANGED <<fd, ioRead, buffered, produced, printed, state, proc>>
      /\ rc' \in {rc, "rc1"}
  BY Silence DEF Vanishes, Cur
<1>3. Untouched => Untouched'
  BY <1>2 DEF Untouched
<1>4. Naming'
  BY <1>1, <1>2, <1>3, MuteNaming
<1>5. \A p \in DataPipes : Token(p)'
  BY <1>1, <1>2 DEF Tokens, Token
<1>6. \A s \in Streams : /\ OnWire(s)' = 0 /\ OnWire(s) \in {0, 1} /\ printed[s] \in Nat
                         /\ buffered[s] \in Nat /\ produced[s] \in Nat
                         /\ printed[s] + OnWire(s) + buffered[s] <= produced[s]
  BY <1>1, <1>2, WinexeAssumption DEF OnWire, Bounded
<1>7. \A s \in Streams : printed'[s] + OnWire(s)' + buffered'[s] <= produced'[s]
  <2> SUFFICES ASSUME NEW s \in Streams
               PROVE  printed'[s] + OnWire(s)' + buffered'[s] <= produced'[s]
    OBVIOUS
  <2>1. \A a, b, c \in Nat : \A o \in {0, 1} : a + o + b <= c => a + 0 + b <= c
    OBVIOUS
  <2>2. printed[s] + 0 + buffered[s] <= produced[s]
    BY <1>6, <2>1
  <2> QED BY <1>2, <1>6, <2>2
<1>8. Bounded'
  BY <1>1, <1>2, <1>7 DEF Bounded
<1>9. Served' /\ Told'
  BY <1>2 DEF Served, Serving, Told, Telling
<1>10. Sorted'
  BY <1>2 DEF Sorted, Before
<1>11. Known'
  <2>1. "rc1" \notin Codes
    BY WinexeAssumption DEF Codes
  <2> QED BY <1>1, <1>2, <2>1 DEF Known
<1> QED BY <1>4, <1>5, <1>8, <1>9, <1>10, <1>11 DEF Delivered, Tokens

LEMMA CutDelivered ==
    ASSUME IInv, IInv', Conversation, Delivered, Cut, Mute, Telling' => Telling
    PROVE  Delivered'
<1>1. Naming /\ Tokens /\ Bounded /\ Told /\ Sorted /\ Known
  BY DEF Delivered
<1>2. /\ Adds(wire', wire, Failures) /\ pending' \subseteq pending /\ wire \in Seq(Said)
      /\ UNCHANGED <<fd, ioRead, ends, opening, produced, printed, state, rc, inbox, reply>>
      /\ buffered' = buffered \/ buffered' = [s \in Streams |-> 0]
      /\ (Up' => Up) /\ (proc' = "none" => proc = "none") /\ Cur' = Cur
      /\ Cur # 0 => hpc'[Cur] \notin Path \cup After
  BY DEF Cut, Cur, Conversation
<1>3. /\ wire' \in Seq(Said)
      /\ \A S : Apart(S, Failures) =>
            /\ None(wire', S) <=> None(wire, S)
            /\ One(wire, S) => One(wire', S)
            /\ \A T : Apart(T, Failures) => (Before(wire, S, T) => Before(wire', S, T))
  BY <1>2, FailuresLeave
<1>4. /\ \A p \in DataPipes : /\ Apart(Live(p), Failures) /\ Apart(Strays(p), Failures)
                              /\ Apart(Chunks(p), Failures)
      /\ Apart(CodeSays, Failures)
  BY Distinct, CodesSaid DEF Apart, Live, Strays, Chunks, Dones, CodeSays, Of, Failures
<1>5. Untouched => Untouched'
  <2>1. ASSUME Untouched, NEW r \in Failures PROVE r \notin DataSays
    <3>1. r.pipe \in Pipes /\ r.conn \in Fds /\ <<r.pipe, r.conn>> \in pending
      BY Kinds DEF Failures, Fds
    <3> QED BY <2>1, <3>1 DEF Untouched, DataSays, Pipes
  <2>2. Untouched => Apart(DataSays, Failures)
    BY <2>1 DEF Apart
  <2> QED BY <1>2, <1>3, <2>2 DEF Untouched
<1>6. Naming'
  BY <1>1, <1>2, <1>5, MuteNaming
<1>7. Tokens'
  <2>1. ASSUME NEW p \in DataPipes PROVE Token(p)'
    <3>1. Strays(p)' = Strays(p)
      BY <1>2 DEF Strays
    <3> QED BY <1>1, <1>2, <1>3, <1>4, <2>1, <3>1 DEF Tokens, Token
  <2> QED BY <2>1 DEF Tokens
<1>8. \A s \in Streams : None(wire', Chunks(s)) <=> None(wire, Chunks(s))
  BY <1>3, <1>4, DataSets
<1>9. Bounded'
  <2>1. \A s \in Streams : OnWire(s)' = OnWire(s) /\ OnWire(s) \in Nat
    BY <1>8 DEF OnWire
  <2>2. buffered' \in [Streams -> Nat] /\ \A s \in Streams : buffered'[s] <= buffered[s]
    BY <1>1, <1>2 DEF Bounded
  <2>3. ASSUME NEW s \in Streams
        PROVE  printed'[s] + OnWire(s)' + buffered'[s] <= produced'[s]
    <3>1. \A a, o, b, b2, c \in Nat : a + o + b <= c /\ b2 <= b => a + o + b2 <= c
      OBVIOUS
    <3>2. /\ printed[s] \in Nat /\ OnWire(s) \in Nat /\ buffered[s] \in Nat
          /\ buffered'[s] \in Nat /\ produced[s] \in Nat
      BY <1>1, <2>1, <2>2, WinexeAssumption DEF Bounded
    <3>3. printed[s] + OnWire(s) + buffered[s] <= produced[s] /\ buffered'[s] <= buffered[s]
      BY <1>1, <2>2 DEF Bounded
    <3>4. printed[s] + OnWire(s) + buffered'[s] <= produced[s]
      BY <3>1, <3>2, <3>3
    <3> QED BY <1>2, <2>1, <3>4
  <2> QED BY <1>1, <1>2, <2>2, <2>3 DEF Bounded
<1>10. Served'
  BY <1>2 DEF Served, Serving
<1>11. Told'
  <2>1. Telling => buffered' = buffered
    BY <1>1, <1>2 DEF Told, Bounded
  <2> QED BY <1>1, <1>2, <1>8, <2>1 DEF Told, Kept, OnWire
<1>12. Sorted'
  BY <1>1, <1>3, <1>4, DataSets DEF Sorted
<1>13. Known'
  BY <1>1, <1>2, <1>8 DEF Known
<1> QED BY <1>6, <1>7, <1>9, <1>10, <1>11, <1>12, <1>13 DEF Delivered

-----------------------------------------------------------------------------
\* Callbacks of the control pipe.

\* What is read of the control pipe was said before, and is taken.
LEMMA TakenSays ==
    ASSUME IInv, NEW h \in 0..MaxConn, NEW w \in Seq(Said), CtrlReads(h, w), None(w, CtrlSays),
           Up' => Up
    PROVE  /\ Named' => Named
           /\ ~None(wire', NamedSays) => h \in Conns /\ reply[h] = "std_io_err"
           /\ \A k \in Conns : reply'[k] = "std_io_err" => reply[k] = "std_io_err"
           /\ <<"ctrl", h>> \in ends => reply'[h] = "none"
           /\ Telling' => Telling
<1>1. {"std_io_err"} \subseteq Messages /\ Codes \subseteq Messages /\ "none" \notin Codes
  BY WinexeAssumption DEF Messages, Codes
<1>2. None(w, NamedSays) /\ None(w, CodeSays)
  BY CtrlAnswers, NoneSub
<1>3. /\ ~None(wire', NamedSays) => h \in Conns /\ reply[h] = "std_io_err"
      /\ ~None(wire', CodeSays) => h \in Conns /\ reply[h] \in Codes
  BY <1>1, <1>2, ReadTakes DEF NamedSays, CodeSays
<1>4. \A k \in Conns : reply'[k] \in {reply[k], "none"}
  BY <1>1, ReadTakes
<1>5. \A k \in Conns : /\ reply'[k] = "std_io_err" => reply[k] = "std_io_err"
                       /\ reply'[k] \in Codes => reply[k] \in Codes
  BY <1>1, <1>4
<1>6. <<"ctrl", h>> \in ends => reply'[h] = "none"
  <2>1. <<"ctrl", h>> \in ends => h \in Conns
    BY DEF IInv, Types, EndTypes, Ends
  <2>2. reply \in [Conns -> Messages \cup {"none"}]
    BY DEF IInv, Types, Speak
  <2> QED BY <2>1, <2>2 DEF CtrlReads
<1> QED BY <1>3, <1>5, <1>6 DEF Named, Telling

LEMMA AskedDelivered ==
    ASSUME IInv, IInv', Conversation, Commanded, Delivered, CtrlOpened
    PROVE  Delivered'
<1>1. /\ UNCHANGED <<flow, rc, ends, inst, hpc, proc>>
      /\ state = "OPENING" /\ state' = "GETTING_VERSION"
      /\ nconn \in Conns /\ nconn > Cur /\ Cur' = nconn
      /\ inbox' = inbox \/ Written(nconn, <<"get version">>)
  BY OpenedReads
<1>2. PICK w \in Seq(Said) : CtrlReads(nconn, w) /\ None(w, CtrlSays)
  BY OpenedReads
<1>3. Naming /\ Tokens /\ Bounded /\ Told /\ Sorted /\ Known
  BY DEF Delivered
<1>4. /\ wire # <<>> /\ Head(wire).pipe = "ctrl"
      /\ fd' = [fd EXCEPT !["ctrl"] = Head(wire).conn] /\ Head(wire).conn = nconn
      /\ WriteThenRead(<<"get version">>, nconn, Tail(wire))
      /\ UNCHANGED <<opening, produced, printed>>
  BY OpenedHead DEF CtrlOpened, Handles, command
<1>5. nconn \in 0..MaxConn /\ (Up' => Up)
  BY <1>1, ConnsNat DEF Up
<1>6. Aloof
  <2>1. \A p \in DataPipes : fd'[p] = fd[p]
    BY <1>4, DataSets DEF IInv, Types, HandleTypes
  <2> QED BY <1>1, <1>3, <1>4, <1>5, <2>1, CtrlReadAlike DEF Aloof, Spares
<1>7. Untouched /\ ~Named
  BY <1>1, <1>3 DEF Naming
<1>8. Tokens' /\ Untouched' /\ Bounded' /\ Sorted'
  BY <1>1, <1>3, <1>6, <1>7, AloofTokens, AloofBounded
<1>9. (Named' => Named) /\ (Telling' => Telling)
  BY <1>2, <1>5, TakenSays
<1>10. Naming'
  BY <1>7, <1>8, <1>9 DEF Naming, Named
<1>11. Told' /\ Known'
  BY <1>1, <1>3, <1>6, <1>9, AloofTold, AloofKnown
<1>12. Served'
  <2>1. hpc'[Cur'] \notin Stage
    BY <1>1 DEF Commanded, Staged
  <2> QED BY <2>1 DEF Served, Serving, Stage
<1> QED BY <1>8, <1>10, <1>11, <1>12 DEF Delivered

\* The answers that are the same session's.
LEMMA AnswerAloof ==
    ASSUME IInv, Conversation, Bounded, ReadReturnCode \/ ReadOtherError \/ ReadGoodVersion
    PROVE  Aloof
<1>1. /\ wire # <<>> /\ Head(wire).pipe = "ctrl" /\ Cur \in 0..MaxConn
      /\ UNCHANGED <<fd, ends>>
  BY AnswerReads, ConnsNat, Kinds DEF CtrlSays, Of
<1>2. /\ UNCHANGED <<opening, produced, printed>>
      /\ \/ AsyncRead("ctrl", Cur, Tail(wire))
         \/ \E lines : WriteThenRead(lines, Cur, Tail(wire))
  BY DEF ReadReturnCode, ReadOtherError, ReadGoodVersion, command, Cur
<1>3. /\ Alike(wire', wire) /\ buffered' = buffered
      /\ \A p \in DataPipes :
            /\ ioRead'[p] = ioRead[p]
            /\ \A j \in Fds : <<p, j>> \in pending' <=> <<p, j>> \in pending
  BY <1>1, <1>2, CtrlReadAlike
<1> QED BY <1>1, <1>2, <1>3 DEF Aloof, Spares

LEMMA GoodDelivered ==
    ASSUME IInv, IInv', Conversation, Version, Commanded, Delivered, ReadGoodVersion
    PROVE  Delivered'
<1>1. /\ UNCHANGED <<flow, fd, inst, hpc, proc>> /\ Cur \in Conns /\ <<"ctrl", Cur>> \in ends
      /\ state' = "RUNNING" /\ Head(wire).result = "good" /\ wire # <<>>
      /\ Head(wire) \in Of("read", "ctrl", {"good", "bad"})
      /\ rc' = rc
  BY AnswerReads DEF ReadGoodVersion, Handles
<1>2. state = "GETTING_VERSION"
  <2>1. ~None(wire, GoodBad)
    BY <1>1, Takes DEF GoodBad, Conversation
  <2> QED BY <2>1 DEF Version, VersionSaid
<1>3. PICK w \in Seq(Said) : CtrlReads(Cur, w) /\ None(w, CtrlSays)
  BY AnswerReads
<1>4. Naming /\ Tokens /\ Bounded /\ Told /\ Sorted /\ Known
  BY DEF Delivered
<1>5. Cur' = Cur /\ Cur \in 0..MaxConn /\ (Up' => Up)
  BY <1>1, ConnsNat DEF Cur, Up
<1>6. Aloof
  BY <1>4, AnswerAloof
<1>7. Untouched /\ ~Named
  BY <1>2, <1>4 DEF Naming
<1>8. Tokens' /\ Untouched' /\ Bounded' /\ Sorted'
  BY <1>1, <1>4, <1>5, <1>6, <1>7, AloofTokens, AloofBounded
<1>9. (Named' => Named) /\ (Telling' => Telling)
  BY <1>3, <1>5, TakenSays
<1>10. Naming'
  BY <1>7, <1>8, <1>9 DEF Naming, Named
<1>11. Told' /\ Known'
  BY <1>1, <1>4, <1>6, <1>9, AloofTold, AloofKnown
<1>12. Served'
  <2>1. hpc'[Cur'] \notin Stage
    BY <1>1, <1>2, <1>5 DEF Commanded, Staged
  <2> QED BY <2>1 DEF Served, Serving, Stage
<1> QED BY <1>8, <1>10, <1>11, <1>12 DEF Delivered

LEMMA AnswersDelivered ==
    ASSUME IInv, IInv', Conversation, Delivered, ReadReturnCode \/ ReadOtherError
    PROVE  Delivered'
<1>1. /\ UNCHANGED <<flow, fd, inst, hpc, proc>> /\ Cur \in Conns /\ <<"ctrl", Cur>> \in ends
      /\ wire # <<>> /\ \A R : Head(wire) \in Of("read", "ctrl", R) <=> Head(wire).result \in R
      /\ flow = "loop"
  BY AnswerReads
<1>2. UNCHANGED <<state, inbox>>
  BY DEF ReadReturnCode, ReadOtherError, client
<1>3. PICK w \in Seq(Said) : CtrlReads(Cur, w) /\ None(w, CtrlSays)
  BY AnswerReads
<1>4. Naming /\ Tokens /\ Bounded /\ Served /\ Told /\ Sorted /\ Known
  BY DEF Delivered
<1>5. Cur' = Cur /\ Cur \in 0..MaxConn /\ (Up' => Up) /\ Up
  BY <1>1, ConnsNat DEF Cur, Up
<1>6. Aloof
  BY <1>4, AnswerAloof
<1>7. Tokens' /\ (Untouched => Untouched') /\ Bounded' /\ Sorted'
  BY <1>1, <1>4, <1>5, <1>6, AloofTokens, AloofBounded
<1>8. /\ Named' => Named
      /\ \A k \in Conns : reply'[k] = "std_io_err" => reply[k] = "std_io_err" /\ k # Cur
      /\ Telling' => Telling
  <2>1. \A k \in Conns : reply'[k] = "std_io_err" => k # Cur
    BY <1>1, <1>3, <1>5, TakenSays
  <2> QED BY <1>3, <1>5, <2>1, TakenSays
<1>9. Naming'
  <2>1. \A k \in Conns : reply[k] = "std_io_err" => k = Cur
    BY <1>4 DEF Naming
  <2>2. Ordering' <=> Ordering
    BY <1>2 DEF Ordering
  <2> QED BY <1>2, <1>4, <1>7, <1>8, <2>1, <2>2 DEF Naming
<1>10. Told' /\ Served'
  BY <1>1, <1>4, <1>5, <1>6, <1>8, AloofTold, AloofServed
<1>11. Known'
  <2>1. CASE ReadOtherError
    <3>1. rc' = rc
      BY <2>1 DEF ReadOtherError, client
    <3> QED BY <1>4, <1>6, <3>1, AloofKnown
  <2>2. CASE ReadReturnCode
    <3>1. Head(wire) \in CodeSays
      BY <1>1, <2>2 DEF ReadReturnCode, Handles, CodeSays, Codes
    <3>2. wire \in Seq(Said) /\ ~None(wire, CodeSays)
      BY <1>1, <3>1, Takes DEF Conversation
    <3>3. Telling
      BY <1>5, <3>2 DEF Telling
    <3>4. \A s \in Streams : None(wire, Chunks(s))
      <4> SUFFICES ASSUME NEW s \in Streams PROVE None(wire, Chunks(s))
        OBVIOUS
      <4>1. None(Tail(wire), Chunks(s))
        BY <1>1, <1>4, <3>1, <3>2, BeforeTail DEF Sorted
      <4>2. Head(wire) \notin Chunks(s)
        BY <3>1, DataSets DEF Chunks, Of, CodeSays, Streams
      <4> QED BY <1>1, <3>2, <4>1, <4>2, Takes
    <3>5. \A s \in Streams : printed[s] = produced[s] /\ buffered[s] = 0
      <4> SUFFICES ASSUME NEW s \in Streams PROVE printed[s] = produced[s] /\ buffered[s] = 0
        OBVIOUS
      <4>1. buffered[s] = 0 /\ printed[s] + OnWire(s) + buffered[s] = produced[s]
        BY <1>4, <3>3 DEF Told, Kept
      <4>2. printed[s] \in Nat /\ OnWire(s) = 0
        BY <1>4, <3>4 DEF Bounded, OnWire
      <4> QED BY <4>1, <4>2
    <3>6. \A s \in Streams : None(wire', Chunks(s))
      BY <1>6, <3>4, DataSets DEF Aloof, Spares, Alike
    <3> QED BY <1>6, <3>5, <3>6 DEF Known, Aloof, Spares
  <2> QED BY <2>1, <2>2
<1> QED BY <1>7, <1>9, <1>10, <1>11 DEF Delivered

LEMMA ClosingDelivered ==
    ASSUME IInv, IInv', Conversation, Version, Commanded, Delivered, ReadBadVersion
    PROVE  Delivered'
<1>1. /\ state = "GETTING_VERSION" /\ state' = "CLOSING_FOR_REINSTALL" /\ wire # <<>>
      /\ UNCHANGED <<flow, rc, fd, pending, opening, hpc, inst, inbox, reply, buffered,
                     proc, produced, printed>>
      /\ ends' = ends \ {<<"ctrl", fd["ctrl"]>>}
  BY ClosingOther DEF ReadBadVersion, Handles, Closed, service, command
<1>2. Head(wire).pipe = "ctrl" /\ Tail(wire) \in Seq(Said) /\ wire \in Seq(Said)
  <2>1. Head(wire).what = "read" /\ Head(wire).result \in Messages /\ flow = "loop"
    BY DEF ReadBadVersion, Handles, Messages
  <2> QED BY <1>1, <2>1, Answered, Hears
<1>3. Naming /\ Tokens /\ Bounded /\ Told /\ Sorted /\ Known
  BY DEF Delivered
<1> DEFINE c == Reply("close", "ctrl", fd["ctrl"], "done")
           f == Reply("read", "ctrl", Cached(ioRead, "ctrl", fd["ctrl"]), "failed")
<1>4. c \in Said /\ f \in Said /\ c.pipe = "ctrl" /\ f.pipe = "ctrl"
  <2>1. fd["ctrl"] \in 0..MaxConn /\ Cached(ioRead, "ctrl", fd["ctrl"]) \in 0..MaxConn
    BY DEF Cached, IInv, Types, HandleTypes, Pipes
  <2> QED BY <2>1, Replying, Distinct DEF Pipes
<1>5. wire' = Append(Append(Tail(wire), c), f)
  BY DEF ReadBadVersion, CloseReply
<1> HIDE DEF c, f
<1>6. Alike(wire', wire)
  <2>1. Alike(Tail(wire), wire) /\ Alike(Append(Tail(wire), c), Tail(wire))
    BY <1>1, <1>2, <1>4, AlikeTail, AlikeAppend
  <2>2. Append(Tail(wire), c) \in Seq(Said)
    BY <1>2, <1>4, Puts
  <2> QED BY <1>4, <1>5, <2>1, <2>2, AlikeAppend, AlikeAfter
<1>7. Aloof
  <2>1. \A p \in DataPipes : ioRead'[p] = ioRead[p]
    BY DataSets DEF ReadBadVersion, IInv, Types, HandleTypes
  <2>2. \A p \in DataPipes, k \in Fds : <<p, k>> \in ends' <=> <<p, k>> \in ends
    BY <1>1, DataSets
  <2> QED BY <1>1, <1>6, <2>1, <2>2 DEF Aloof, Spares
<1>8. Cur' = Cur /\ (Up' => Up)
  BY <1>1 DEF Cur, Up
<1>9. Untouched /\ ~Named /\ ~Ordering
  BY <1>1, <1>3 DEF Naming, Commanded, Ordered, Ordering
<1>10. Tokens' /\ Untouched' /\ Bounded' /\ Sorted'
  BY <1>1, <1>3, <1>7, <1>8, <1>9, AloofTokens, AloofBounded
<1>11. Mute /\ (Telling' => Telling)
  <2>1. Conversation'
    BY ClosingConverses
  <2>2. \A S : S \subseteq CtrlSays => None(wire', S)
    <3>1. None(wire', CtrlSays)
      BY <1>1, <2>1 DEF Conversation, Waiting, Talking
    <3> QED BY <3>1, NoneSub
  <2>3. Ordering' => Ordering
    BY <1>1 DEF Ordering
  <2> QED BY <1>1, <1>8, <2>2, <2>3, SilentMute
<1>12. Naming' /\ Told' /\ Known'
  BY <1>1, <1>3, <1>7, <1>9, <1>10, <1>11, MuteNaming, AloofTold, AloofKnown
<1>13. Served'
  <2>1. Cur' # 0 => hpc'[Cur'] \notin Stage
    BY <1>1, <1>8, Currents DEF Commanded, Staged
  <2> QED BY <2>1 DEF Served, Serving, Stage
<1> QED BY <1>10, <1>12, <1>13 DEF Delivered

\* The names are read: nothing of the pipes was touched, and their opens are
\* asked for.
LEMMA NamesDelivered ==
    ASSUME IInv, IInv', Conversation, Delivered, ReadStdIoErr
    PROVE  Delivered'
<1>1. /\ UNCHANGED <<flow, fd, ends, inst, hpc, proc>>
      /\ Cur \in Conns /\ <<"ctrl", Cur>> \in ends /\ wire # <<>>
      /\ \A R : Head(wire) \in Of("read", "ctrl", R) <=> Head(wire).result \in R
      /\ Head(wire) \in CtrlSays
  BY AnswerReads
<1>2. /\ UNCHANGED <<state, inbox, rc, produced, printed>>
      /\ opening' = opening \o <<"in", "out", "err">>
      /\ AsyncRead("ctrl", Cur, Tail(wire)) /\ Head(wire).result = "std_io_err"
  BY DEF ReadStdIoErr, Handles, client, command, Cur
<1>3. PICK w \in Seq(Said) : CtrlReads(Cur, w) /\ None(w, CtrlSays)
  BY AnswerReads
<1>4. Naming /\ Tokens /\ Bounded /\ Served /\ Told /\ Sorted /\ Known
  BY DEF Delivered
<1>5. Cur' = Cur /\ Cur \in 0..MaxConn /\ Cur \in Fds /\ (Up' => Up)
  BY <1>1, ConnsNat DEF Cur, Up, Fds
<1>6. wire \in Seq(Said) /\ ~None(wire, NamedSays) /\ Head(wire).pipe = "ctrl"
  <2>1. Head(wire) \in NamedSays
    BY <1>1, <1>2 DEF NamedSays
  <2>2. Head(wire).pipe = "ctrl"
    BY <1>1 DEF CtrlSays, Of
  <2> QED BY <1>1, <2>1, <2>2, Takes DEF Conversation
<1>7. Untouched /\ ~Ordering /\ state = "RUNNING" /\ \A k \in Conns : reply[k] # "std_io_err"
  BY <1>4, <1>6 DEF Naming, Named
<1>8. Spares
  <2>1. /\ Alike(wire', wire) /\ buffered' = buffered
        /\ \A p \in DataPipes :
              /\ ioRead'[p] = ioRead[p]
              /\ \A j \in Fds : <<p, j>> \in pending' <=> <<p, j>> \in pending
    BY <1>1, <1>2, <1>4, <1>5, <1>6, CtrlReadAlike
  <2> QED BY <1>1, <1>2, <2>1 DEF Spares
<1>9. opening' = <<"in", "out", "err">>
  <2>1. opening = <<>>
    <3>1. opening \in Seq(DataPipes)
      BY <1>7 DEF Conversation, Phases, Opened
    <3>2. opening # <<"ctrl">>
      <4>1. <<"ctrl">> \notin Seq(DataPipes)
        <5>1. Head(<<"ctrl">>) = "ctrl" /\ <<"ctrl">> # <<>>
          OBVIOUS
        <5> QED BY <5>1, DataSets, Dropping
      <4> QED BY <3>1, <4>1
    <3> QED BY <1>7, <3>2 DEF Untouched
  <2>2. <<>> \o <<"in", "out", "err">> = <<"in", "out", "err">>
    OBVIOUS
  <2> QED BY <1>2, <2>1, <2>2
<1>10. /\ \A S : S \subseteq DataSays => None(wire', S) /\ One(wire', S)
       /\ \A p \in DataPipes : <<p, Cur>> \notin pending'
  <2>1. None(wire', DataSays)
    BY <1>7, <1>8 DEF Spares, Alike, Untouched
  <2>2. \A S : S \subseteq DataSays => None(wire', S)
    BY <2>1, NoneSub
  <2> QED BY <1>5, <1>7, <1>8, <2>2, NoneOne DEF Spares, Untouched
<1>11. Tokens'
  <2>1. ASSUME NEW p \in DataPipes PROVE Token(p)'
    <3>1. One(opening', {p})
      BY <1>9 DEF One
    <3>2. /\ None(wire', Live(p)) /\ One(wire', Live(p)) /\ None(wire', Chunks(p))
          /\ None(wire', Strays(p))
      BY <1>10, DataSets
    <3>3. fd'[p] = 0 /\ ioRead'[p] = 0 /\ \A k \in Fds : <<p, k>> \notin pending'
      BY <1>7, <1>8 DEF Spares, Untouched
    <3>4. Strays(p)' = Strays(p)
      BY <1>5 DEF Strays
    <3> QED BY <1>5, <1>10, <3>1, <3>2, <3>3, <3>4 DEF Token
  <2> QED BY <2>1 DEF Tokens
<1>12. Bounded'
  <2>1. \A s \in Streams : OnWire(s)' = 0 /\ OnWire(s) = 0
    <3>1. \A s \in Streams : None(wire', Chunks(s)) /\ None(wire, Chunks(s))
      BY <1>7, <1>10, DataSets, NoneSub DEF Untouched
    <3> QED BY <3>1 DEF OnWire
  <2> QED BY <1>1, <1>4, <1>8, <2>1 DEF Bounded, Spares
<1>13. Served'
  <2>1. Serving' => Serving
    BY <1>1, <1>5 DEF Serving
  <2>2. None(wire', Fails)
    BY <1>10, DataSets
  <2>3. ASSUME NEW p \in DataPipes, Intact(p) PROVE Intact(p)'
    <3>1. None(wire', Live(p))
      BY <1>10, DataSets
    <3> QED BY <1>1, <1>5, <1>10, <2>3, <3>1 DEF Intact, Ready
  <2>4. ASSUME NEW s \in Streams, Kept(s) PROVE Kept(s)'
    <3>1. None(wire', Chunks(s)) /\ None(wire, Chunks(s))
      BY <1>7, <1>10, DataSets, NoneSub DEF Untouched
    <3> QED BY <1>8, <2>4, <3>1 DEF Kept, OnWire, Spares
  <2> QED BY <1>1, <1>4, <1>5, <1>8, <2>1, <2>2, <2>3, <2>4 DEF Served, Spares
<1>14. Told' /\ Known'
  <2>1. Telling' => Telling
    BY <1>3, <1>5, TakenSays
  <2>2. \A s \in Streams : None(wire', Chunks(s)) /\ None(wire, Chunks(s))
    BY <1>7, <1>10, DataSets, NoneSub DEF Untouched
  <2> QED BY <1>2, <1>4, <1>8, <2>1, <2>2 DEF Told, Kept, OnWire, Known, Spares
<1>15. Sorted'
  <2>1. \A s \in Streams : Before(wire', Chunks(s), CodeSays)
    BY <1>4, <1>8, DataSets DEF Spares, Alike, Sorted
  <2> QED BY <2>1 DEF Sorted
<1>16. Naming'
  <2>1. ~Ordering' /\ \A k \in Conns : reply'[k] # "std_io_err"
    BY <1>2, <1>3, <1>5, <1>7, TakenSays DEF Ordering
  <2>2. None(wire', NamedSays)
    BY <1>3, <1>5, <1>7, TakenSays
  <2> QED BY <1>2, <1>7, <2>1, <2>2 DEF Naming, Named
<1> QED BY <1>11, <1>12, <1>13, <1>14, <1>15, <1>16 DEF Delivered

-----------------------------------------------------------------------------
\* Steps that are about one data pipe.

\* The wire says the same of all other pipes.
Reworks(w2, w, p) ==
    /\ w2 \in Seq(Said)
    /\ \A S : (\A r \in S : r \in Said /\ r.pipe # p) =>
          /\ None(w2, S) <=> None(w, S)
          /\ One(w, S) => One(w2, S)
          /\ \A T : (\A r \in T : r \in Said /\ r.pipe # p) =>
                (Before(w, S, T) => Before(w2, S, T))

LEMMA ReworksTail ==
    ASSUME NEW w \in Seq(Said), w # <<>>, NEW p, Head(w).pipe = p
    PROVE  Reworks(Tail(w), w, p)
<1>1. \A S : (\A r \in S : r \in Said /\ r.pipe # p) => Head(w) \notin S
  OBVIOUS
<1> QED BY <1>1, Takes, BeforeTail DEF Reworks

LEMMA ReworksAppend ==
    ASSUME NEW w, NEW v \in Seq(Said), NEW p, Reworks(v, w, p), NEW r \in Said, r.pipe = p
    PROVE  Reworks(Append(v, r), w, p)
<1>1. \A S : (\A x \in S : x \in Said /\ x.pipe # p) => r \notin S
  OBVIOUS
<1>2. Append(v, r) \in Seq(Said)
  BY Puts
<1>3. ASSUME NEW S, \A x \in S : x \in Said /\ x.pipe # p
      PROVE  (None(Append(v, r), S) <=> None(w, S)) /\ (One(w, S) => One(Append(v, r), S))
  BY <1>1, <1>3, Puts DEF Reworks
<1>4. ASSUME NEW S, \A x \in S : x \in Said /\ x.pipe # p,
             NEW T, \A x \in T : x \in Said /\ x.pipe # p, Before(w, S, T)
      PROVE  Before(Append(v, r), S, T)
  <2>1. Before(v, S, T) /\ r \notin S /\ r \notin T
    BY <1>1, <1>4 DEF Reworks
  <2> QED BY <2>1, BeforeAppend
<1> QED BY <1>2, <1>3, <1>4 DEF Reworks

LEMMA ReworksSame == ASSUME NEW w \in Seq(Said), NEW p PROVE Reworks(w, w, p)
BY DEF Reworks

Touches(p) ==
    /\ Reworks(wire', wire, p)
    /\ UNCHANGED <<flow, state, rc, hpc, inst, proc>> /\ Cur' = Cur
    /\ \A q \in DataPipes \ {p} :
          /\ fd'[q] = fd[q] /\ ioRead'[q] = ioRead[q]
          /\ \A k \in Fds : /\ <<q, k>> \in ends' <=> <<q, k>> \in ends
                            /\ <<q, k>> \in pending' <=> <<q, k>> \in pending
          /\ None(opening, {q}) => None(opening', {q})
          /\ One(opening, {q}) => One(opening', {q})
    /\ buffered' \in [Streams -> Nat] /\ printed' \in [Streams -> Nat]
    /\ produced' \in [Streams -> 0..MaxOut] /\ (proc = "none" => produced' = produced)
    /\ \A s \in Streams \ {p} : /\ buffered'[s] = buffered[s] /\ printed'[s] = printed[s]
                                /\ produced'[s] = produced[s]

\* What is left to see of that pipe.
Counts(p) ==
    /\ printed'[p] + OnWire(p)' + buffered'[p] <= produced'[p]
    /\ Telling => Kept(p)' /\ buffered'[p] = 0
    /\ Before(wire', Chunks(p), CodeSays)
    /\ rc \in Codes => printed'[p] = produced'[p] /\ buffered'[p] = 0 /\ None(wire', Chunks(p))
    /\ Serving /\ hpc[Cur] \in After => Kept(p)'
    /\ Serving /\ hpc[Cur] \in {"flushErr", "code"} /\ buffered[p] = 0 => buffered'[p] = 0
Local(p) ==
    /\ Token(p)'
    /\ Serving => None(wire', Fails) /\ Intact(p)'
    /\ p \in Streams => Counts(p)

LEMMA PipeKinds ==
    ASSUME NEW p \in DataPipes
    PROVE  /\ \A r \in Live(p) \cup Chunks(p) \cup Strays(p) : r \in Said /\ r.pipe = p
           /\ \A r \in CodeSays : r \in Said /\ r.pipe # p
BY DataSets DEF Live, Chunks, Dones, Strays, CodeSays, Of

LEMMA TouchesDelivered ==
    ASSUME IInv, Delivered, NEW p \in DataPipes, Touches(p), Local(p), Naming',
           Telling' => Telling
    PROVE  Delivered'
<1>1. Tokens /\ Bounded /\ Served /\ Told /\ Sorted /\ Known
  BY DEF Delivered
<1>2. \A q \in DataPipes : Strays(q)' = Strays(q)
  BY DEF Strays, Touches
<1>3. Cur \in Fds
  BY Currents DEF Fds
<1>4. ASSUME NEW q \in DataPipes, q # p
      PROVE  \A S \in {Live(q), Chunks(q), Strays(q)} :
                /\ None(wire', S) <=> None(wire, S)
                /\ One(wire, S) => One(wire', S)
                /\ Before(wire, S, CodeSays) => Before(wire', S, CodeSays)
  <2>1. /\ \A r \in Live(q) \cup Chunks(q) \cup Strays(q) : r \in Said /\ r.pipe = q
        /\ \A r \in CodeSays : r \in Said /\ r.pipe # p
    BY PipeKinds
  <2>2. Reworks(wire', wire, p)
    BY DEF Touches
  <2>3. ASSUME NEW S, \A r \in S : r \in Said /\ r.pipe = q
        PROVE  /\ None(wire', S) <=> None(wire, S)
               /\ One(wire, S) => One(wire', S)
               /\ Before(wire, S, CodeSays) => Before(wire', S, CodeSays)
    <3>1. \A r \in S : r \in Said /\ r.pipe # p
      BY <1>4, <2>3
    <3> QED BY <2>1, <2>2, <3>1 DEF Reworks
  <2> QED BY <2>1, <2>3
<1>5. ASSUME NEW q \in DataPipes PROVE Token(q)'
  <2>1. CASE q = p
    BY <2>1 DEF Local
  <2>2. CASE q # p
    <3>1. Token(q)
      BY <1>1 DEF Tokens
    <3> QED BY <1>2, <1>3, <1>4, <2>2, <3>1 DEF Token, Touches
  <2> QED BY <2>1, <2>2
<1>6. ASSUME NEW s \in Streams, s # p
      PROVE  /\ OnWire(s)' = OnWire(s) /\ Kept(s)' = Kept(s)
             /\ None(wire', Chunks(s)) <=> None(wire, Chunks(s))
             /\ Before(wire, Chunks(s), CodeSays) => Before(wire', Chunks(s), CodeSays)
  BY <1>4, <1>6, DataSets DEF OnWire, Kept, Touches
<1>7. Bounded'
  <2>1. ASSUME NEW s \in Streams PROVE printed'[s] + OnWire(s)' + buffered'[s] <= produced'[s]
    <3>1. CASE s = p
      BY <3>1 DEF Local, Counts
    <3>2. CASE s # p
      BY <1>1, <1>6, <3>2 DEF Bounded, Touches
    <3> QED BY <3>1, <3>2
  <2> QED BY <1>1, <2>1 DEF Bounded, Touches
<1>8. Told'
  <2>1. ASSUME Telling, NEW s \in Streams PROVE Kept(s)' /\ buffered'[s] = 0
    <3>1. CASE s = p
      BY <2>1, <3>1 DEF Local, Counts
    <3>2. CASE s # p
      BY <1>1, <1>6, <2>1, <3>2 DEF Told, Touches
    <3> QED BY <3>1, <3>2
  <2> QED BY <2>1 DEF Told
<1>9. Sorted' /\ Known'
  <2>1. ASSUME NEW s \in Streams
        PROVE  /\ Before(wire', Chunks(s), CodeSays)
               /\ rc \in Codes => /\ printed'[s] = produced'[s] /\ buffered'[s] = 0
                                  /\ None(wire', Chunks(s))
    <3>1. CASE s = p
      BY <3>1 DEF Local, Counts
    <3>2. CASE s # p
      BY <1>1, <1>6, <3>2 DEF Sorted, Known, Touches
    <3> QED BY <3>1, <3>2
  <2>2. rc' = rc
    BY DEF Touches
  <2> QED BY <2>1, <2>2 DEF Sorted, Known
<1>10. Served'
  <2> SUFFICES ASSUME Serving'
               PROVE  /\ None(wire', Fails) /\ \A q \in DataPipes : Intact(q)'
                      /\ hpc'[Cur'] \in After => \A s \in Streams : Kept(s)'
                      /\ hpc'[Cur'] \in {"flushErr", "code"} => buffered'["out"] = 0
                      /\ hpc'[Cur'] = "code" => buffered'["err"] = 0
    BY DEF Served
  <2>1. Serving /\ hpc' = hpc /\ Cur' = Cur
    BY DEF Serving, Touches, Up
  <2>2. ASSUME NEW q \in DataPipes PROVE Intact(q)'
    <3>1. CASE q = p
      BY <2>1, <3>1 DEF Local
    <3>2. CASE q # p
      <4>1. Intact(q) /\ (None(wire', Live(q)) <=> None(wire, Live(q)))
        BY <1>1, <1>4, <2>1, <3>2 DEF Served
      <4> QED BY <1>3, <2>1, <3>2, <4>1 DEF Intact, Ready, Touches
    <3> QED BY <3>1, <3>2
  <2>3. ASSUME NEW s \in Streams
        PROVE  /\ hpc[Cur] \in After => Kept(s)'
               /\ hpc[Cur] \in {"flushErr", "code"} /\ buffered[s] = 0 => buffered'[s] = 0
    <3>1. CASE s = p
      BY <2>1, <3>1 DEF Local, Counts
    <3>2. CASE s # p
      BY <1>1, <1>6, <2>1, <3>2 DEF Served, Touches
    <3> QED BY <3>1, <3>2
  <2>4. "out" \in Streams /\ "err" \in Streams
    BY DEF Streams
  <2> QED BY <1>1, <2>1, <2>2, <2>3, <2>4 DEF Served, Local
<1> QED BY <1>5, <1>7, <1>8, <1>9, <1>10 DEF Delivered, Tokens

\* Once the pipes are touched, the names were read.
LEMMA TouchedNaming ==
    ASSUME Naming, ~Untouched, Mute, state' = state
    PROVE  Naming' /\ state = "RUNNING"
<1>1. state = "RUNNING" /\ ~Ordering /\ ~Named
  BY DEF Naming
<1>2. ~Ordering' /\ ~Named' /\ state' = "RUNNING"
  BY <1>1 DEF Mute
<1> QED BY <1>1, <1>2 DEF Naming, Named

LEMMA OpenDelivered ==
    ASSUME IInv, Conversation, Delivered, ServeDataOpen, Mute, Telling' => Telling
    PROVE  Delivered'
<1>1. /\ opening # <<>> /\ Head(opening) # "ctrl" /\ opening' = Tail(opening)
      /\ opening \in Seq(Pipes)
      /\ UNCHANGED <<flow, client, io, pending, host, service, buffered, command, printed>>
  BY DEF ServeDataOpen, IInv, Types, EndTypes
<1>2. PICK p \in DataPipes : p = Head(opening)
  <2>1. Head(opening) \in Pipes
    BY <1>1
  <2> QED BY <1>1, <2>1 DEF Pipes
<1> DEFINE e == <<p, Cur>>
<1>3. /\ ~None(opening, {p})
      /\ \A S : (None(opening, S) => None(opening', S)) /\ (One(opening, S) => One(opening', S))
      /\ One(opening, {p}) => None(opening', {p})
  BY <1>1, <1>2, NoneTail, OneTail
<1>4. Naming /\ Tokens /\ Bounded /\ Served /\ Told /\ Sorted /\ Known
  BY DEF Delivered
<1>5. Token(p)
  BY <1>2, <1>4 DEF Tokens
<1>6. ~Untouched
  <2>1. None(<<>>, {p}) /\ None(<<"ctrl">>, {p})
    BY <1>1, <1>2 DEF None
  <2> QED BY <1>3, <2>1 DEF Untouched
<1>7. Naming'
  BY <1>1, <1>4, <1>6, TouchedNaming DEF client
<1>8. Cur \in 0..MaxConn /\ Cur \in Fds /\ p \in Pipes /\ Cur' = Cur /\ wire \in Seq(Said)
  BY <1>1, <1>2, Currents, DataSets DEF Fds, Cur, client, Conversation
<1>9. PICK k \in 0..MaxConn, why \in {"done", "notfound"} :
        /\ wire' = Append(wire, Reply("open", p, k, why))
        /\ why = "done" => k = Cur /\ e \in inst /\ ends' = ends \cup {e}
        /\ why = "notfound" => e \notin inst /\ ends' = ends
  BY <1>2, <1>8, ConnsNat DEF ServeDataOpen, Cur
<1> DEFINE r == Reply("open", p, k, why)
<1>10. r \in Said /\ r.pipe = p /\ r.what = "open" /\ r.conn = k /\ r.result = why
  BY <1>8, Replying, Distinct
<1> HIDE DEF r
<1>11. wire' = Append(wire, r)
  BY <1>9 DEF r
<1>12. \A S : /\ None(wire', S) <=> None(wire, S) /\ r \notin S
              /\ One(wire, S) /\ (r \notin S \/ None(wire, S)) => One(wire', S)
  BY <1>8, <1>10, <1>11, Puts
<1>13. None(wire, Live(p)) /\ e \notin pending /\ None(opening', {p})
  BY <1>3, <1>5 DEF Token
<1>14. Touches(p)
  <2>1. Reworks(wire', wire, p)
    BY <1>8, <1>10, <1>11, ReworksSame, ReworksAppend
  <2>2. ends' = ends \/ ends' = ends \cup {<<p, Cur>>}
    BY <1>9
  <2>3. UNCHANGED <<flow, state, rc, hpc, inst, proc, fd, ioRead, pending, buffered, printed,
                    produced>>
    BY <1>1 DEF client, io, service, command
  <2>4. \A q \in DataPipes \ {p} : \A j \in Fds : <<q, j>> \in ends' <=> <<q, j>> \in ends
    BY <2>2
  <2> QED BY <1>3, <1>4, <1>8, <2>1, <2>3, <2>4 DEF Touches, Bounded
<1>15. /\ r \notin Chunks(p) /\ r \notin CodeSays /\ r \notin Strays(p)
       /\ why = "done" => r \notin Fails
  BY <1>1, <1>2, <1>9, <1>10, DataKinds DEF CodeSays, Of
<1>16. Token(p)'
  <2>1. Strays(p)' = Strays(p)
    BY <1>8 DEF Strays
  <2>2. /\ One(wire', Live(p)) /\ None(wire', Strays(p))
        /\ None(wire', Chunks(p)) <=> None(wire, Chunks(p))
    BY <1>5, <1>12, <1>13, <1>15, NoneOne DEF Token
  <2>3. One(opening', {p})
    BY <1>13, NoneOne
  <2> QED BY <1>1, <1>5, <1>8, <1>13, <2>1, <2>2, <2>3 DEF Token, client, io
<1>17. Serving => None(wire', Fails) /\ Intact(p)'
  <2> SUFFICES ASSUME Serving PROVE None(wire', Fails) /\ Intact(p)'
    OBVIOUS
  <2>1. Intact(p) /\ None(wire, Fails)
    BY <1>2, <1>4 DEF Served
  <2>2. e \in inst /\ why = "done"
    BY <1>9, <2>1 DEF Intact
  <2>3. e \in ends' /\ inst' = inst
    BY <1>1, <1>9, <2>2 DEF service
  <2> QED BY <1>8, <1>12, <1>15, <2>1, <2>2, <2>3 DEF Intact
<1>18. p \in Streams => Counts(p)
  <2> SUFFICES ASSUME p \in Streams PROVE Counts(p)
    OBVIOUS
  <2>1. /\ None(wire', Chunks(p)) <=> None(wire, Chunks(p))
        /\ UNCHANGED <<buffered, printed, produced, hpc>>
    BY <1>1, <1>12, <1>15 DEF service, command
  <2>2. Kept(p)' <=> Kept(p)
    BY <2>1 DEF Kept, OnWire
  <2>3. Before(wire', Chunks(p), CodeSays)
    BY <1>4, <1>8, <1>11, <1>15, BeforeAppend DEF Sorted
  <2>4. printed'[p] + OnWire(p)' + buffered'[p] <= produced'[p]
    BY <1>4, <2>1 DEF Bounded, OnWire
  <2> QED BY <1>4, <2>1, <2>2, <2>3, <2>4 DEF Counts, Told, Known, Served
<1> QED BY <1>2, <1>7, <1>14, <1>16, <1>17, <1>18, TouchesDelivered DEF Local

\* The context of a data pipe is closed, after a failure, or was closed.
LEMMA DropDelivered ==
    ASSUME IInv, Conversation, Delivered, DataFailed \/ (CloseDone /\ Head(wire).pipe # "ctrl"),
           Mute, Telling' => Telling
    PROVE  Delivered'
<1>1. /\ wire # <<>> /\ wire \in Seq(Said) /\ flow = "loop"
      /\ UNCHANGED <<flow, client, pending, opening, host, service, buffered, command, printed>>
  BY DEF DataFailed, CloseDone, Handles, Conversation
<1>2. PICK p \in DataPipes : p = Head(wire).pipe
  <2>1. Head(wire).pipe \in Pipes
    BY <1>1, Takes, Kinds
  <2> QED BY <2>1 DEF DataFailed, CloseDone, Pipes
<1>3. /\ Tail(wire) \in Seq(Said) /\ Head(wire) \in Said
      /\ \A S : /\ None(wire, S) <=> Head(wire) \notin S /\ None(Tail(wire), S)
                /\ One(wire, S) => One(Tail(wire), S)
  BY <1>1, Takes
<1>4. Naming /\ Tokens /\ Bounded /\ Served /\ Told /\ Sorted /\ Known /\ Token(p)
  BY DEF Delivered, Tokens
<1>5. /\ p # "ctrl" /\ p \in Pipes /\ Cur \in Fds /\ Cur' = Cur /\ fd[p] \in 0..MaxConn
  BY <1>1, <1>2, Currents, DataSets DEF Fds, Cur, client, IInv, Types, HandleTypes
<1>6. \/ /\ DataFailed /\ Head(wire) \in Fails
      \/ /\ CloseDone /\ Head(wire).what = "close"
  <2>1. CASE DataFailed
    <3>1. /\ Head(wire).what \in {"open", "read"}
          /\ Head(wire).result \in {"failed", "notfound", "busy"}
      BY <2>1 DEF DataFailed, Handles
    <3> QED BY <1>2, <1>3, <1>5, <2>1, <3>1, DataKinds
  <2>2. CASE CloseDone
    BY <2>2 DEF CloseDone, Handles
  <2> QED BY <2>1, <2>2
<1>7. /\ Head(wire) \notin Live(p) /\ Head(wire) \notin Chunks(p) /\ Head(wire) \notin Strays(p)
      /\ Head(wire) \notin CodeSays
  <2>1. Head(wire).result \in {"failed", "notfound", "busy"} \/ Head(wire).what = "close"
    BY <1>3, <1>6, DataKinds
  <2> QED BY <1>2, <1>3, <1>5, <2>1, DataKinds DEF CodeSays, Of
<1> DEFINE r == Reply("close", p, fd[p], "done")
<1>8. r \in Said /\ r.pipe = p /\ r.what = "close"
  BY <1>5, Replying, Distinct
<1>9. \/ /\ ~Serving /\ wire' = Append(Tail(wire), r) /\ ends' = ends \ {<<p, fd[p]>>}
         /\ ioRead' = ioRead
      \/ wire' = Tail(wire) /\ ends' = ends /\ ioRead' = [ioRead EXCEPT ![p] = 0]
  <2>1. CASE DataFailed /\ Head(wire) \in Fails
    <3>1. ~Serving
      BY <1>3, <1>4, <2>1 DEF Served
    <3> QED BY <1>2, <2>1, <3>1 DEF DataFailed, Closed, CloseReply, io
  <2>2. CASE CloseDone /\ Head(wire).what = "close"
    BY <1>2, <2>2 DEF CloseDone
  <2> QED BY <1>6, <2>1, <2>2
<1>10. /\ r \notin Live(p) /\ r \notin Chunks(p) /\ r \notin Strays(p) /\ r \notin CodeSays
  BY <1>8, DataKinds DEF CodeSays, Of
<1> HIDE DEF r
<1>11. \A S \in {Live(p), Chunks(p), Strays(p)} :
          (None(wire', S) <=> None(wire, S)) /\ (One(wire, S) => One(wire', S))
  <2>1. \A S \in {Live(p), Chunks(p), Strays(p)} :
           /\ None(Tail(wire), S) <=> None(wire, S)
           /\ One(wire, S) => One(Tail(wire), S)
    BY <1>3, <1>7
  <2>2. \A S \in {Live(p), Chunks(p), Strays(p)} :
           /\ None(Append(Tail(wire), r), S) <=> None(wire, S)
           /\ One(wire, S) => One(Append(Tail(wire), r), S)
    <3>1. \A S : r \notin S =>
             /\ None(Append(Tail(wire), r), S) <=> None(Tail(wire), S)
             /\ One(Tail(wire), S) => One(Append(Tail(wire), r), S)
      BY <1>3, <1>8, Puts
    <3> QED BY <1>10, <2>1, <3>1
  <2>3. wire' = Tail(wire) \/ wire' = Append(Tail(wire), r)
    BY <1>9
  <2> QED BY <2>1, <2>2, <2>3
<1>12. ~Untouched
  <2>1. Head(wire) \in DataSays
    BY <1>2, <1>3, <1>5, DataKinds
  <2> QED BY <1>3, <2>1 DEF Untouched
<1>13. Naming'
  BY <1>1, <1>4, <1>12, TouchedNaming DEF client
<1>14. Touches(p)
  <2>1. Reworks(wire', wire, p)
    <3>1. Reworks(Tail(wire), wire, p)
      BY <1>1, <1>2, ReworksTail
    <3>2. Reworks(Append(Tail(wire), r), wire, p)
      BY <1>3, <1>8, <3>1, ReworksAppend
    <3> QED BY <1>9, <3>1, <3>2
  <2>2. \A q \in DataPipes \ {p} :
           ioRead'[q] = ioRead[q] /\ \A k \in Fds : <<q, k>> \in ends' <=> <<q, k>> \in ends
    BY <1>9, DataSets DEF IInv, Types, HandleTypes
  <2>3. UNCHANGED <<flow, state, rc, hpc, inst, proc, fd, opening, pending, buffered, printed,
                    produced>>
    BY <1>1 DEF client, service, command
  <2> QED BY <1>4, <1>5, <2>1, <2>2, <2>3 DEF Touches, Bounded
<1>15. Token(p)'
  <2>1. Strays(p)' = Strays(p)
    BY <1>5 DEF Strays
  <2>2. ioRead'[p] \in {0, Cur} /\ UNCHANGED <<fd, pending, opening>>
    <3>1. ioRead'[p] = ioRead[p] \/ ioRead'[p] = 0
      BY <1>5, <1>9 DEF IInv, Types, HandleTypes
    <3> QED BY <1>1, <1>4, <3>1 DEF Token, client
  <2>3. /\ None(wire', Live(p)) <=> None(wire, Live(p))
        /\ None(wire', Chunks(p)) <=> None(wire, Chunks(p))
        /\ None(wire', Strays(p)) <=> None(wire, Strays(p))
        /\ One(wire, Live(p)) => One(wire', Live(p))
    BY <1>11
  <2> QED BY <1>4, <1>5, <2>1, <2>2, <2>3 DEF Token
<1>16. Serving => None(wire', Fails) /\ Intact(p)'
  <2> SUFFICES ASSUME Serving PROVE None(wire', Fails) /\ Intact(p)'
    OBVIOUS
  <2>1. wire' = Tail(wire) /\ ends' = ends /\ UNCHANGED <<inst, hpc, pending>>
    BY <1>1, <1>9 DEF service
  <2>2. Intact(p) /\ None(wire, Fails)
    BY <1>4 DEF Served
  <2>3. None(wire', Live(p)) <=> None(wire, Live(p))
    BY <1>11
  <2> QED BY <1>3, <1>5, <2>1, <2>2, <2>3 DEF Intact, Ready
<1>17. p \in Streams => Counts(p)
  <2> SUFFICES ASSUME p \in Streams PROVE Counts(p)
    OBVIOUS
  <2>1. /\ None(wire', Chunks(p)) <=> None(wire, Chunks(p))
        /\ UNCHANGED <<buffered, printed, produced, hpc>>
    BY <1>1, <1>11 DEF service, command
  <2>2. Kept(p)' <=> Kept(p)
    BY <2>1 DEF Kept, OnWire
  <2>3. Before(wire', Chunks(p), CodeSays)
    <3>1. Before(Tail(wire), Chunks(p), CodeSays)
      BY <1>1, <1>4, BeforeTail DEF Sorted
    <3>2. Before(Append(Tail(wire), r), Chunks(p), CodeSays)
      BY <1>3, <1>10, <3>1, BeforeAppend
    <3> QED BY <1>9, <3>1, <3>2
  <2>4. printed'[p] + OnWire(p)' + buffered'[p] <= produced'[p]
    BY <1>4, <2>1 DEF Bounded, OnWire
  <2> QED BY <1>4, <2>1, <2>2, <2>3, <2>4 DEF Counts, Told, Known, Served
<1> QED BY <1>2, <1>13, <1>14, <1>15, <1>16, <1>17, TouchesDelivered DEF Local

\* The read of a data pipe is sent again, after its open or after a chunk.
LEMMA ReadDelivered ==
    ASSUME IInv, Conversation, Delivered, DataOpened \/ DataRead, Mute, Telling' => Telling
    PROVE  Delivered'
<1>1. /\ wire # <<>> /\ wire \in Seq(Said) /\ flow = "loop" /\ Up
      /\ Head(wire) \in Said /\ Head(wire) \notin Malformed /\ Tail(wire) \in Seq(Said)
      /\ \A S : /\ None(wire, S) <=> Head(wire) \notin S /\ None(Tail(wire), S)
                /\ One(wire, S) => One(Tail(wire), S) /\ (Head(wire) \in S => None(Tail(wire), S))
  <2>1. wire # <<>> /\ wire \in Seq(Said) /\ flow = "loop" /\ None(wire, Malformed)
    BY DEF DataOpened, DataRead, Handles, Conversation
  <2> QED BY <2>1, Takes DEF Up
<1>2. Naming /\ Tokens /\ Bounded /\ Served /\ Told /\ Sorted /\ Known
  BY DEF Delivered
<1>3. PICK p \in DataPipes : /\ p = Head(wire).pipe
                             /\ DataOpened => Head(wire) \in Dones(p)
                             /\ DataRead => Head(wire) \in Chunks(p) /\ p \in Streams
  <2>1. CASE DataOpened
    <3>1. /\ Head(wire).what = "open" /\ Head(wire).result = "done"
          /\ Head(wire).pipe \in DataPipes /\ ~DataRead
      BY <2>1 DEF DataOpened, DataRead, Handles
    <3>2. Head(wire) \in Dones(Head(wire).pipe)
      BY <1>1, <3>1, DataKinds
    <3> QED BY <3>1, <3>2
  <2>2. CASE DataRead
    <3>1. Head(wire).what = "read" /\ Head(wire).result = "chunk"
      BY <2>2 DEF DataRead, Handles
    <3>2. "chunk" \notin Messages /\ "chunk" # "failed"
      BY Distinct
    <3>3. Head(wire).pipe \in Streams
      BY <1>1, <3>1, <3>2, Kinds DEF Malformed, Pipes
    <3>4. Head(wire) \in Chunks(Head(wire).pipe)
      BY <1>1, <3>1, DataKinds
    <3>5. ~DataOpened
      BY <3>1 DEF DataOpened, Handles
    <3> QED BY <3>3, <3>4, <3>5, DataSets
  <2> QED BY <2>1, <2>2
<1>4. /\ p # "ctrl" /\ p \in Pipes /\ Cur \in Fds /\ Cur \in 0..MaxConn /\ Token(p)
      /\ Head(wire) \in Live(p)
  BY <1>1, <1>2, <1>3, Currents, DataSets, DataKinds DEF Fds, Tokens
<1> DEFINE e == <<p, Cur>>
<1>5. /\ None(Tail(wire), Live(p)) /\ None(Tail(wire), Chunks(p)) /\ None(Tail(wire), Strays(p))
      /\ e \notin pending /\ None(opening, {p})
      /\ Head(wire) \in Chunks(p) <=> ~None(wire, Chunks(p))
  <2>1. None(Tail(wire), Live(p)) /\ ~None(wire, Live(p))
    BY <1>1, <1>4 DEF Token
  <2>2. None(Tail(wire), Chunks(p)) /\ None(Tail(wire), Strays(p))
    BY <1>1, <1>4, <2>1, NoneSub, DataSets DEF Token
  <2> QED BY <1>1, <1>4, <2>1, <2>2 DEF Token
<1>6. /\ fd' = [fd EXCEPT ![p] = Cur] /\ ioRead' = [ioRead EXCEPT ![p] = Cur]
      /\ SendRead(e, Tail(wire))
      /\ IF DataRead THEN printed' = [printed EXCEPT ![p] = @ + 1] ELSE printed' = printed
  <2>1. CASE DataOpened
    <3>1. Head(wire) \in Dones(p) /\ ~DataRead
      BY <1>3, <2>1 DEF DataOpened, DataRead, Handles
    <3>2. Head(wire).conn = Cur
      BY <1>1, <1>4, <3>1 DEF Token, Strays
    <3>3. ioRead[p] \in {0, Cur}
      BY <1>4 DEF Token
    <3> QED BY <1>3, <2>1, <3>1, <3>2, <3>3 DEF DataOpened, AsyncRead, Cached
  <2>2. CASE DataRead
    <3>1. fd[p] = Cur /\ ioRead[p] \in {0, Cur}
      BY <1>3, <1>4, <1>5, <2>2 DEF Token
    <3>2. fd' = fd /\ fd \in [Pipes -> 0..MaxConn]
      BY <2>2 DEF DataRead, client, IInv, Types, HandleTypes
    <3>3. fd' = [fd EXCEPT ![p] = Cur]
      BY <1>4, <3>1, <3>2
    <3> QED BY <1>3, <2>2, <3>1, <3>3 DEF DataRead, AsyncRead, Cached
  <2> QED BY <2>1, <2>2
<1>7. UNCHANGED <<flow, state, rc, ends, opening, inst, hpc, proc, produced>>
  BY DEF DataOpened, DataRead, client, command
<1>8. /\ Cur' = Cur /\ fd'[p] = Cur /\ ioRead'[p] = Cur
      /\ \A q \in DataPipes \ {p} : fd'[q] = fd[q] /\ ioRead'[q] = ioRead[q]
  <2>1. fd \in [Pipes -> 0..MaxConn] /\ ioRead \in [Pipes -> 0..MaxConn] /\ "ctrl" \in Pipes
    BY DEF IInv, Types, HandleTypes, Pipes
  <2> QED BY <1>4, <1>6, <2>1, DataSets DEF Cur
<1>9. ~Untouched
  BY <1>1, <1>3, <1>4, DataKinds DEF Untouched
<1>10. Naming'
  BY <1>2, <1>7, <1>9, TouchedNaming
<1> DEFINE c == Reply("read", p, Cur, "chunk")
           f == Reply("read", p, Cur, "failed")
<1>11. /\ c \in Said /\ c.pipe = p /\ c \in Chunks(p) /\ c \in Live(p)
       /\ c \notin Strays(p) /\ c \notin CodeSays /\ c \notin Fails
       /\ f \in Said /\ f.pipe = p /\ f \notin Chunks(p) /\ f \notin Live(p)
       /\ f \notin Strays(p) /\ f \notin CodeSays
  <2>1. /\ c \in Said /\ c.what = "read" /\ c.pipe = p /\ c.result = "chunk"
        /\ f \in Said /\ f.what = "read" /\ f.pipe = p /\ f.result = "failed"
    BY <1>4, Replying, Distinct
  <2> HIDE DEF c, f
  <2>2. \A r \in Said : r \in CodeSays => r.pipe = "ctrl"
    BY DEF CodeSays, Of
  <2> QED BY <1>4, <2>1, <2>2, DataKinds
<1>12. /\ p \in Streams => buffered[p] \in Nat
       /\ \/ /\ p \in Streams /\ buffered[p] > 0 /\ e \in ends
             /\ wire' = Append(Tail(wire), c) /\ pending' = pending
             /\ buffered' = [s \in Streams |-> IF s = p THEN buffered[s] - 1 ELSE buffered[s]]
          \/ /\ ~(p \in Streams /\ buffered[p] > 0) /\ e \in ends \cap inst
             /\ wire' = Tail(wire) /\ pending' = pending \cup {e} /\ buffered' = buffered
          \/ /\ ~(p \in Streams /\ buffered[p] > 0 /\ e \in ends) /\ e \notin ends \cap inst
             /\ wire' = Append(Tail(wire), f) /\ pending' = pending /\ buffered' = buffered
  <2>1. e[1] = p /\ e[2] = Cur
    OBVIOUS
  <2>2. HasData(e) <=> p \in Streams /\ buffered[p] > 0
    BY <1>4, <2>1 DEF HasData
  <2>3. ReadReply(e) = c /\ Reply("read", e[1], e[2], "failed") = f
    BY <1>4, <2>1 DEF ReadReply
  <2>4. p \in Streams => buffered[p] \in Nat
    BY <1>2 DEF Bounded
  <2> HIDE DEF e, c, f
  <2>5. SendRead(e, Tail(wire))
    BY <1>6
  <2>6. CASE /\ e \in ends /\ HasData(e)
             /\ wire' = Append(Tail(wire), ReadReply(e))
             /\ buffered' = [s \in Streams |-> IF s = e[1] THEN buffered[s] - 1 ELSE buffered[s]]
             /\ UNCHANGED pending
    BY <2>1, <2>2, <2>3, <2>4, <2>6
  <2>7. CASE /\ Open(e) /\ ~HasData(e)
             /\ pending' = pending \cup {e}
             /\ wire' = Tail(wire)
             /\ UNCHANGED <<reply, buffered>>
    BY <2>2, <2>4, <2>7 DEF Open
  <2>8. CASE /\ e \notin ends \/ (e \notin inst /\ ~HasData(e))
             /\ wire' = Append(Tail(wire), Reply("read", e[1], e[2], "failed"))
             /\ UNCHANGED <<pending, reply, buffered>>
    BY <2>2, <2>3, <2>4, <2>8
  <2> QED BY <2>5, <2>6, <2>7, <2>8 DEF SendRead
<1> HIDE DEF c, f
<1>13. \A r \in {c, f} : \A S :
          /\ None(Append(Tail(wire), r), S) <=> None(Tail(wire), S) /\ r \notin S
          /\ One(Tail(wire), S) /\ (r \notin S \/ None(Tail(wire), S)) =>
                One(Append(Tail(wire), r), S)
  BY ZenonT(30), <1>1, <1>11, Puts
<1>14. Reworks(wire', wire, p)
  <2>1. Reworks(Tail(wire), wire, p)
    BY <1>1, <1>3, ReworksTail
  <2>2. \A r \in {c, f} : Reworks(Append(Tail(wire), r), wire, p)
    BY <1>1, <1>11, <2>1, ReworksAppend
  <2> QED BY <1>12, <2>1, <2>2
<1>15. /\ buffered' \in [Streams -> Nat] /\ printed' \in [Streams -> Nat]
       /\ \A s \in Streams \ {p} : buffered'[s] = buffered[s] /\ printed'[s] = printed[s]
  <2>1. buffered \in [Streams -> Nat] /\ printed \in [Streams -> Nat]
    BY <1>2 DEF Bounded
  <2>2. buffered' \in [Streams -> Nat]
    <3>1. p \in Streams /\ buffered[p] > 0 => buffered[p] - 1 \in Nat
      BY <1>12
    <3>2. p \in Streams /\ buffered[p] > 0 =>
             [s \in Streams |-> IF s = p THEN buffered[s] - 1 ELSE buffered[s]]
                \in [Streams -> Nat]
      BY <2>1, <3>1
    <3> QED BY <1>12, <2>1, <3>2
  <2>3. printed' \in [Streams -> Nat]
    BY <1>6, <2>1
  <2> QED BY <1>6, <1>12, <2>1, <2>2, <2>3
<1>16. Touches(p)
  <2>1. produced' \in [Streams -> 0..MaxOut]
    BY <1>2, <1>7 DEF Bounded
  <2>2. \A q \in DataPipes \ {p} : \A j \in Fds : <<q, j>> \in pending' <=> <<q, j>> \in pending
    BY <1>12
  <2> QED BY <1>7, <1>8, <1>14, <1>15, <2>1, <2>2 DEF Touches
<1>17. Token(p)'
  <2>1. Strays(p)' = Strays(p)
    BY <1>8 DEF Strays
  <2>2. None(wire', Strays(p)) /\ One(wire', Live(p)) /\ UNCHANGED opening
    <3>1. One(Tail(wire), Live(p))
      BY <1>5, NoneOne
    <3>2. \A r \in {c, f} : /\ None(Append(Tail(wire), r), Strays(p))
                            /\ One(Append(Tail(wire), r), Live(p))
      BY <1>5, <1>11, <1>13, <3>1
    <3> QED BY <1>5, <1>7, <1>12, <3>1, <3>2
  <2>3. e \in pending' => None(wire', Live(p))
    BY <1>5, <1>12
  <2>4. None(opening', {p}) /\ One(opening', {p})
    BY <1>5, <1>7, NoneOne
  <2>5. \A k \in Fds : <<p, k>> \in pending' => k = Cur
    BY <1>4, <1>12 DEF Token
  <2> QED BY <1>8, <2>1, <2>2, <2>3, <2>4, <2>5 DEF Token
<1>18. Serving => None(wire', Fails) /\ Intact(p)'
  <2> SUFFICES ASSUME Serving PROVE None(wire', Fails) /\ Intact(p)'
    OBVIOUS
  <2>1. e \in ends \cap inst /\ None(Tail(wire), Fails)
    BY <1>1, <1>2, <1>4 DEF Served, Intact
  <2>2. None(wire', Fails)
    BY <1>11, <1>12, <1>13, <2>1
  <2> QED BY <1>7, <1>8, <2>1, <2>2 DEF Intact
<1>19. p \in Streams => Counts(p)
  <2> SUFFICES ASSUME p \in Streams PROVE Counts(p)
    OBVIOUS
  <2>1. /\ printed[p] \in Nat /\ buffered[p] \in Nat /\ produced[p] \in Nat
        /\ printed[p] + OnWire(p) + buffered[p] <= produced[p]
    <3>1. MaxOut \in Nat
      BY WinexeAssumption
    <3> QED BY <1>2, <3>1 DEF Bounded
  <2>2. printed'[p] = printed[p] + OnWire(p)
    <3>1. CASE DataRead
      <4>1. OnWire(p) = 1
        BY <1>3, <1>5, <3>1 DEF OnWire
      <4> QED BY <1>2, <1>6, <3>1, <4>1 DEF Bounded
    <3>2. CASE ~DataRead
      <4>1. Head(wire) \in Dones(p)
        BY <1>3, <3>2
      <4>2. Head(wire) \notin Chunks(p)
        BY <1>1, <4>1, DataKinds
      <4>3. OnWire(p) = 0
        BY <1>5, <4>2 DEF OnWire
      <4> QED BY <1>6, <2>1, <3>2, <4>3
    <3> QED BY <3>1, <3>2
  <2>3. OnWire(p) \in Nat /\ OnWire(p)' \in Nat
    BY DEF OnWire
  <2>4. /\ OnWire(p)' + buffered'[p] = buffered[p]
        /\ buffered[p] = 0 => None(wire', Chunks(p)) /\ buffered'[p] = 0
    <3>1. CASE /\ buffered[p] > 0 /\ wire' = Append(Tail(wire), c)
               /\ buffered' = [s \in Streams |-> IF s = p THEN buffered[s] - 1 ELSE buffered[s]]
      <4>1. ~None(wire', Chunks(p))
        BY <1>11, <1>13, <3>1
      <4>2. OnWire(p)' = 1 /\ buffered'[p] = buffered[p] - 1
        BY <3>1, <4>1 DEF OnWire
      <4> QED BY <2>1, <3>1, <4>2
    <3>2. CASE /\ wire' \in {Tail(wire), Append(Tail(wire), f)} /\ buffered' = buffered
      <4>1. None(wire', Chunks(p))
        BY <1>5, <1>11, <1>13, <3>2
      <4>2. OnWire(p)' = 0
        BY <4>1 DEF OnWire
      <4> QED BY <2>1, <3>2, <4>1, <4>2
    <3> QED BY <1>12, <3>1, <3>2
  <2>5. printed'[p] + OnWire(p)' + buffered'[p] = printed[p] + OnWire(p) + buffered[p]
    <3>1. buffered'[p] \in Nat
      BY <1>15
    <3> QED BY <2>1, <2>2, <2>3, <2>4, <3>1
  <2>6. produced' = produced
    BY <1>7
  <2>7. Kept(p)' <=> Kept(p)
    BY <2>5, <2>6 DEF Kept
  <2>8. Before(wire', Chunks(p), CodeSays)
    <3>1. Before(Tail(wire), Chunks(p), CodeSays)
      BY <1>1, <1>2, BeforeTail DEF Sorted
    <3>2. wire' = Append(Tail(wire), c) => None(Tail(wire), CodeSays)
      <4> SUFFICES ASSUME ~None(wire, CodeSays) PROVE wire' # Append(Tail(wire), c)
        BY <1>1
      <4>1. buffered[p] = 0
        BY <1>1, <1>2 DEF Told, Telling
      <4>2. None(wire', Chunks(p))
        BY <2>4, <4>1
      <4> QED BY <1>11, <1>13, <4>2
    <3>3. f \notin Chunks(p) /\ c \notin CodeSays /\ f \notin CodeSays
      BY <1>11
    <3>4. CASE wire' = Append(Tail(wire), c)
      BY <1>1, <3>1, <3>2, <3>3, <3>4, BeforeAppend
    <3>5. CASE wire' = Append(Tail(wire), f)
      BY <1>1, <3>1, <3>3, <3>5, BeforeAppend
    <3> QED BY <1>12, <3>1, <3>4, <3>5
  <2>9. Telling => Kept(p)' /\ buffered'[p] = 0
    BY <1>2, <2>4, <2>7 DEF Told
  <2>10. rc \in Codes => printed'[p] = produced'[p] /\ buffered'[p] = 0 /\ None(wire', Chunks(p))
    <3> SUFFICES ASSUME rc \in Codes
                 PROVE  printed'[p] = produced'[p] /\ buffered'[p] = 0 /\ None(wire', Chunks(p))
      OBVIOUS
    <3>1. printed[p] = produced[p] /\ buffered[p] = 0 /\ OnWire(p) = 0
      BY <1>2 DEF Known, OnWire
    <3> QED BY <2>1, <2>2, <2>4, <2>6, <3>1
  <2>11. Serving /\ hpc[Cur] \in After => Kept(p)'
    BY <1>2, <2>7 DEF Served
  <2>12. printed'[p] + OnWire(p)' + buffered'[p] <= produced'[p]
    BY <2>1, <2>5, <2>6
  <2> QED BY <2>4, <2>8, <2>9, <2>10, <2>11, <2>12 DEF Counts
<1> QED BY <1>3, <1>10, <1>16, <1>17, <1>18, <1>19, TouchesDelivered DEF Local

\* While the command runs no code is known, nor told, nor about to be told.
LEMMA NotTold ==
    ASSUME IInv, Commanded, proc = "running"
    PROVE  /\ owner = Cur /\ state = "RUNNING"
           /\ ~Telling /\ rc \notin Codes /\ None(wire, CodeSays)
           /\ Cur # 0 => hpc[Cur] \notin {"flushOut", "flushErr", "code"}
<1>1. ec \notin Codes /\ owner = Cur /\ state = "RUNNING"
  BY DEF Commanded, Started
<1>2. Unearned = Codes
  BY <1>1 DEF Unearned, Earned
<1>3. /\ rc \notin Codes /\ None(wire, CodeSays)
      /\ \A k \in Conns : reply[k] \notin Codes
  BY <1>2 DEF Commanded, Result, CodeSays
<1>4. Cur # 0 => hpc[Cur] \notin {"flushOut", "flushErr", "code"}
  BY <1>1, Currents DEF IInv, Types, CodeKnown
<1> QED BY <1>1, <1>3, <1>4 DEF Telling

\* The command writes a chunk.
LEMMA ProduceDelivered ==
    ASSUME IInv, Conversation, Commanded, Delivered, NEW p \in Streams, Produce(p), Mute,
           Telling' => Telling
    PROVE  Delivered'
<1>1. Naming /\ Tokens /\ Bounded /\ Served /\ Told /\ Sorted /\ Known /\ wire \in Seq(Said)
  BY DEF Delivered, Conversation
<1>2. /\ owner = Cur /\ state = "RUNNING" /\ ~Telling /\ rc \notin Codes /\ None(wire, CodeSays)
      /\ Cur # 0 => hpc[Cur] \notin {"flushOut", "flushErr", "code"}
      /\ proc = "running"
  BY NotTold DEF Produce
<1>3. /\ p # "ctrl" /\ p \in Pipes /\ p \in DataPipes /\ Cur \in Fds /\ Cur \in 0..MaxConn
      /\ Token(p)
  BY <1>1, Currents, DataSets DEF Fds, Tokens
<1> DEFINE e == <<p, Cur>>
           c == Reply("read", p, Cur, "chunk")
<1>4. /\ produced[p] < MaxOut /\ produced' = [produced EXCEPT ![p] = @ + 1]
      /\ UNCHANGED <<flow, client, io, ends, opening, inst, hpc, proc, printed>>
      /\ \/ /\ e \in pending
            /\ wire' = Append(wire, c) /\ pending' = pending \ {e} /\ buffered' = buffered
         \/ /\ e \notin pending /\ wire' = wire /\ pending' = pending
            /\ e \in ends \cap inst => buffered' = [buffered EXCEPT ![p] = @ + 1]
            /\ e \notin ends \cap inst => buffered' = buffered
  BY <1>2 DEF Produce, Open, service
<1>5. /\ c \in Said /\ c.pipe = p /\ c \in Chunks(p) /\ c \in Live(p)
      /\ c \notin Strays(p) /\ c \notin CodeSays /\ c \notin Fails
  <2>1. c \in Said /\ c.what = "read" /\ c.pipe = p /\ c.result = "chunk"
    BY <1>3, Replying, Distinct
  <2> HIDE DEF c
  <2>2. c \in CodeSays => c.pipe = "ctrl"
    BY DEF CodeSays, Of
  <2> QED BY <1>3, <2>1, <2>2, DataKinds
<1> HIDE DEF c
<1>6. \A S : /\ None(Append(wire, c), S) <=> None(wire, S) /\ c \notin S
             /\ One(wire, S) /\ (c \notin S \/ None(wire, S)) => One(Append(wire, c), S)
  BY <1>1, <1>5, Puts
<1>7. UNCHANGED <<fd, ioRead, state, rc>> /\ Cur' = Cur
  BY <1>4 DEF client, io, Cur
<1>8. Naming'
  <2>1. CASE e \in pending
    <3>1. ~Untouched
      BY <1>3, <2>1 DEF Untouched
    <3> QED BY <1>1, <1>7, <3>1, TouchedNaming
  <2>2. CASE e \notin pending
    <3>1. Untouched => Untouched'
      BY <1>4, <1>7, <2>2 DEF Untouched
    <3> QED BY <1>1, <1>7, <3>1, MuteNaming
  <2> QED BY <2>1, <2>2
<1>9. /\ buffered \in [Streams -> Nat] /\ printed \in [Streams -> Nat] /\ MaxOut \in Nat
      /\ produced \in [Streams -> 0..MaxOut]
  BY <1>1, WinexeAssumption DEF Bounded
<1>10. /\ buffered' \in [Streams -> Nat] /\ produced' \in [Streams -> 0..MaxOut]
       /\ produced'[p] = produced[p] + 1
       /\ \A s \in Streams \ {p} : buffered'[s] = buffered[s] /\ produced'[s] = produced[s]
  <2>1. buffered[p] + 1 \in Nat /\ produced[p] + 1 \in 0..MaxOut
    BY <1>4, <1>9
  <2> QED BY <1>4, <1>9, <2>1
<1>11. Touches(p)
  <2>1. Reworks(wire, wire, p) /\ Reworks(Append(wire, c), wire, p)
    BY <1>1, <1>5, ReworksSame, ReworksAppend
  <2>2. \A q \in DataPipes \ {p} : \A k \in Fds : <<q, k>> \in pending' <=> <<q, k>> \in pending
    BY <1>4
  <2>3. Reworks(wire', wire, p)
    BY <1>4, <2>1
  <2> QED BY <1>2, <1>4, <1>7, <1>9, <1>10, <2>2, <2>3 DEF Touches
<1>12. OnWire(p) \in Nat /\ OnWire(p)' \in Nat
  BY DEF OnWire
<1>13. CASE e \in pending
  <2>1. None(wire, Live(p)) /\ fd[p] = Cur /\ None(wire, Chunks(p))
    <3>1. None(wire, Live(p)) /\ fd[p] = Cur
      BY <1>3, <1>13 DEF Token
    <3> QED BY <1>3, <3>1, DataSets, NoneSub
  <2>2. wire' = Append(wire, c) /\ pending' = pending \ {e} /\ buffered' = buffered
    BY <1>4, <1>13
  <2>3. Token(p)'
    <3>1. Strays(p)' = Strays(p)
      BY <1>7 DEF Strays
    <3>2. None(wire', Strays(p)) /\ One(wire', Live(p))
      BY <1>3, <1>5, <1>6, <2>1, <2>2, NoneOne DEF Token
    <3>3. /\ e \notin pending' /\ \A k \in Fds : <<p, k>> \in pending' => k = Cur
      BY <1>3, <2>2 DEF Token
    <3>4. opening' = opening /\ None(opening, {p})
      BY <1>3, <1>4, <1>13 DEF Token
    <3> QED BY <1>3, <1>7, <2>1, <3>1, <3>2, <3>3, <3>4 DEF Token
  <2>4. OnWire(p)' = OnWire(p) + 1
    <3>1. ~None(wire', Chunks(p))
      BY <1>5, <1>6, <2>2
    <3> QED BY <2>1, <3>1 DEF OnWire
  <2>5. Serving => None(wire', Fails) /\ Intact(p)'
    <3> SUFFICES ASSUME Serving PROVE None(wire', Fails) /\ Intact(p)'
      OBVIOUS
    <3>1. e \in ends \cap inst /\ None(wire, Fails)
      BY <1>1, <1>3, <1>13 DEF Served, Intact
    <3> QED BY <1>4, <1>5, <1>6, <1>7, <2>2, <3>1 DEF Intact
  <2>6. Before(wire', Chunks(p), CodeSays)
    BY <1>1, <1>2, <1>5, <2>2, BeforeAppend DEF Sorted
  <2>7. Counts(p)
    <3>1. printed'[p] + OnWire(p)' + buffered'[p] = printed[p] + OnWire(p) + buffered[p] + 1
      BY <1>4, <1>9, <1>12, <2>2, <2>4
    <3>2. Kept(p)' <=> Kept(p)
      BY <1>9, <1>10, <1>12, <3>1 DEF Kept
    <3>3. printed'[p] + OnWire(p)' + buffered'[p] <= produced'[p]
      BY <1>1, <1>9, <1>10, <1>12, <3>1 DEF Bounded
    <3> QED BY <1>1, <1>2, <2>2, <2>6, <3>2, <3>3 DEF Counts, Served
  <2> QED BY <1>3, <1>8, <1>11, <2>3, <2>5, <2>7, TouchesDelivered DEF Local
<1>14. CASE e \notin pending
  <2>1. wire' = wire /\ pending' = pending /\ OnWire(p)' = OnWire(p)
    BY <1>4, <1>14 DEF OnWire
  <2>2. Token(p)'
    BY <1>3, <1>4, <1>7, <2>1 DEF Token, Strays
  <2>3. Serving => None(wire', Fails) /\ Intact(p)'
    BY <1>1, <1>3, <1>4, <1>7, <2>1 DEF Served, Intact, Ready
  <2>4. /\ buffered'[p] \in {buffered[p], buffered[p] + 1}
        /\ Serving /\ hpc[Cur] \in After => buffered'[p] = buffered[p] + 1
    <3>1. Serving /\ hpc[Cur] \in After => e \in ends \cap inst
      BY <1>1, <1>3 DEF Served, Intact, Ready
    <3> QED BY <1>4, <1>9, <1>14, <3>1
  <2>5. Counts(p)
    <3>1. Serving /\ hpc[Cur] \in After => Kept(p)'
      <4> SUFFICES ASSUME Serving, hpc[Cur] \in After PROVE Kept(p)'
        OBVIOUS
      <4>1. printed[p] + OnWire(p) + buffered[p] = produced[p]
        BY <1>1 DEF Served, Kept
      <4>2. printed'[p] + OnWire(p)' + buffered'[p] = produced'[p]
        BY <1>4, <1>9, <1>10, <1>12, <2>1, <2>4, <4>1
      <4> QED BY <4>2 DEF Kept
    <3>2. printed'[p] + OnWire(p)' + buffered'[p] <= produced'[p]
      <4>1. printed[p] + OnWire(p) + buffered[p] <= produced[p]
        BY <1>1 DEF Bounded
      <4> QED BY <1>4, <1>9, <1>10, <1>12, <2>1, <2>4, <4>1
    <3>3. ~(Serving /\ hpc[Cur] \in {"flushErr", "code"})
      BY <1>2 DEF Serving
    <3>4. Before(wire', Chunks(p), CodeSays)
      BY <1>1, <2>1 DEF Sorted
    <3> QED BY <1>2, <3>1, <3>2, <3>3, <3>4 DEF Counts
  <2> QED BY <1>3, <1>8, <1>11, <2>2, <2>3, <2>5, TouchesDelivered DEF Local
<1> QED BY <1>13, <1>14

-----------------------------------------------------------------------------
\* The handlers of the service.

\* A handler takes lines from its inbox, and adds none.
LEMMA HandlerTakes ==
    ASSUME NEW k \in Conns, HandleConnection(k)
    PROVE  /\ inbox' = inbox \/ \E line : Gets(k, line)
           /\ flow' = flow
BY DEF HandleConnection, NoMemory, Flush, GetsEof, GetVersion, SetSystem, UnknownCommand, Run,
       RunFails, Connect, ConnectFails, CreateProcess, CreateProcessFails, Terminate,
       ProcessDone, FlushStream, ReturnCode, DisconnectData, Finish, Says, Moves

LEMMA HandlerMute ==
    ASSUME IInv, Conversation, NEW k \in Conns, HandleConnection(k)
    PROVE  /\ ~Run(k) => Mute
           /\ ~ReturnCode(k) => (Telling' => Telling)
<1>1. Ordering' => Ordering
  <2>1. ASSUME NEW j \in Conns, ~None(inbox'[j], RunLine) PROVE ~None(inbox[j], RunLine)
    <3>1. CASE inbox' = inbox
      BY <2>1, <3>1
    <3>2. CASE \E line : Gets(k, line)
      <4>1. inbox[k] # <<>> /\ inbox' = [inbox EXCEPT ![k] = Tail(@)]
        BY <3>2 DEF Gets
      <4>2. inbox \in [Conns -> Seq(Lines)]
        BY DEF IInv, Types, Speak
      <4> QED BY <2>1, <4>1, <4>2, OrdersTail
    <3> QED BY <3>1, <3>2, HandlerTakes
  <2> QED BY <2>1 DEF Ordering
<1>2. ASSUME ~Run(k) PROVE Mute
  <2> DEFINE X == {"std_io_err"}
  <2>1. Quiets(X)
    <3>1. CASE ~ReturnCode(k)
      BY <1>2, <3>1, HandlerQuiets
    <3>2. CASE ReturnCode(k)
      <4>1. ec \in Codes
        BY <3>2 DEF ReturnCode, IInv, Types, CodeKnown
      <4>2. ec \in Messages \ X /\ X \in SUBSET Messages
        BY <4>1, WinexeAssumption DEF Codes, Messages
      <4> QED BY <3>2, <4>2, MovesQuiets DEF ReturnCode
    <3> QED BY <3>1, <3>2
  <2>2. /\ \A j \in Conns : reply'[j] = reply[j] \/ reply'[j] # "std_io_err"
        /\ None(wire, NamedSays) => None(wire', NamedSays)
    BY <2>1 DEF Quiets, NamedSays
  <2> QED BY <1>1, <2>2 DEF Mute, Named
<1>3. ASSUME ~ReturnCode(k) PROVE Telling' => Telling
  <2>1. Quiets(Codes)
    BY <1>3, HandlerQuiets
  <2>2. /\ \A j \in Conns : reply'[j] = reply[j] \/ reply'[j] \notin Codes
        /\ None(wire, CodeSays) => None(wire', CodeSays)
    BY <2>1 DEF Quiets, CodeSays
  <2> QED BY <2>2, HandlerTakes DEF Telling, Up
<1> QED BY <1>2, <1>3

\* A handler goes on to serve the command.
LEMMA StepServed ==
    ASSUME IInv, Served, Aloof, Cur' = Cur, Up' => Up,
           \A p \in DataPipes, j \in Fds : <<p, j>> \in inst => <<p, j>> \in inst',
           NEW k \in Conns, NEW next, hpc' = [hpc EXCEPT ![k] = next],
           hpc[k] \in Path \cup After,
           ASSUME Serving, k = Cur
           PROVE  /\ \A p \in DataPipes :
                        next \in Ready(p) => hpc[k] \in Ready(p) \/ <<p, k>> \in ends
                  /\ next \in After => \A s \in Streams : Kept(s)
                  /\ next \in {"flushErr", "code"} => buffered["out"] = 0
                  /\ next = "code" => buffered["err"] = 0
    PROVE  Served'
<1>0. hpc \in [Conns -> Handlers]
  BY DEF IInv, Types, ServiceTypes
<1>1. CASE k # Cur
  <2>1. Cur # 0 => hpc'[Cur] = hpc[Cur]
    BY <1>1, Currents
  <2> QED BY <2>1, AloofServed
<1>2. CASE k = Cur
  <2> SUFFICES ASSUME Serving'
               PROVE  /\ None(wire', Fails) /\ \A p \in DataPipes : Intact(p)'
                      /\ next \in After => \A s \in Streams : Kept(s)'
                      /\ next \in {"flushErr", "code"} => buffered'["out"] = 0
                      /\ next = "code" => buffered'["err"] = 0
    BY <1>0, <1>2 DEF Served
  <2>1. Serving /\ hpc'[Cur] = next
    BY <1>0, <1>2, ConnsNat DEF Serving
  <2>2. Cur \in Fds
    BY Currents DEF Fds
  <2>3. \A S : S \subseteq DataSays => (None(wire', S) <=> None(wire, S))
    BY DEF Aloof, Spares, Alike
  <2>4. None(wire', Fails)
    BY <2>1, <2>3, DataSets DEF Served
  <2>5. ASSUME NEW p \in DataPipes PROVE Intact(p)'
    <3>1. None(wire', Live(p)) <=> None(wire, Live(p))
      BY <2>3, DataSets
    <3>2. /\ <<p, Cur>> \in inst'
          /\ <<p, Cur>> \in ends' <=> <<p, Cur>> \in ends
          /\ <<p, Cur>> \in pending' <=> <<p, Cur>> \in pending
      BY <2>1, <2>2 DEF Served, Intact, Aloof, Spares
    <3>3. ~None(wire, Live(p)) \/ <<p, Cur>> \in pending \/ hpc[Cur] \in Ready(p) =>
             <<p, Cur>> \in ends
      BY <2>1 DEF Served, Intact
    <3>4. next \in Ready(p) => hpc[k] \in Ready(p) \/ <<p, k>> \in ends
      BY <1>2, <2>1
    <3> QED BY <1>2, <2>1, <3>1, <3>2, <3>3, <3>4 DEF Intact, Ready
  <2>6. \A s \in Streams : Kept(s)' <=> Kept(s)
    BY <2>3, DataSets DEF Kept, OnWire, Aloof, Spares
  <2>7. buffered' = buffered
    BY DEF Aloof, Spares
  <2> QED BY <1>2, <2>1, <2>4, <2>5, <2>6, <2>7
<1> QED BY <1>1, <1>2

\* What a handler does to the service of the command.
LEMMA HandlerServed ==
    ASSUME IInv, Conversation, Commanded, Delivered, NEW k \in Conns, HandleConnection(k),
           ~DisconnectData(k), ~Run(k)
    PROVE  Served'
<1>1. /\ Aloof /\ UNCHANGED <<flow, state, fd, rc>>
      /\ \A p \in DataPipes, j \in Fds : <<p, j>> \in inst => <<p, j>> \in inst'
  BY HandlerAloof
<1>2. Served /\ Bounded /\ Cur' = Cur /\ (Up' => Up) /\ (Cur # 0 => Cur \in Conns)
  BY <1>1, Currents DEF Delivered, Cur, Up
<1>3. hpc \in [Conns -> Handlers] /\ k \in Fds
  BY ConnsNat DEF IInv, Types, ServiceTypes, Fds
<1>4. ASSUME NEW next, hpc' = [hpc EXCEPT ![k] = next], next \notin Path \cup After
      PROVE  Served'
  <2>1. Cur # 0 => hpc'[Cur] = hpc[Cur] \/ hpc'[Cur] \notin Path \cup After
    BY <1>2, <1>3, <1>4
  <2> QED BY <1>1, <1>2, <2>1, AloofServed
<1>5. CASE SetSystem(k)
  <2>1. hpc' = hpc
    BY <1>5 DEF SetSystem
  <2> QED BY <1>1, <1>2, <2>1, AloofServed
<1>6. CASE \/ NoMemory(k) \/ Flush(k, "flushLost", "lost")
           \/ GetsEof(k) \/ GetVersion(k) \/ UnknownCommand(k) \/ RunFails(k)
           \/ Flush(k, "flushAnswer", "gets") \/ Flush(k, "flushFailure", "finish")
           \/ ConnectFails(k, "in", "connectIn") \/ ConnectFails(k, "out", "connectOut")
           \/ ConnectFails(k, "err", "connectErr") \/ CreateProcessFails(k) \/ ReturnCode(k)
           \/ Flush(k, "flushCode", "disconnect") \/ Finish(k)
  <2>1. \E next \in {"flushLost", "lost", "finish", "flushAnswer", "flushFailure", "gets",
                     "flushCode", "disconnect", "gone"} : hpc' = [hpc EXCEPT ![k] = next]
    BY <1>6 DEF NoMemory, Flush, GetsEof, GetVersion, UnknownCommand, RunFails, ConnectFails,
                CreateProcessFails, ReturnCode, Finish, Says, Moves
  <2> QED BY <1>4, <2>1 DEF Path, After
<1> DEFINE Goal(next) ==
        /\ \A p \in DataPipes : next \in Ready(p) => hpc[k] \in Ready(p) \/ <<p, k>> \in ends
        /\ next \in After => \A s \in Streams : Kept(s)
        /\ next \in {"flushErr", "code"} => buffered["out"] = 0
        /\ next = "code" => buffered["err"] = 0
<1>7. ASSUME NEW at \in Path \cup After, NEW next, hpc[k] = at, hpc' = [hpc EXCEPT ![k] = next],
             Serving /\ k = Cur => Goal(next)
      PROVE  Served'
  BY <1>1, <1>2, <1>7, StepServed
<1>8. CASE Flush(k, "flushPipes", "connectIn")
  <2>1. hpc[k] = "flushPipes" /\ hpc' = [hpc EXCEPT ![k] = "connectIn"]
    BY <1>8 DEF Flush, Moves
  <2>2. Goal("connectIn")
    BY DEF Ready, After
  <2> QED BY <1>7, <2>1, <2>2 DEF Path
<1>9. CASE Connect(k, "in", "connectIn", "connectOut")
  <2>1. hpc[k] = "connectIn" /\ hpc' = [hpc EXCEPT ![k] = "connectOut"] /\ <<"in", k>> \in ends
    BY <1>9 DEF Connect, Moves
  <2>2. Goal("connectOut")
    BY <2>1 DEF Ready, After
  <2> QED BY <1>7, <2>1, <2>2 DEF Path
<1>10. CASE Connect(k, "out", "connectOut", "connectErr")
  <2>1. hpc[k] = "connectOut" /\ hpc' = [hpc EXCEPT ![k] = "connectErr"] /\ <<"out", k>> \in ends
    BY <1>10 DEF Connect, Moves
  <2>2. Goal("connectErr")
    BY <2>1 DEF Ready, After
  <2> QED BY <1>7, <2>1, <2>2 DEF Path
<1>11. CASE Connect(k, "err", "connectErr", "create")
  <2>1. hpc[k] = "connectErr" /\ hpc' = [hpc EXCEPT ![k] = "create"] /\ <<"err", k>> \in ends
    BY <1>11 DEF Connect, Moves
  <2>2. \A p \in DataPipes : hpc[k] \in Ready(p) \/ <<p, k>> \in ends
    BY <2>1 DEF Ready, After, DataPipes
  <2>3. Goal("create")
    BY <2>2 DEF After
  <2> QED BY <1>7, <2>1, <2>3 DEF Path
<1>12. CASE CreateProcess(k)
  <2>1. hpc[k] = "create" /\ hpc' = [hpc EXCEPT ![k] = "wait"]
    BY <1>12 DEF CreateProcess, Moves
  <2>2. proc = "none"
    BY <2>1 DEF Commanded, Staged, Path
  <2>3. ASSUME NEW s \in Streams PROVE Kept(s)
    <3>1. /\ printed[s] \in Nat /\ buffered[s] \in Nat /\ produced[s] = 0 /\ OnWire(s) \in Nat
          /\ printed[s] + OnWire(s) + buffered[s] <= produced[s]
      BY <1>2, <2>2 DEF Bounded, OnWire
    <3> QED BY <3>1 DEF Kept
  <2>4. Goal("wait")
    BY <2>1, <2>3 DEF Ready
  <2> QED BY <1>7, <2>1, <2>4 DEF Path
<1>13. CASE Terminate(k) \/ ProcessDone(k)
  <2>1. hpc[k] = "wait" /\ hpc' = [hpc EXCEPT ![k] = "flushOut"]
    BY <1>13 DEF Terminate, ProcessDone, Moves
  <2>2. Serving /\ k = Cur => Goal("flushOut")
    BY <1>2, <2>1 DEF Ready, After, Served
  <2> QED BY <1>7, <2>1, <2>2 DEF After
<1>14. ASSUME NEW s \in Streams, buffered[s] = 0 \/ <<s, k>> \notin ends, hpc[k] \in After,
              Serving, k = Cur
       PROVE  buffered[s] = 0
  <2>1. <<s, k>> \in ends
    BY <1>2, <1>14, DataSets DEF Served, Intact, Ready
  <2> QED BY <1>14, <2>1
<1>15. CASE FlushStream(k, "out", "flushOut", "flushErr")
  <2>1. /\ hpc[k] = "flushOut" /\ hpc' = [hpc EXCEPT ![k] = "flushErr"]
        /\ buffered["out"] = 0 \/ <<"out", k>> \notin ends
    BY <1>15 DEF FlushStream, Moves
  <2>2. Serving /\ k = Cur => buffered["out"] = 0
    BY <1>14, <2>1 DEF After, Streams
  <2>3. Serving /\ k = Cur => Goal("flushErr")
    BY <1>2, <2>1, <2>2 DEF Ready, After, Served
  <2> QED BY <1>7, <2>1, <2>3 DEF After
<1>16. CASE FlushStream(k, "err", "flushErr", "code")
  <2>1. /\ hpc[k] = "flushErr" /\ hpc' = [hpc EXCEPT ![k] = "code"]
        /\ buffered["err"] = 0 \/ <<"err", k>> \notin ends
    BY <1>16 DEF FlushStream, Moves
  <2>2. Serving /\ k = Cur => buffered["err"] = 0
    BY <1>14, <2>1 DEF After, Streams
  <2>3. Serving /\ k = Cur => Goal("code")
    BY <1>2, <2>1, <2>2 DEF Ready, After, Served
  <2> QED BY <1>7, <2>1, <2>3 DEF After
<1> QED BY <1>5, <1>6, <1>8, <1>9, <1>10, <1>11, <1>12, <1>13, <1>15, <1>16 DEF HandleConnection

\* The command is taken, and its pipes are named to the client.
LEMMA RunDelivered ==
    ASSUME IInv, IInv', Conversation, Commanded, Delivered, NEW k \in Conns, Run(k)
    PROVE  Delivered'
<1>1. HandleConnection(k) /\ ~DisconnectData(k) /\ ~ReturnCode(k)
  BY DEF HandleConnection, Run, Gets, DisconnectData, ReturnCode
<1>2. /\ Aloof /\ UNCHANGED <<flow, state, fd, rc>>
      /\ \A p \in DataPipes, j \in Fds : <<p, j>> \in inst => <<p, j>> \in inst'
      /\ (proc' = "none" => proc = "none") /\ (Telling' => Telling) /\ Cur' = Cur
  BY <1>1, HandlerAloof, HandlerMute DEF Cur
<1>3. /\ hpc' = [hpc EXCEPT ![k] = "flushPipes"] /\ Hprintf(k, "std_io_err")
      /\ inst' = inst \cup {<<p, k>> : p \in DataPipes}
      /\ inbox[k] # <<>> /\ Head(inbox[k]) = "run" /\ inbox' = [inbox EXCEPT ![k] = Tail(@)]
  BY DEF Run, Says, Gets
<1>4. inbox \in [Conns -> Seq(Lines)] /\ hpc \in [Conns -> Handlers]
  BY DEF IInv, Types, Speak, ServiceTypes
<1>5. ~None(inbox[k], RunLine) /\ None(inbox'[k], RunLine)
  <2>1. Orders(inbox[k]) /\ inbox'[k] = Tail(inbox[k])
    BY <1>3, <1>4 DEF Commanded, Ordered
  <2>2. None(Tail(inbox[k]), NotAbort)
    BY <1>3, <1>4, <2>1, OrdersTail
  <2>3. RunLine \subseteq NotAbort
    BY DEF RunLine, NotAbort, Lines
  <2>4. ~None(inbox[k], RunLine)
    BY <1>3, <1>4, NoneTail DEF RunLine
  <2> QED BY <2>1, <2>2, <2>3, <2>4, NoneSub
<1>6. k = Cur /\ state = "RUNNING" /\ \A j \in Conns : j # k => None(inbox[j], RunLine)
  BY <1>5 DEF Commanded, Ordered
<1>7. /\ Naming /\ Tokens /\ Bounded /\ Served /\ Told /\ Sorted /\ Known
      /\ Untouched /\ ~Named
  BY <1>5 DEF Delivered, Naming, Ordering
<1>8. Tokens' /\ Untouched' /\ Bounded' /\ Sorted' /\ Told' /\ Known'
  <2>1. Tokens' /\ Untouched'
    BY <1>2, <1>7, AloofTokens
  <2>2. Bounded' /\ Sorted' /\ Told' /\ Known'
    BY <1>2, <1>7, AloofBounded, AloofTold, AloofKnown
  <2> QED BY <2>1, <2>2
<1>9. Naming'
  <2>1. ~Ordering'
    BY <1>3, <1>4, <1>5, <1>6 DEF Ordering
  <2>2. ASSUME NEW j \in Conns, reply'[j] = "std_io_err"
        PROVE  j = Cur' /\ None(wire', NamedSays)
    <3>1. reply[j] # "std_io_err" /\ None(wire, NamedSays)
      BY <1>7 DEF Named
    <3>2. wire' = wire /\ reply' = [reply EXCEPT ![k] = "std_io_err"]
      BY <1>3, <2>2, <3>1 DEF Hprintf
    <3>3. reply \in [Conns -> (Results \cap Messages) \cup {"none"}]
      BY DEF IInv, Types, Speak
    <3> QED BY <1>2, <1>6, <2>2, <3>1, <3>2, <3>3
  <2> QED BY <1>2, <1>6, <1>8, <2>1, <2>2 DEF Naming
<1>10. Served'
  <2> SUFFICES ASSUME Serving'
               PROVE  None(wire', Fails) /\ \A p \in DataPipes : Intact(p)'
    <3>1. hpc'[Cur'] = "flushPipes"
      BY <1>2, <1>3, <1>4, <1>6
    <3> QED BY <3>1 DEF Served, After
  <2>1. None(wire', Fails)
    BY <1>8, DataSets, NoneSub DEF Untouched
  <2>2. ASSUME NEW p \in DataPipes PROVE Intact(p)'
    <3>1. None(wire', Live(p))
      BY <1>8, DataSets, NoneSub DEF Untouched
    <3>2. <<p, Cur'>> \notin pending' /\ hpc'[Cur'] = "flushPipes" /\ <<p, Cur'>> \in inst'
      BY <1>2, <1>3, <1>4, <1>6, <1>8, ConnsNat DEF Untouched, Fds
    <3> QED BY <3>1, <3>2 DEF Intact, Ready, After
  <2> QED BY <2>1, <2>2
<1> QED BY <1>8, <1>9, <1>10 DEF Delivered

\* The handler answers with the code: all that was written was read.
LEMMA ReturnTold ==
    ASSUME IInv, Conversation, Commanded, Delivered, NEW k \in Conns, ReturnCode(k), Aloof,
           flow' = flow
    PROVE  Told'
<1>1. hpc[k] = "code" /\ k = Cur /\ Cur # 0
  <2>1. hpc[k] = "code"
    BY DEF ReturnCode
  <2> QED BY <2>1, ConnsNat DEF Commanded, Staged, Stage, After
<1>2. Served /\ buffered' = buffered
  BY DEF Delivered, Aloof, Spares
<1>3. \A s \in Streams : Kept(s)' <=> Kept(s)
  <2>1. \A s \in Streams : (None(wire', Chunks(s)) <=> None(wire, Chunks(s)))
    BY DataSets DEF Aloof, Spares, Alike
  <2> QED BY <2>1 DEF Kept, OnWire, Aloof, Spares
<1>4. Telling' => Serving
  BY <1>1 DEF Telling, Serving, Up, After
<1> QED BY <1>1, <1>2, <1>3, <1>4 DEF Told, Served, After, Streams

LEMMA HandlerDelivered ==
    ASSUME IInv, IInv', Conversation, Commanded, Delivered, NEW k \in Conns,
           HandleConnection(k)
    PROVE  Delivered'
<1>1. CASE DisconnectData(k)
  <2>1. ~Run(k) /\ ~ReturnCode(k)
    BY <1>1 DEF DisconnectData, Run, Gets, ReturnCode
  <2> QED BY <1>1, <2>1, HandlerMute, DisconnectCut, CutDelivered
<1>2. CASE ~DisconnectData(k) /\ ~Run(k)
  <2>1. /\ Aloof /\ UNCHANGED <<flow, state, fd, rc>> /\ (proc' = "none" => proc = "none")
        /\ Cur' = Cur /\ Served' /\ Mute
    BY <1>2, HandlerAloof, HandlerServed, HandlerMute DEF Cur
  <2>2. Naming /\ Tokens /\ Bounded /\ Told /\ Sorted /\ Known
    BY DEF Delivered
  <2>3. Tokens' /\ (Untouched => Untouched')
    BY <2>1, <2>2, AloofTokens
  <2>4. Naming'
    BY <2>1, <2>2, <2>3, MuteNaming
  <2>5. Bounded' /\ Sorted' /\ Known'
    BY <2>1, <2>2, AloofBounded, AloofKnown
  <2>6. Told'
    <3>1. CASE ReturnCode(k)
      BY <2>1, <3>1, ReturnTold
    <3>2. CASE ~ReturnCode(k)
      BY <2>1, <2>2, <3>2, HandlerMute, AloofTold
    <3> QED BY <3>1, <3>2
  <2> QED BY <2>1, <2>3, <2>4, <2>5, <2>6 DEF Delivered
<1> QED BY <1>1, <1>2, RunDelivered

-----------------------------------------------------------------------------
\* Which steps are plain, which fail reads, which are about one pipe, and what
\* the client does with an answer.
LEMMA NextDelivered ==
    IInv /\ IInv' /\ Conversation /\ Version /\ Commanded /\ Delivered /\ [Next]_vars => Delivered'
<1> SUFFICES ASSUME IInv, IInv', Conversation, Version, Commanded, Delivered, [Next]_vars
             PROVE  Delivered'
  OBVIOUS
<1>1. CASE Idle \/ Leaves \/ Stopped \/ Turns \/ Timer \/ ServeCtrlOpen
  <2>1. Mute /\ (Telling' => Telling)
    BY <1>1, QuietMute
  <2>2. CASE Plain
    BY <2>1, <2>2, PlainDelivered
  <2>3. CASE Vanishes
    BY <2>1, <2>3, VanishesDelivered
  <2>4. CASE Cut
    BY <2>1, <2>4, CutDelivered
  <2>5. CASE \/ CtrlOpenFailed \/ CtrlFailed \/ (CloseDone /\ Head(wire).pipe = "ctrl")
             \/ MainInstall \/ ErrorInstall \/ ReInstall \/ ExitUninstall
             \/ RequestTimesOut \/ Signal \/ Timer
    BY <2>2, <2>3, <2>5, ClientPlain DEF Delivered
  <2>6. CASE \/ MainUninstall \/ ReUninstall \/ ServiceDies \/ Exit
             \/ ServerLoop \/ OtherClient \/ ServeCtrlOpen \/ UNCHANGED vars
    BY <2>2, <2>4, <2>6, HostPlain
  <2>7. CASE DataOpened \/ DataRead
    BY <2>1, <2>7, ReadDelivered
  <2>8. CASE DataFailed \/ (CloseDone /\ Head(wire).pipe # "ctrl")
    BY <2>1, <2>8, DropDelivered
  <2>9. CASE ServeDataOpen
    BY <2>1, <2>9, OpenDelivered
  <2>10. CASE \E s \in Streams : Produce(s)
    BY <2>1, <2>10, ProduceDelivered
  <2>11. CASE ReadStdIoErr
    BY <2>11, NamesDelivered
  <2>12. CASE ReadReturnCode \/ ReadOtherError
    BY <2>12, AnswersDelivered
  <2>13. CASE CtrlOpened \/ ReadGoodVersion \/ ReadBadVersion
    BY <2>13, AskedDelivered, GoodDelivered, ClosingDelivered
  <2>14. CASE \E k \in Conns : HandleConnection(k)
    BY <2>14, HandlerDelivered
  <2> QED BY <2>5, <2>6, <2>7, <2>8, <2>9, <2>10, <2>11, <2>12, <2>13, <2>14
          DEF Next, Client, Callback, Blocked, SmbServer, Command, Environment
<1>2. CASE Answering
  BY <1>2, NamesDelivered, AnswersDelivered, AskedDelivered, GoodDelivered, ClosingDelivered
  DEF Answering
<1>3. CASE \E k \in Conns : HandleConnection(k)
  BY <1>3, HandlerDelivered
<1> QED BY <1>1, <1>2, <1>3, StepKinds

LEMMA DeliveredHolds ==
    Spec => [](IInv /\ Conversation /\ Version /\ Commanded /\ Delivered)
<1>1. Init => Delivered
  BY InitDelivered
<1>2. /\ IInv /\ Conversation /\ Version /\ Commanded
      /\ (IInv /\ Conversation /\ Version /\ Commanded)'
      /\ Delivered /\ [Next]_vars
      => Delivered'
  BY NextDelivered
<1> QED BY <1>1, <1>2, CommandedHolds, PTL DEF Spec

\* When the client knows the code of the command, it has written out all that
\* the command wrote to stdout and stderr.
THEOREM ShowsAllOutput == Spec => []OutputComplete
<1>1. ASSUME Delivered PROVE OutputComplete
  <2> SUFFICES ASSUME rc \in Codes PROVE printed = produced
    BY DEF OutputComplete
  <2>1. \A s \in Streams : printed[s] = produced[s]
    BY <1>1 DEF Delivered, Known
  <2>2. printed \in [Streams -> Nat] /\ produced \in [Streams -> 0..MaxOut]
    BY <1>1 DEF Delivered, Bounded
  <2> QED BY <2>1, <2>2
<1>2. Delivered => OutputComplete
  BY <1>1
<1> QED BY <1>2, DeliveredHolds, PTL

-----------------------------------------------------------------------------
\* What no step but an assignment of a constant changes.
Flags ==
    /\ activated \in BOOLEAN /\ abort \in BOOLEAN /\ watch \in BOOLEAN
    /\ registered \in BOOLEAN
    /\ sigint \in {"default", "catch"}
    /\ flags \in CommandLines

LEMMA NextFlags == Flags /\ [Next]_vars => Flags'
<1> SUFFICES ASSUME Flags, [Next]_vars PROVE Flags'
  OBVIOUS
<1> USE DEF Flags
<1>1. CASE UNCHANGED vars
  BY <1>1 DEF vars, client, host, command
<1>2. CASE Callback
  BY <1>2 DEF Callback, CtrlOpened, DataOpened, CtrlOpenFailed, DataFailed, DataRead,
     ReadStdIoErr, ReadReturnCode, ReadGoodVersion, ReadBadVersion, ReadOtherError, CtrlFailed,
     CloseDone, client, host, command
<1>3. CASE Timer \/ SmbServer \/ ServerLoop \/ Command \/ Signal \/ RequestTimesOut \/ OtherClient
  BY <1>3 DEF Timer, SmbServer, ServeCtrlOpen, ServeDataOpen, ServerLoop, CreateInstance,
     LoopEnds, Command, Exit, Produce, Signal, RequestTimesOut, OtherClient, client, host, command
<1>4. CASE MainUninstall \/ ReUninstall \/ ExitUninstall \/ ServiceDies
  BY <1>4 DEF MainUninstall, ReUninstall, ExitUninstall, ServiceDies, SvcUninstall, ServiceGone,
     client, host, command
<1>5. CASE MainInstall \/ ErrorInstall \/ ReInstall
  BY <1>5 DEF MainInstall, ErrorInstall, ReInstall, SvcInstall, client, command
<1>6. CASE \E k \in Conns : HandleConnection(k)
  <2>1. PICK k \in Conns : HandleConnection(k)
    BY <1>6
  <2>2. UNCHANGED <<client, host>> /\ (watch' = watch \/ watch' = (<<"ctrl", k>> \in ends))
    BY <2>1 DEF HandleConnection, NoMemory, Flush, GetsEof, GetVersion, SetSystem,
       UnknownCommand, Run, RunFails, Connect, ConnectFails, CreateProcess, CreateProcessFails,
       Terminate, ProcessDone, FlushStream, ReturnCode, DisconnectData, Finish, Says, Moves,
       command
  <2>3. watch' \in BOOLEAN
    <3>1. CASE watch' = watch
      BY <3>1
    <3>2. CASE watch' = (<<"ctrl", k>> \in ends)
      <4>1. CASE <<"ctrl", k>> \in ends
        BY <3>2, <4>1
      <4>2. CASE <<"ctrl", k>> \notin ends
        BY <3>2, <4>2
      <4> QED BY <4>1, <4>2
    <3> QED BY <2>2, <3>1, <3>2
  <2>4. UNCHANGED <<activated, abort, registered, sigint, flags>>
    BY <2>2 DEF client, host
  <2> QED BY <2>3, <2>4, Zenon
<1> QED BY <1>1, <1>2, <1>3, <1>4, <1>5, <1>6 DEF Next, Client, Blocked, Environment

LEMMA FlagsHold == Spec => []Flags
<1>1. Init => Flags
  BY DEF Init, Flags
<1> QED BY <1>1, NextFlags, PTL DEF Spec

\* The variables have their types: the client's, the host's and the service's.
THEOREM SessionTypes == Spec => []TypeOK
<1> SUFFICES ASSUME IInv, Conversation, Commanded, Delivered, Had, Flags PROVE TypeOK
  <2>1. IInv /\ Conversation /\ Commanded /\ Delivered /\ Had /\ Flags => TypeOK
    OBVIOUS
  <2> QED BY <2>1, DeliveredHolds, HadHolds, FlagsHold, PTL
<1>1. /\ MaxConn \in Nat \ {0} /\ MaxOut \in Nat /\ Cur \in 0..MaxConn
  BY WinexeAssumption, Currents
<1>2. /\ flow \in {"mainUninstall", "mainInstall", "loop", "errorInstall", "reUninstall",
                   "reInstall", "exitUninstall", "exited", "killed"}
      /\ state \in {"OPENING", "GETTING_VERSION", "RUNNING", "CLOSING_FOR_REINSTALL"}
      /\ nconn \in 0..MaxConn /\ timers \in 0..MaxConn
  BY <1>1 DEF Conversation, Phases, Numbered
<1>3. /\ rc \in {"rc99", "rc1"} \cup Codes
      /\ proc \in {"none", "running", "exited", "terminated"}
      /\ owner \in 0..MaxConn /\ starts \in 0..MaxConn
  BY <1>1 DEF Commanded, Result, Started
<1>4. /\ wire \in Seq(Replies) /\ reply \in [Conns -> Messages \cup {"none"}]
      /\ inbox \in [Conns -> Seq(Lines)]
  <2>1. Replies = Answers(Results) /\ Results \cap Messages = Messages
    BY DEF Replies, Answers, Results
  <2> QED BY <2>1 DEF IInv, Types, Speak
<1>5. /\ fd \in [Pipes -> 0..MaxConn]
      /\ ioRead \in [Pipes -> 0..MaxConn] /\ ioWrite \in [Pipes -> 0..MaxConn]
      /\ pending \subseteq Ends /\ inst \subseteq Ends /\ opening \in Seq(Pipes)
      /\ exe \in {"none", "good", "bad"} /\ loop \in {"off", "create", "listen", "ended"}
      /\ hpc \in [Conns -> Handlers] /\ ec \in Codes \cup {"none"}
  BY DEF IInv, Types, HandleTypes, EndTypes, ServiceTypes
<1>6. /\ buffered \in [Streams -> 0..MaxOut] /\ produced \in [Streams -> 0..MaxOut]
      /\ printed \in [Streams -> 0..MaxOut]
  <2>1. Bounded
    BY DEF Delivered
  <2>2. ASSUME NEW s \in Streams PROVE buffered[s] \in 0..MaxOut /\ printed[s] \in 0..MaxOut
    <3>1. /\ printed[s] \in Nat /\ buffered[s] \in Nat /\ produced[s] \in 0..MaxOut
          /\ OnWire(s) \in Nat /\ printed[s] + OnWire(s) + buffered[s] <= produced[s]
      BY <2>1 DEF Bounded, OnWire
    <3> QED BY <1>1, <3>1
  <2> QED BY <2>1, <2>2 DEF Bounded
<1> QED BY <1>2, <1>3, <1>4, <1>5, <1>6 DEF TypeOK, Flags, Had

-----------------------------------------------------------------------------
(* The program does what RemoteRun says.                                   *)

\* What the steps do that RemoteRun is about.
LEMMA RemoteKinds ==
    ASSUME IInv, [Next]_vars
    PROVE  \/ /\ UNCHANGED <<proc, produced, printed>>
              /\ \/ rc' = rc
                 \/ CtrlOpenFailed \/ ErrorInstall \/ (RequestTimesOut /\ Cur = 0)
           \/ DataRead \/ ReadReturnCode \/ Exit \/ \E s \in Streams : Produce(s)
           \/ \E k \in Conns : CreateProcess(k) \/ Terminate(k)
<1>1. CASE UNCHANGED vars
  BY <1>1 DEF vars, client, command
<1>2. CASE Callback
  BY <1>2 DEF Callback, CtrlOpened, DataOpened, CtrlOpenFailed, DataFailed,
     ReadStdIoErr, ReadGoodVersion, ReadBadVersion, ReadOtherError, CtrlFailed,
     CloseDone, client, command
<1>3. CASE Timer \/ SmbServer \/ ServerLoop \/ Command \/ Signal \/ RequestTimesOut \/ OtherClient
  BY <1>3 DEF Timer, SmbServer, ServeCtrlOpen, ServeDataOpen, ServerLoop, CreateInstance,
     LoopEnds, Command, Signal, RequestTimesOut, OtherClient, client, command, Cur
<1>4. CASE MainUninstall \/ ReUninstall \/ ExitUninstall \/ ServiceDies
  BY <1>4 DEF MainUninstall, ReUninstall, ExitUninstall, ServiceDies, SvcUninstall, ServiceGone,
     client, command
<1>5. CASE MainInstall \/ ErrorInstall \/ ReInstall
  BY <1>5 DEF MainInstall, ErrorInstall, ReInstall, SvcInstall, client, command
<1>6. CASE \E k \in Conns : HandleConnection(k)
  <2>1. PICK k \in Conns : HandleConnection(k)
    BY <1>6
  <2>2. \/ UNCHANGED <<proc, produced, printed, rc>>
        \/ CreateProcess(k) \/ Terminate(k)
    BY <2>1 DEF HandleConnection, NoMemory, Flush, GetsEof, GetVersion, SetSystem,
       UnknownCommand, Run, RunFails, Connect, ConnectFails, CreateProcessFails,
       ProcessDone, FlushStream, ReturnCode, DisconnectData, Finish, Says, Moves,
       client, command
  <2> QED BY <2>2
<1> QED BY <1>1, <1>2, <1>3, <1>4, <1>5, <1>6 DEF Next, Client, Blocked, Environment

\* A code once known is not replaced.
LEMMA CodeStays ==
    ASSUME IInv, Conversation, Commanded, rc \in Codes
    PROVE  /\ proc \in {"exited", "terminated"} /\ rc = ec
           /\ ~CtrlOpenFailed /\ ~ErrorInstall /\ Cur # 0
<1>1. rc = ec /\ proc \in {"exited", "terminated"} /\ state = "RUNNING"
  BY DEF Commanded, Result, Started, Unearned, Earned
<1>2. None(wire, CtrlOpens) /\ Cur # 0 /\ ~InMain
  BY <1>1 DEF Conversation, Phases, Opened
<1>3. ~CtrlOpenFailed
  <2> SUFFICES ASSUME CtrlOpenFailed PROVE FALSE
    OBVIOUS
  <2>1. wire # <<>> /\ Head(wire).what = "open" /\ Head(wire).pipe = "ctrl" /\ wire \in Seq(Said)
    BY DEF CtrlOpenFailed, Handles, Conversation
  <2> QED BY <1>2, <2>1, Takes, Kinds
<1> QED BY <1>1, <1>2, <1>3 DEF ErrorInstall, InMain

\* A chunk that is written out was written, and not written out before.
LEMMA Shows ==
    ASSUME IInv, Conversation, Delivered, DataRead
    PROVE  /\ UNCHANGED <<proc, produced, rc>>
           /\ \E s \in Streams :
                 printed[s] < produced[s] /\ printed' = [printed EXCEPT ![s] = @ + 1]
<1>1. /\ wire # <<>> /\ wire \in Seq(Said) /\ None(wire, Malformed)
      /\ Head(wire).what = "read" /\ Head(wire).result = "chunk"
      /\ UNCHANGED <<proc, produced, rc>>
      /\ printed' = [printed EXCEPT ![Head(wire).pipe] = @ + 1]
  BY DEF DataRead, Handles, Conversation, client, command
<1>2. /\ Head(wire) \in Said /\ Head(wire) \notin Malformed
      /\ \A S : Head(wire) \in S => ~None(wire, S)
  BY <1>1, Takes
<1>3. PICK s \in Streams : s = Head(wire).pipe
  <2>1. "chunk" \notin Messages /\ "chunk" # "failed"
    BY Distinct
  <2> QED BY <1>1, <1>2, <2>1, Kinds DEF Malformed, Pipes
<1>4. OnWire(s) = 1
  <2>1. Head(wire) \in Chunks(s)
    BY <1>1, <1>2, <1>3, DataKinds
  <2> QED BY <1>2, <2>1 DEF OnWire
<1>5. /\ printed[s] \in Nat /\ buffered[s] \in Nat /\ produced[s] \in 0..MaxOut /\ MaxOut \in Nat
      /\ printed[s] + OnWire(s) + buffered[s] <= produced[s]
  BY WinexeAssumption DEF Delivered, Bounded
<1>6. printed[s] < produced[s]
  BY <1>4, <1>5
<1> QED BY <1>1, <1>3, <1>6

\* The code that is learnt is that of the command, which ended, once all that
\* it wrote was written out.
LEMMA Learns ==
    ASSUME IInv, Conversation, Commanded, Delivered, Delivered', ReadReturnCode
    PROVE  /\ UNCHANGED <<proc, produced, printed>> /\ rc' \in Codes
           /\ proc \in {"exited", "terminated"} /\ printed = produced
           /\ rc \in Codes => rc' = rc
<1>1. /\ wire # <<>> /\ wire \in Seq(Said) /\ Head(wire).result \in Codes
      /\ rc' = Head(wire).result /\ UNCHANGED <<proc, produced, printed>>
      /\ Head(wire).what = "read"
  BY DEF ReadReturnCode, Handles, Conversation, Codes, command
<1>2. Head(wire) \in Of("read", "ctrl", Codes)
  BY <1>1, AnswerReads
<1>3. Head(wire) \notin Of("read", "ctrl", Unearned)
  BY <1>1, Takes DEF Commanded, Result
<1>4. Earned(rc')
  BY <1>1, <1>2, <1>3 DEF Of, Unearned
<1>5. proc \in {"exited", "terminated"} /\ rc' = ec
  BY <1>1, <1>4 DEF Earned, Commanded, Started
<1>6. rc \in Codes => rc = ec
  BY CodeStays
<1>7. \A s \in Streams : printed[s] = produced[s]
  BY <1>1 DEF Delivered, Known
<1>8. printed \in [Streams -> Nat] /\ produced \in [Streams -> 0..MaxOut]
  BY DEF Delivered, Bounded
<1>9. printed = produced
  BY <1>7, <1>8
<1> QED BY <1>1, <1>5, <1>6, <1>9

\* A step of the program is a step of RemoteRun, or none.
LEMMA RemoteStep ==
    ASSUME IInv, Conversation, Commanded, Delivered, Delivered', [Next]_vars
    PROVE  [Remote!Next]_(Remote!vars)
<1> USE DEF Remote!vars, Remote!Next
<1>1. CASE UNCHANGED <<proc, produced, printed>>
           /\ (rc' = rc \/ CtrlOpenFailed \/ ErrorInstall \/ (RequestTimesOut /\ Cur = 0))
  <2>1. rc \in Codes => rc' = rc
    BY <1>1, CodeStays
  <2>2. rc' = rc \/ rc' = "rc1"
    BY <1>1 DEF CtrlOpenFailed, ErrorInstall, SvcInstall, RequestTimesOut
  <2>3. "rc1" \notin Codes
    BY WinexeAssumption DEF Codes
  <2>4. (IF rc' \in Codes THEN rc' ELSE "unknown") = (IF rc \in Codes THEN rc ELSE "unknown")
    BY <2>1, <2>2, <2>3
  <2> QED BY <1>1, <2>4
<1>2. CASE DataRead
  BY <1>2, Shows DEF Remote!Show
<1>3. CASE ReadReturnCode
  <2>1. /\ UNCHANGED <<proc, produced, printed>> /\ rc' \in Codes
        /\ proc \in {"exited", "terminated"} /\ printed = produced
        /\ rc \in Codes => rc' = rc
    BY <1>3, Learns
  <2>2. CASE rc \in Codes
    BY <2>1, <2>2
  <2>3. CASE rc \notin Codes
    BY <2>1, <2>3 DEF Remote!Learn
  <2> QED BY <2>2, <2>3
<1>4. CASE Exit
  <2>1. proc = "running" /\ proc' = "exited" /\ UNCHANGED <<produced, printed, rc>>
    BY <1>4 DEF Exit, client
  <2> QED BY <2>1 DEF Remote!End
<1>5. CASE \E s \in Streams : Produce(s)
  <2>1. /\ proc = "running" /\ UNCHANGED <<proc, printed, rc>>
        /\ \E s \in Streams : produced' = [produced EXCEPT ![s] = @ + 1]
    BY <1>5 DEF Produce, client
  <2> QED BY <2>1 DEF Remote!Write
<1>6. ASSUME NEW k \in Conns, CreateProcess(k) PROVE Remote!Start
  <2>1. proc' = "running" /\ UNCHANGED <<produced, printed, rc>>
    BY <1>6 DEF CreateProcess, Moves, client
  <2>2. proc = "none"
    BY <1>6 DEF CreateProcess, Commanded, Staged, Path
  <2> QED BY <2>1, <2>2 DEF Remote!Start
<1>7. ASSUME NEW k \in Conns, Terminate(k) PROVE [Remote!Next]_(Remote!vars)
  <2>1. /\ proc' = IF proc = "running" THEN "terminated" ELSE proc
        /\ UNCHANGED <<produced, printed, rc>>
    BY <1>7 DEF Terminate, Moves, client
  <2>2. CASE proc = "running"
    BY <2>1, <2>2 DEF Remote!End
  <2>3. CASE proc # "running"
    BY <2>1, <2>3
  <2> QED BY <2>2, <2>3
<1> QED BY <1>1, <1>2, <1>3, <1>4, <1>5, <1>6, <1>7, RemoteKinds

\* The program implements RemoteRun: the command is started once, what it
\* writes is shown in order and once, and its result is learnt when it ended
\* and all its output was shown.
THEOREM DoesRemoteRun == Spec => ImplementsRemoteRun
<1>1. Init => Remote!Init
  <2> SUFFICES ASSUME Init PROVE Remote!Init
    OBVIOUS
  <2>1. rc \notin Codes
    BY WinexeAssumption DEF Init, Codes
  <2> QED BY <2>1 DEF Init, Remote!Init
<1>2. /\ IInv /\ Conversation /\ Version /\ Commanded /\ Delivered
      /\ (IInv /\ Conversation /\ Version /\ Commanded /\ Delivered)' /\ [Next]_vars
      => [Remote!Next]_(Remote!vars)
  BY RemoteStep
<1> QED BY <1>1, <1>2, DeliveredHolds, PTL DEF Spec, ImplementsRemoteRun, Remote!Spec
===============================================================================
