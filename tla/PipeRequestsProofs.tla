------------------------- MODULE PipeRequestsProofs -------------------------
(***************************************************************************)
(* Theorems about PipeRequests, for any amount of input and output.  The   *)
(* first part follows what is written to the in pipe (IInv), the second    *)
(* one which requests wait for a pipe: TInv has the types, Attentive who   *)
(* listens.                                                                *)
(***************************************************************************)
EXTENDS PipeRequests, SequenceTheorems, FiniteSetTheorems, TLAPS

AnyCall == [op : {"open", "read", "write", "close", "exit"}, pipe : Pipes, data : Nat]
Answers == [req : AnyCall, ok : BOOLEAN, data : Nat]

Types ==
    /\ todo \in Seq(AnyCall)
    /\ sent \subseteq AnyCall
    /\ reply \in Seq(Answers)
    /\ srv \in [Pipes -> {"none", "open", "gone"}]
    /\ said \in Nat /\ typed \in Nat /\ got \in Seq(Nat)
    /\ ioWrite \in BOOLEAN /\ watch \in BOOLEAN

InWrite(c) == c.op = "write" /\ c.pipe = "in"

\* A write of stdin is the only call the client is to make.
OnlyWrite ==
    \A i \in DOMAIN todo : InWrite(todo[i]) => typed > 0 /\ todo = <<Write("in", typed)>>

\* Until the service has named its pipes nobody knows the in pipe.
NoInYet ==
    said < 2 =>
        /\ srv["in"] = "none" /\ typed = 0 /\ got = <<>> /\ ~watch
        /\ \A i \in DOMAIN todo : todo[i].pipe # "in"
        /\ \A c \in sent : c.pipe # "in"
        /\ \A i \in DOMAIN reply : reply[i].req.pipe # "in" /\ reply[i].data # 2
InMade == said >= 2 => srv["in"] # "none"

\* As long as the in pipe is open, the writes the server has are those of the
\* parts that come after the ones that arrived.
LastSent == IF todo = <<Write("in", typed)>> THEN typed - 1 ELSE typed
SentNext ==
    srv["in"] = "open" =>
        /\ Len(got) <= LastSent
        /\ \A n \in Nat : Write("in", n) \in sent <=> Len(got) < n /\ n <= LastSent

\* Replies after which io_write is freed, and those that look into it.  The
\* first kind comes from a pipe that is closed, the second kind does not.
Frees(r) == r.req.pipe = "in" /\ (r.req.op = "close" \/ (r.req.op = "write" /\ ~r.ok))
Looks(r) == InWrite(r.req) /\ r.ok
Structure ==
    /\ \A i \in DOMAIN reply : Frees(reply[i]) => srv["in"] = "gone"
    /\ \A i, j \in DOMAIN reply : i < j /\ Frees(reply[i]) => ~Looks(reply[j])
    /\ ~ioWrite => /\ \A i \in DOMAIN reply : ~Looks(reply[i])
                   /\ srv["in"] = "open" => \A c \in sent : ~InWrite(c)

\* What holds while the connection stands; afterwards nothing is under way.
Standing == Types /\ OnlyWrite /\ NoInYet /\ InMade /\ SentNext /\ Structure
IInv ==
    /\ InputWithoutGaps
    /\ WritesHaveStructure
    /\ alive => Standing
    /\ ~alive => sent = {} /\ reply = <<>>

-----------------------------------------------------------------------------
LEMMA Words ==
    /\ "in" \in Pipes /\ "ctrl" \in Pipes /\ Outs \subseteq Pipes
    /\ \A op \in {"open", "read", "write", "close", "exit"}, p \in Pipes, n \in Nat :
          Call(op, p, n) \in AnyCall
    /\ \A c \in AnyCall : InWrite(c) => c = Write("in", c.data)
BY DEF Pipes, Call, AnyCall, InWrite, Write

LEMMA InitInv == Init => IInv
<1> SUFFICES ASSUME Init PROVE IInv
  OBVIOUS
<1>1. Open("ctrl") \in AnyCall /\ Open("ctrl").op = "open" /\ Open("ctrl").pipe = "ctrl"
  BY Words DEF Open, Call
<1>2. todo = <<Open("ctrl")>> /\ sent = {} /\ reply = <<>> /\ said = 0 /\ typed = 0 /\ got = <<>>
  BY DEF Init
<1>3. srv \in [Pipes -> {"none", "open", "gone"}] /\ srv["in"] = "none"
  BY Words DEF Init
<1>4. Types
  <2>1. todo \in Seq(AnyCall)
    BY <1>1, <1>2
  <2>2. sent \subseteq AnyCall /\ reply \in Seq(Answers) /\ got \in Seq(Nat)
    BY <1>2
  <2>3. ioWrite = FALSE /\ watch = FALSE
    BY DEF Init
  <2> QED BY <1>2, <1>3, <2>1, <2>2, <2>3 DEF Types
<1>5. OnlyWrite /\ NoInYet
  BY <1>1, <1>2, <1>3 DEF Init, OnlyWrite, NoInYet, InWrite
<1>6. InMade /\ SentNext /\ Structure
  BY <1>2, <1>3 DEF InMade, SentNext, Structure
<1> QED BY <1>2, <1>4, <1>5, <1>6
        DEF Init, IInv, Standing, InputWithoutGaps, WritesHaveStructure

\* The calls of a callback: none of them writes to the in pipe, and those to
\* it come after its name.
CallsAfter(c, ok, m) == IF c.pipe = "ctrl" THEN CtrlCalls(c.op, ok, m)
                                           ELSE DataCalls(c.pipe, c.op, c.data, ok)
LEMMA CallbackCalls ==
    ASSUME NEW c \in AnyCall, NEW ok \in BOOLEAN, NEW m \in Nat,
           NEW s, s = CallsAfter(c, ok, m)
    PROVE  /\ s \in Seq(AnyCall)
           /\ \A i \in DOMAIN s : ~InWrite(s[i])
           /\ c.pipe # "in" /\ m # 2 => \A i \in DOMAIN s : s[i].pipe # "in"
<1> DEFINE Fine(q) == q \in Seq(AnyCall) /\ \A i \in DOMAIN q : ~InWrite(q[i])
           Other(q) == \A i \in DOMAIN q : q[i].pipe # "in"
<1>1. ASSUME NEW x \in AnyCall, NEW y \in AnyCall, ~InWrite(x), ~InWrite(y)
      PROVE  /\ Fine(<<x, y>>) /\ Fine(<<x>>) /\ Fine(<<>>)
             /\ Other(<<>>)
             /\ x.pipe # "in" => Other(<<x>>)
             /\ x.pipe # "in" /\ y.pipe # "in" => Other(<<x, y>>)
  BY <1>1
<1>2. ASSUME NEW p, NEW q, Fine(p), Fine(q) PROVE Fine(p \o q)
  BY <1>2
<1>3. ASSUME NEW p \in Pipes, NEW n \in Nat
      PROVE  /\ Open(p) \in AnyCall /\ Read(p) \in AnyCall /\ Close(p, n) \in AnyCall
             /\ ~InWrite(Open(p)) /\ ~InWrite(Read(p)) /\ ~InWrite(Close(p, n))
             /\ Read(p).pipe = p /\ Close(p, n).pipe = p
             /\ Write("ctrl", n) \in AnyCall /\ ~InWrite(Write("ctrl", n))
             /\ Write("ctrl", n).pipe = "ctrl"
             /\ Exit \in AnyCall /\ ~InWrite(Exit) /\ Exit.pipe = "ctrl"
  BY <1>3, Words DEF Open, Read, Close, Write, Exit, Call, InWrite
<1> HIDE DEF Fine, Other
<1>4. CASE c.pipe = "ctrl"
  <2>1. Fine(OpenData)
    <3>1. Fine(<<Open("in")>>)
      BY <1>1, <1>3, Words
    <3>2. Fine(IF "out" \in Outs THEN <<Open("out")>> ELSE <<>>)
      BY <1>1, <1>3, Words
    <3>3. Fine(IF "err" \in Outs THEN <<Open("err")>> ELSE <<>>)
      BY <1>1, <1>3, Words
    <3>4. Fine(<<Open("in")>> \o (IF "out" \in Outs THEN <<Open("out")>> ELSE <<>>))
      BY <1>2, <3>1, <3>2
    <3>5. Fine((<<Open("in")>> \o (IF "out" \in Outs THEN <<Open("out")>> ELSE <<>>))
               \o (IF "err" \in Outs THEN <<Open("err")>> ELSE <<>>))
      BY <1>2, <3>3, <3>4
    <3> QED BY <3>5 DEF OpenData
  <2>2. Fine(<<Read("ctrl")>>) /\ Other(<<Read("ctrl")>>) /\ Fine(<<>>) /\ Other(<<>>)
        /\ Fine(<<Exit>>) /\ Other(<<Exit>>)
    BY <1>1, <1>3, Words
  <2>3. \A n \in {1, 2} : Fine(<<Write("ctrl", n), Read("ctrl")>>)
                          /\ Other(<<Write("ctrl", n), Read("ctrl")>>)
    BY <1>1, <1>3, Words
  <2>4. Fine(OpenData \o <<Read("ctrl")>>)
    BY <1>2, <2>1, <2>2
  <2>5. s = CtrlCalls(c.op, ok, m)
    BY <1>4 DEF CallsAfter
  <2>6. Fine(s) /\ (m # 2 => Other(s))
    BY <2>2, <2>3, <2>4, <2>5 DEF CtrlCalls
  <2> QED BY <2>6 DEF Fine, Other
<1>5. CASE c.pipe # "ctrl"
  <2>1. c.pipe \in Pipes /\ c.data \in Nat
    BY DEF AnyCall
  <2>2. Fine(<<Read(c.pipe)>>) /\ Fine(<<Close(c.pipe, c.data)>>) /\ Fine(<<>>) /\ Other(<<>>)
    BY <1>1, <1>3, <2>1
  <2>3. c.pipe # "in" => Other(<<Read(c.pipe)>>) /\ Other(<<Close(c.pipe, c.data)>>)
    BY <1>1, <1>3, <2>1
  <2>4. Fine(s) /\ (c.pipe # "in" => Other(s))
    BY <1>5, <2>2, <2>3 DEF CallsAfter, DataCalls
  <2> QED BY <2>4 DEF Fine, Other
<1> QED BY <1>4, <1>5

-----------------------------------------------------------------------------
(* The client.                                                             *)

LEMMA HeadOfTodo ==
    ASSUME Types, todo # <<>>
    PROVE  /\ Head(todo) \in AnyCall /\ Tail(todo) \in Seq(AnyCall)
           /\ Head(todo) = todo[1] /\ 1 \in DOMAIN todo
           /\ \A i \in DOMAIN Tail(todo) : i + 1 \in DOMAIN todo /\ Tail(todo)[i] = todo[i + 1]
BY DEF Types

LEMMA SendCallStep == ASSUME IInv, SendCall PROVE IInv'
<1> DEFINE c == Head(todo)
<1>1. /\ alive /\ alive' /\ up' = up /\ todo # <<>>
      /\ sent' = sent \cup {c} /\ todo' = Tail(todo)
      /\ ioWrite' = (ioWrite \/ (c.op = "write" /\ c.pipe = "in"))
      /\ UNCHANGED <<watch, typed, reply, srv, said, got>>
  BY DEF SendCall, Calling, Allocated, server
<1>2. Standing
  BY <1>1 DEF IInv
<1>3. /\ c \in AnyCall /\ Tail(todo) \in Seq(AnyCall) /\ c = todo[1] /\ 1 \in DOMAIN todo
      /\ \A i \in DOMAIN Tail(todo) : i + 1 \in DOMAIN todo /\ Tail(todo)[i] = todo[i + 1]
  BY <1>1, <1>2, HeadOfTodo DEF Standing
<1> HIDE DEF c
<1>4. Types'
  BY <1>1, <1>2, <1>3 DEF Standing, Types
<1>5. InWrite(c) => /\ typed > 0 /\ todo = <<Write("in", typed)>>
                    /\ c = Write("in", typed) /\ todo' = <<>>
  BY <1>1, <1>2, <1>3 DEF Standing, OnlyWrite
<1>6. ~InWrite(c) => todo # <<Write("in", typed)>>
  <2> SUFFICES ASSUME todo = <<Write("in", typed)>> PROVE InWrite(c)
    OBVIOUS
  <2> QED BY <1>3 DEF InWrite, Write, Call
<1>7. \A i \in DOMAIN todo' : ~InWrite(todo'[i])
  <2> SUFFICES ASSUME NEW i \in DOMAIN Tail(todo), InWrite(Tail(todo)[i]) PROVE FALSE
    BY <1>1
  <2>1. i + 1 \in DOMAIN todo /\ todo = <<Write("in", typed)>>
    BY <1>2, <1>3 DEF Standing, OnlyWrite
  <2>2. Tail(todo) = <<>>
    BY <2>1
  <2> QED BY <2>2
<1>8. OnlyWrite'
  BY <1>7 DEF OnlyWrite
<1>9. NoInYet' /\ InMade'
  BY <1>1, <1>2, <1>3 DEF Standing, NoInYet, InMade
<1>10. SentNext'
  <2>1. todo' # <<Write("in", typed')>>
    <3>1. InWrite(Write("in", typed'))
      BY DEF InWrite, Write, Call
    <3> QED BY <1>7, <3>1
  <2>2. LastSent' = typed /\ typed \in Nat /\ Len(got) \in Nat
    BY <1>1, <1>2, <2>1 DEF LastSent, Standing, Types
  <2>3. CASE InWrite(c)
    <3>1. LastSent = typed - 1 /\ c = Write("in", typed) /\ typed > 0
      BY <1>5, <2>3 DEF LastSent
    <3>2. ASSUME NEW n \in Nat PROVE Write("in", n) = Write("in", typed) <=> n = typed
      BY DEF Write, Call
    <3>3. srv["in"] = "open" => Len(got) < typed
      BY <1>2, <2>2, <3>1 DEF Standing, SentNext
    <3> QED BY <1>1, <1>2, <2>2, <3>1, <3>2, <3>3 DEF Standing, SentNext
  <2>4. CASE ~InWrite(c)
    <3>1. LastSent = typed
      BY <1>6, <2>4 DEF LastSent
    <3>2. \A n \in Nat : Write("in", n) # c
      BY <2>4 DEF InWrite, Write, Call
    <3> QED BY <1>1, <1>2, <2>2, <3>1, <3>2 DEF Standing, SentNext
  <2> QED BY <2>3, <2>4
<1>11. Structure'
  BY <1>1, <1>2 DEF Standing, Structure, InWrite
<1>12. Standing'
  BY <1>4, <1>8, <1>9, <1>10, <1>11 DEF Standing
<1> QED BY <1>1, <1>12 DEF IInv, InputWithoutGaps, WritesHaveStructure

\* When the connection breaks, or is broken, nothing more arrives.
LEMMA BrokenStep ==
    ASSUME IInv, SendBreaks \/ SendRefused \/ Break
    PROVE  IInv'
<1>1. UNCHANGED got /\ ~alive' /\ sent' = {} /\ reply' = <<>>
  <2>1. CASE SendBreaks
    BY <2>1 DEF SendBreaks, Dead, server
  <2>2. CASE SendRefused
    BY <2>2 DEF SendRefused, IInv, server, wire
  <2>3. CASE Break
    BY <2>3 DEF Break, Dead, server
  <2> QED BY <2>1, <2>2, <2>3
<1>2. up' = up
  BY DEF SendBreaks, SendRefused, Break, Dead, Callback, UsesFreed
<1> QED BY <1>1, <1>2 DEF IInv, InputWithoutGaps, WritesHaveStructure

LEMMA ExitsStep == ASSUME IInv, Exits PROVE IInv'
<1>1. /\ UNCHANGED <<alive, ioWrite, watch, typed, sent, reply, srv, said, got>>
      /\ todo' = <<>> /\ up' = "gone"
  BY DEF Exits, connection, wire, server
<1>2. ASSUME alive PROVE Standing'
  <2>1. Standing /\ \A n \in Nat : LastSent' = typed
    BY <1>1, <1>2 DEF IInv, LastSent
  <2>2. todo # <<Write("in", typed)>>
    BY DEF Exits, Calling, Write, Call
  <2>3. LastSent' = LastSent
    BY <1>1, <2>2 DEF LastSent
  <2>4. SentNext'
    BY <1>1, <2>1, <2>3 DEF Standing, SentNext
  <2>5. Types' /\ OnlyWrite' /\ NoInYet' /\ InMade' /\ Structure'
    BY <1>1, <2>1 DEF Standing, Types, OnlyWrite, NoInYet, InMade, Structure
  <2> QED BY <2>4, <2>5 DEF Standing
<1> QED BY <1>1, <1>2 DEF IInv, InputWithoutGaps, WritesHaveStructure

LEMMA StdinStep == ASSUME IInv, StdinEvent PROVE IInv'
<1>1. /\ UNCHANGED <<alive, up, ioWrite, watch, sent, reply, srv, said, got>>
      /\ todo = <<>> /\ watch /\ typed' = typed + 1 /\ todo' = <<Write("in", typed')>>
  BY DEF StdinEvent, Idle, StdinRead, WriteInput, connection, wire, server
<1>2. ASSUME alive PROVE Standing'
  <2>1. Standing
    BY <1>2 DEF IInv
  <2>2. typed \in Nat /\ said >= 2
    BY <1>1, <2>1 DEF Standing, Types, NoInYet
  <2>3. Write("in", typed') \in AnyCall
    BY <1>1, <2>2, Words DEF Write
  <2>4. Types'
    BY <1>1, <2>1, <2>2, <2>3 DEF Standing, Types
  <2>5. OnlyWrite' /\ NoInYet' /\ InMade' /\ Structure'
    BY <1>1, <2>1, <2>2 DEF Standing, OnlyWrite, NoInYet, InMade, Structure
  <2>6. LastSent' = LastSent
    BY <1>1, <2>2 DEF LastSent
  <2>7. SentNext'
    BY <1>1, <2>1, <2>6 DEF Standing, SentNext
  <2> QED BY <2>4, <2>5, <2>7 DEF Standing
<1> QED BY <1>1, <1>2 DEF IInv, InputWithoutGaps, WritesHaveStructure

LEMMA ReceiveStep == ASSUME IInv, Receive PROVE IInv'
<1> DEFINE r == Head(reply)
           c == r.req
<1>1. /\ alive /\ alive' /\ todo = <<>> /\ reply # <<>> /\ reply' = Tail(reply)
      /\ UNCHANGED <<typed, sent, srv, said, got>>
  BY DEF Receive, Idle, server
<1>2. Standing
  BY <1>1 DEF IInv
<1>3. /\ r = reply[1] /\ r \in Answers /\ 1 \in DOMAIN reply /\ reply' \in Seq(Answers)
      /\ \A i \in DOMAIN reply' : i + 1 \in DOMAIN reply /\ reply'[i] = reply[i + 1] /\ 1 < i + 1
  BY <1>1, <1>2 DEF Standing, Types
<1>4. c \in AnyCall /\ r.ok \in BOOLEAN /\ r.data \in Nat
  BY <1>3 DEF Answers
<1>5. \/ /\ Callback(c, r.ok, r.data, ioWrite, <<>>)
      \/ UNCHANGED <<todo, up, ioWrite, watch>>
  BY DEF Receive, client
<1> HIDE DEF r
<1>6. ASSUME todo' \in Seq(AnyCall), \A i \in DOMAIN todo' : ~InWrite(todo'[i]),
             said < 2 => ~watch' /\ \A i \in DOMAIN todo' : todo'[i].pipe # "in",
             ioWrite' \in BOOLEAN, watch' \in BOOLEAN,
             ioWrite' = ioWrite \/ (~ioWrite' /\ Frees(r))
      PROVE  Standing'
  <2>1. Types'
    BY <1>1, <1>2, <1>3, <1>6 DEF Standing, Types
  <2>2. OnlyWrite' /\ NoInYet' /\ InMade'
    BY <1>1, <1>2, <1>3, <1>6 DEF Standing, OnlyWrite, NoInYet, InMade
  <2>3. todo' # <<Write("in", typed)>> /\ todo # <<Write("in", typed)>>
    <3>1. InWrite(Write("in", typed))
      BY DEF InWrite, Write, Call
    <3> QED BY <1>1, <1>6, <3>1
  <2>4. SentNext'
    BY <1>1, <1>2, <2>3 DEF Standing, SentNext, LastSent
  <2>5. Structure'
    <3>1. \A i \in DOMAIN reply' : Frees(reply'[i]) => srv'["in"] = "gone"
      BY <1>1, <1>2, <1>3 DEF Standing, Structure
    <3>2. \A i, j \in DOMAIN reply' : i < j /\ Frees(reply'[i]) => ~Looks(reply'[j])
      <4> SUFFICES ASSUME NEW i \in DOMAIN reply', NEW j \in DOMAIN reply', i < j,
                          Frees(reply'[i])
                   PROVE  ~Looks(reply'[j])
        OBVIOUS
      <4>1. i + 1 < j + 1
        BY <1>3
      <4> QED BY <1>2, <1>3, <4>1 DEF Standing, Structure
    <3>3. ASSUME ~ioWrite'
          PROVE  /\ \A i \in DOMAIN reply' : ~Looks(reply'[i])
                 /\ srv'["in"] = "open" => \A d \in sent' : ~InWrite(d)
      <4>1. CASE ioWrite' = ioWrite
        BY <1>1, <1>2, <1>3, <3>3, <4>1 DEF Standing, Structure
      <4>2. CASE Frees(r)
        BY <1>1, <1>2, <1>3, <4>2 DEF Standing, Structure
      <4> QED BY <1>6, <4>1, <4>2
    <3> QED BY <3>1, <3>2, <3>3 DEF Structure
  <2> QED BY <2>1, <2>2, <2>4, <2>5 DEF Standing
<1>7. CASE UNCHANGED <<todo, up, ioWrite, watch>>
  <2>1. Standing'
    BY <1>1, <1>2, <1>6, <1>7 DEF Standing, Types, NoInYet
  <2> QED BY <1>1, <1>7, <2>1 DEF IInv, InputWithoutGaps, WritesHaveStructure
<1>8. CASE Callback(c, r.ok, r.data, ioWrite, <<>>)
  <2>1. ioWrite' = (ioWrite /\ ~Freed(c, r.ok)) /\ watch' = (watch \/ (r.ok /\ c = Open("in")))
    BY <1>8 DEF Callback
  <2>2. ioWrite \in BOOLEAN /\ watch \in BOOLEAN
    BY <1>2 DEF Standing, Types
  <2>3. ioWrite' = ioWrite \/ (~ioWrite' /\ Frees(r))
    BY <2>1, <2>2 DEF Freed, Frees
  <2>4. said < 2 => c.pipe # "in" /\ r.data # 2
    BY <1>2, <1>3 DEF Standing, NoInYet
  <2>5. said < 2 => ~watch'
    <3>1. Open("in").pipe = "in"
      BY DEF Open, Call
    <3>2. said < 2 => ~watch
      BY <1>2 DEF Standing, NoInYet
    <3> QED BY <2>1, <2>4, <3>1, <3>2
  <2>6. PICK s : s = CallsAfter(c, r.ok, r.data) /\ todo' = s \o <<>>
    BY <1>8 DEF Callback, CallsAfter
  <2>7. /\ s \in Seq(AnyCall) /\ \A i \in DOMAIN s : ~InWrite(s[i])
        /\ c.pipe # "in" /\ r.data # 2 => \A i \in DOMAIN s : s[i].pipe # "in"
    <3>1. s = CallsAfter(c, r.ok, r.data)
      BY <2>6
    <3>2. c \in AnyCall /\ r.ok \in BOOLEAN /\ r.data \in Nat
      BY <1>4
    <3> QED BY <3>1, <3>2, CallbackCalls
  <2>8. todo' = s
    BY <2>6, <2>7
  <2>9. Standing'
    BY <1>6, <2>1, <2>2, <2>3, <2>4, <2>5, <2>7, <2>8
  <2>10. up' = up
    <3>1. ~UsesFreed(c, r.ok, ioWrite)
      BY <1>2, <1>3 DEF Standing, Structure, UsesFreed, Looks, InWrite
    <3> QED BY <1>8, <3>1 DEF Callback
  <2> QED BY <1>1, <2>9, <2>10 DEF IInv, InputWithoutGaps, WritesHaveStructure
<1> QED BY <1>5, <1>7, <1>8

-----------------------------------------------------------------------------
(* The server.                                                             *)

\* What all of its steps leave alone, and one more reply.
LEMMA Replied ==
    ASSUME Types, NEW c \in sent, NEW ok \in BOOLEAN, NEW m \in Nat, Replies(c, ok, m)
    PROVE  LET r == [req |-> c, ok |-> ok, data |-> m]
           IN  /\ sent' = sent \ {c} /\ sent' \subseteq AnyCall /\ c \in AnyCall
               /\ reply' \in Seq(Answers)
               /\ DOMAIN reply' = DOMAIN reply \cup {Len(reply) + 1}
               /\ Len(reply) + 1 \notin DOMAIN reply
               /\ DOMAIN reply \subseteq Nat /\ Len(reply) \in Nat
               /\ \A i \in DOMAIN reply : reply'[i] = reply[i] /\ i < Len(reply) + 1
               /\ reply'[Len(reply) + 1] = r
<1> DEFINE r == [req |-> c, ok |-> ok, data |-> m]
<1>1. r \in Answers /\ c \in AnyCall
  BY DEF Types, Answers
<1> HIDE DEF r
<1>2. sent' = sent \ {c} /\ reply' = Append(reply, r)
  BY DEF Replies, r
<1>3. reply \in Seq(Answers) /\ sent \subseteq AnyCall
  BY DEF Types
<1> QED BY <1>1, <1>2, <1>3 DEF r

\* A structure survives one more reply.
LEMMA ReplyKeepsStructure ==
    ASSUME Standing, NEW c \in sent, NEW ok \in BOOLEAN, NEW m \in Nat, Replies(c, ok, m),
           UNCHANGED ioWrite, srv["in"] = "gone" => srv'["in"] = "gone",
           srv'["in"] = "open" => srv["in"] = "open" \/ said < 2,
           Frees([req |-> c, ok |-> ok, data |-> m]) => srv'["in"] = "gone",
           Looks([req |-> c, ok |-> ok, data |-> m]) => srv["in"] = "open"
    PROVE  Structure'
<1> DEFINE r == [req |-> c, ok |-> ok, data |-> m]
           N == Len(reply) + 1
<1>1. /\ sent' = sent \ {c}
      /\ DOMAIN reply' = DOMAIN reply \cup {N} /\ N \notin DOMAIN reply
      /\ DOMAIN reply \subseteq Nat /\ N \in Nat
      /\ \A i \in DOMAIN reply : reply'[i] = reply[i] /\ i < N
      /\ reply'[N] = r
  <2>1. /\ sent' = sent \ {c}
        /\ DOMAIN reply' = DOMAIN reply \cup {Len(reply) + 1}
        /\ Len(reply) + 1 \notin DOMAIN reply
        /\ DOMAIN reply \subseteq Nat /\ Len(reply) \in Nat
        /\ \A i \in DOMAIN reply : reply'[i] = reply[i] /\ i < Len(reply) + 1
        /\ reply'[Len(reply) + 1] = [req |-> c, ok |-> ok, data |-> m]
    BY Replied DEF Standing
  <2> QED BY <2>1
<1>2. Structure /\ NoInYet
  BY DEF Standing
<1>3. (Frees(r) => srv'["in"] = "gone") /\ (Looks(r) => srv["in"] = "open" /\ InWrite(c))
  BY DEF Looks
<1> HIDE DEF r, N
<1>4. \A i \in DOMAIN reply' : Frees(reply'[i]) => srv'["in"] = "gone"
  BY <1>1, <1>2, <1>3 DEF Structure
<1>5. ASSUME NEW i \in DOMAIN reply', NEW j \in DOMAIN reply', i < j, Frees(reply'[i])
      PROVE  ~Looks(reply'[j])
  <2>1. i \in DOMAIN reply
    BY <1>1, <1>5
  <2>2. CASE j \in DOMAIN reply
    BY <1>1, <1>2, <1>5, <2>1, <2>2 DEF Structure
  <2>3. CASE j = N
    <3>1. srv["in"] = "gone"
      BY <1>1, <1>2, <1>5, <2>1 DEF Structure
    <3> QED BY <1>1, <1>3, <2>3, <3>1
  <2> QED BY <1>1, <2>2, <2>3
<1>6. ASSUME ~ioWrite'
      PROVE  /\ \A i \in DOMAIN reply' : ~Looks(reply'[i])
             /\ srv'["in"] = "open" => \A d \in sent' : ~InWrite(d)
  <2>1. /\ \A i \in DOMAIN reply : ~Looks(reply[i])
        /\ srv["in"] = "open" => \A d \in sent : ~InWrite(d)
    BY <1>2, <1>6 DEF Structure
  <2>2. ~Looks(r)
    BY <1>3, <2>1
  <2>3. said < 2 => \A d \in sent : ~InWrite(d)
    BY <1>2 DEF NoInYet, InWrite
  <2> QED BY <1>1, <2>1, <2>2, <2>3
<1> QED BY <1>4, <1>5, <1>6 DEF Structure

\* The server is done with c, which brings no input.
Quiet(c, ok, m) ==
    /\ InWrite(c) => srv["in"] # "open" /\ ~ok
    /\ UNCHANGED <<todo, typed, ioWrite, watch, got>> /\ todo = <<>>
    /\ srv' \in [Pipes -> {"none", "open", "gone"}] /\ said' \in Nat
    /\ said' = said \/ said' = said + 1
    /\ said < 2 /\ said' < 2 => srv'["in"] = "none" /\ m # 2
    /\ said < 2 /\ said' >= 2 => srv'["in"] = "open"
    /\ said >= 2 => srv'["in"] \in {srv["in"], "gone"}
    /\ c.pipe = "in" /\ (c.op = "close" \/ InWrite(c)) => srv'["in"] = "gone"

LEMMA OtherReply ==
    ASSUME Standing, NEW c \in sent, NEW ok \in BOOLEAN, NEW m \in Nat,
           Replies(c, ok, m), Quiet(c, ok, m)
    PROVE  Standing'
<1> USE DEF Quiet
<1>1. /\ sent' = sent \ {c} /\ sent' \subseteq AnyCall /\ c \in AnyCall
      /\ reply' \in Seq(Answers)
      /\ DOMAIN reply' = DOMAIN reply \cup {Len(reply) + 1}
      /\ \A i \in DOMAIN reply : reply'[i] = reply[i]
      /\ reply'[Len(reply) + 1] = [req |-> c, ok |-> ok, data |-> m]
  BY Replied DEF Standing
<1>2. Types'
  BY <1>1 DEF Standing, Types
<1>3. said \in Nat
  BY DEF Standing, Types
<1>4. OnlyWrite' /\ InMade'
  BY <1>3 DEF Standing, OnlyWrite, InMade
<1>5. NoInYet'
  BY <1>1, <1>3 DEF Standing, NoInYet
<1>6. SentNext'
  <2>1. LastSent' = LastSent /\ LastSent = typed /\ typed \in Nat
    BY DEF LastSent, Standing, Types
  <2>2. CASE srv["in"] = "open"
    <3>1. ~InWrite(c)
      BY <2>2
    <3>2. \A n \in Nat : Write("in", n) # c
      BY <3>1 DEF InWrite, Write, Call
    <3> QED BY <1>1, <2>1, <2>2, <3>2 DEF Standing, SentNext
  <2>3. CASE said < 2
    <3>1. typed = 0 /\ got = <<>> /\ \A n \in Nat : Write("in", n) \notin sent
      BY <2>3 DEF Standing, NoInYet, Write, Call
    <3> QED BY <1>1, <2>1, <3>1 DEF SentNext
  <2>4. CASE srv["in"] # "open" /\ said >= 2
    BY <2>4, <1>3 DEF SentNext
  <2> QED BY <1>3, <2>2, <2>3, <2>4
<1>7. Structure'
  <2> DEFINE r == [req |-> c, ok |-> ok, data |-> m]
  <2>1. srv["in"] = "gone" => srv'["in"] = "gone"
    BY <1>3 DEF Standing, NoInYet
  <2>2. srv'["in"] = "open" => srv["in"] = "open" \/ said < 2
    BY <1>3
  <2>3. (Frees(r) => srv'["in"] = "gone") /\ ~Looks(r)
    BY DEF Frees, Looks, InWrite
  <2>4. Replies(c, ok, m) /\ UNCHANGED ioWrite
    OBVIOUS
  <2> QED BY <2>1, <2>2, <2>3, <2>4, ReplyKeepsStructure
<1> QED BY <1>2, <1>4, <1>5, <1>6, <1>7 DEF Standing

LEMMA ServeStep == ASSUME IInv, NEW c \in sent, Serve(c) PROVE IInv'
<1>1. /\ alive /\ alive' /\ up' = up /\ todo = <<>>
      /\ UNCHANGED <<todo, ioWrite, watch, typed>>
  BY DEF Serve, Idle, connection, client, IInv
<1>2. Standing /\ InputWithoutGaps
  BY <1>1 DEF IInv
<1>3. /\ c \in AnyCall /\ srv \in [Pipes -> {"none", "open", "gone"}] /\ said \in Nat
      /\ "in" \in Pipes /\ c.pipe \in Pipes /\ "ctrl" \in Pipes
  BY <1>2, Words DEF Standing, Types, AnyCall
<1>4. /\ said < 2 => srv["in"] = "none" /\ c.pipe # "in"
      /\ said >= 2 => srv["in"] # "none"
  BY <1>2 DEF Standing, NoInYet, InMade
<1>5. IsOpen(c) \in BOOLEAN /\ (c.pipe = "in" => (IsOpen(c) <=> srv["in"] = "open"))
  BY DEF IsOpen
<1>6. ~InWrite(c) \/ (c.op = "write" /\ c.pipe = "in")
  BY DEF InWrite
<1>7. ASSUME NEW ok \in BOOLEAN, NEW m \in Nat, Replies(c, ok, m), Quiet(c, ok, m)
      PROVE  IInv'
  <2>1. Standing' /\ got' = got
    BY <1>2, <1>7, OtherReply DEF Quiet
  <2> QED BY <1>1, <1>2, <2>1 DEF IInv, InputWithoutGaps, WritesHaveStructure
<1>8. CASE ServeOpen(c)
  <2>1. /\ Replies(c, IsOpen(c), 0) /\ c.op = "open"
        /\ UNCHANGED <<srv, said, got>>
    BY <1>8 DEF ServeOpen, server
  <2>2. Quiet(c, IsOpen(c), 0)
    BY <1>1, <1>3, <1>4, <1>6, <2>1 DEF Quiet
  <2> QED BY <1>5, <1>7, <2>1, <2>2
<1>9. CASE ReadFails(c)
  <2>1. /\ Replies(c, FALSE, 0) /\ c.op = "read"
        /\ UNCHANGED <<srv, said, got>>
    BY <1>9 DEF ReadFails, server
  <2>2. Quiet(c, FALSE, 0)
    BY <1>1, <1>3, <1>4, <1>6, <2>1 DEF Quiet
  <2> QED BY <1>7, <2>1, <2>2
<1>10. CASE ServeOutput(c)
  <2>1. /\ Replies(c, TRUE, 0) /\ c.op = "read"
        /\ UNCHANGED <<srv, said, got>>
    <3>1. PICK p \in Outs : c = Read(p)
      BY <1>10 DEF ServeOutput
    <3>2. c.op = "read"
      BY <3>1 DEF Read, Call
    <3> QED BY <1>10, <3>2 DEF ServeOutput
  <2>2. Quiet(c, TRUE, 0)
    BY <1>1, <1>3, <1>4, <1>6, <2>1 DEF Quiet
  <2> QED BY <1>7, <2>1, <2>2
<1>11. CASE ServeClose(c)
  <2>1. /\ Replies(c, IsOpen(c), 0) /\ c.op = "close"
        /\ srv' = [srv EXCEPT ![c.pipe] = "gone"] /\ UNCHANGED <<said, got>>
    BY <1>11 DEF ServeClose
  <2>2. /\ srv' \in [Pipes -> {"none", "open", "gone"}]
        /\ srv'["in"] = IF c.pipe = "in" THEN "gone" ELSE srv["in"]
    BY <1>3, <2>1
  <2>3. Quiet(c, IsOpen(c), 0)
    BY <1>1, <1>3, <1>4, <1>6, <2>1, <2>2 DEF Quiet
  <2> QED BY <1>5, <1>7, <2>1, <2>3
<1>12. CASE ServeCtrl(c)
  <2>1. /\ Replies(c, TRUE, said') /\ c.op = "read"
        /\ said' = said + 1
        /\ srv' = IF said' = 2 THEN [p \in Pipes |-> "open"] ELSE srv
        /\ UNCHANGED got
    BY <1>12 DEF ServeCtrl, Read, Call
  <2>2. /\ srv' \in [Pipes -> {"none", "open", "gone"}] /\ said' \in Nat
        /\ srv'["in"] = IF said' = 2 THEN "open" ELSE srv["in"]
    BY <1>3, <2>1
  <2>3. said < 2 /\ said' >= 2 => said' = 2
    BY <1>3, <2>1
  <2>4. said >= 2 => said' # 2
    BY <1>3, <2>1
  <2>5. c.pipe = "ctrl"
    BY <1>12 DEF ServeCtrl, Read, Call
  <2>6. Quiet(c, TRUE, said')
    BY <1>1, <1>3, <1>4, <1>6, <2>1, <2>2, <2>3, <2>4, <2>5 DEF Quiet
  <2> QED BY <1>7, <2>1, <2>2, <2>6
<1>13. CASE ServeWrite(c) /\ ~(c.pipe = "in" /\ IsOpen(c))
  <2>1. /\ Replies(c, IsOpen(c), 0) /\ c.op = "write"
        /\ UNCHANGED <<srv, said, got>>
    BY <1>13 DEF ServeWrite
  <2>2. c.pipe = "in" => srv["in"] = "gone"
    BY <1>3, <1>4, <1>5, <1>13
  <2>3. c.pipe = "in" => ~IsOpen(c)
    BY <1>13
  <2>4. Quiet(c, IsOpen(c), 0)
    BY <1>1, <1>3, <1>4, <1>6, <2>1, <2>2, <2>3 DEF Quiet
  <2> QED BY <1>5, <1>7, <2>1, <2>4
<1>14. CASE ServeWrite(c) /\ c.pipe = "in" /\ IsOpen(c)
  <2>1. /\ Replies(c, TRUE, 0) /\ InWrite(c) /\ srv["in"] = "open"
        /\ \A d \in sent : InWrite(d) => d.data >= c.data
        /\ got' = Append(got, c.data)
        /\ UNCHANGED <<srv, said>>
    BY <1>5, <1>14 DEF ServeWrite, InWrite
  <2>2. c = Write("in", c.data) /\ c.data \in Nat
    BY <1>3, <2>1, Words DEF AnyCall
  <2>3. LastSent' = LastSent /\ LastSent = typed /\ typed \in Nat /\ got \in Seq(Nat)
    BY <1>1, <1>2 DEF LastSent, Standing, Types
  <2>4. \A n \in Nat : Write("in", n) \in sent <=> Len(got) < n /\ n <= typed
    BY <1>2, <2>1, <2>3 DEF Standing, SentNext
  <2>5. c.data = Len(got) + 1 /\ c.data <= typed
    <3>1. Len(got) < c.data /\ c.data <= typed
      BY <2>2, <2>4
    <3>2. Write("in", Len(got) + 1) \in sent
      BY <2>2, <2>3, <2>4, <3>1
    <3>3. InWrite(Write("in", Len(got) + 1)) /\ Write("in", Len(got) + 1).data = Len(got) + 1
      BY DEF InWrite, Write, Call
    <3>4. Len(got) + 1 >= c.data
      BY <2>1, <3>2, <3>3
    <3> QED BY <2>2, <2>3, <3>1, <3>4
  <2>6. /\ got' \in Seq(Nat) /\ Len(got') = Len(got) + 1
        /\ \A i \in 1..Len(got) : got'[i] = got[i]
        /\ got'[Len(got) + 1] = Len(got) + 1
    BY <2>1, <2>3, <2>5
  <2>7. InputWithoutGaps'
    <3>1. \A i \in 1..Len(got) : got[i] = i
      BY <1>2 DEF InputWithoutGaps
    <3>2. \A i \in 1..Len(got') : i \in 1..Len(got) \/ i = Len(got) + 1
      BY <2>3, <2>6
    <3>3. \A i \in 1..Len(got') : got'[i] = i
      BY <2>6, <3>1, <3>2
    <3> QED BY <3>3 DEF InputWithoutGaps
  <2>8. /\ sent' = sent \ {c} /\ sent' \subseteq AnyCall
        /\ reply' \in Seq(Answers)
        /\ DOMAIN reply' = DOMAIN reply \cup {Len(reply) + 1}
        /\ \A i \in DOMAIN reply : reply'[i] = reply[i]
        /\ reply'[Len(reply) + 1] = [req |-> c, ok |-> TRUE, data |-> 0]
    BY <1>2, <2>1, Replied DEF Standing
  <2>9. Types'
    BY <1>1, <1>2, <2>1, <2>6, <2>8 DEF Standing, Types
  <2>10. said >= 2
    BY <1>3, <1>4, <2>1
  <2>11. OnlyWrite' /\ NoInYet' /\ InMade'
    BY <1>1, <1>3, <1>4, <2>1, <2>10 DEF OnlyWrite, NoInYet, InMade
  <2>12. SentNext'
    <3>1. \A n \in Nat : Write("in", n) = c <=> n = Len(got) + 1
      BY <2>2, <2>5 DEF Write, Call
    <3> QED BY <2>3, <2>4, <2>5, <2>6, <2>8, <3>1 DEF SentNext
  <2>13. Structure'
    <3>1. ~Frees([req |-> c, ok |-> TRUE, data |-> 0])
      BY <2>1 DEF Frees, InWrite
    <3> QED BY <1>1, <1>2, <2>1, <3>1, ReplyKeepsStructure
  <2> QED BY <1>1, <1>2, <2>7, <2>9, <2>11, <2>12, <2>13 DEF Standing, IInv, WritesHaveStructure
<1> QED BY <1>8, <1>9, <1>10, <1>11, <1>12, <1>13, <1>14 DEF Serve

LEMMA HangUpStep == ASSUME IInv, NEW p \in Pipes, HangUp(p) PROVE IInv'
<1>1. /\ alive /\ alive' /\ srv[p] = "open" /\ srv' = [srv EXCEPT ![p] = "gone"]
      /\ UNCHANGED <<up, todo, ioWrite, watch, typed, sent, reply, said, got>>
  BY DEF HangUp, connection, client, wire
<1>2. Standing
  BY <1>1 DEF IInv
<1>3. /\ srv' \in [Pipes -> {"none", "open", "gone"}]
      /\ srv'["in"] = IF p = "in" THEN "gone" ELSE srv["in"]
      /\ p = "in" => srv["in"] = "open"
  BY <1>1, <1>2, Words DEF Standing, Types
<1>4. Types' /\ OnlyWrite'
  BY <1>1, <1>2, <1>3 DEF Standing, Types, OnlyWrite
<1>5. NoInYet' /\ InMade'
  BY <1>1, <1>2, <1>3 DEF Standing, NoInYet, InMade
<1>6. SentNext'
  BY <1>1, <1>2, <1>3 DEF Standing, SentNext, LastSent
<1>7. Structure'
  BY <1>1, <1>2, <1>3 DEF Standing, Structure
<1> QED BY <1>1, <1>4, <1>5, <1>6, <1>7 DEF Standing, IInv, InputWithoutGaps, WritesHaveStructure

LEMMA NextInv == IInv /\ [Next]_vars => IInv'
<1> SUFFICES ASSUME IInv, [Next]_vars PROVE IInv'
  OBVIOUS
<1>1. CASE UNCHANGED vars
  <2>1. UNCHANGED <<alive, todo, up, ioWrite, watch, typed, sent, reply, srv, said, got>>
    BY <1>1 DEF vars, connection, client, wire, server
  <2>2. Standing => Standing'
    BY <2>1 DEF Standing, Types, OnlyWrite, NoInYet, InMade, SentNext, LastSent, Structure
  <2> QED BY <2>1, <2>2 DEF IInv, InputWithoutGaps, WritesHaveStructure
<1> QED
  BY <1>1, SendCallStep, BrokenStep, ExitsStep, ReceiveStep, StdinStep, ServeStep, HangUpStep
  DEF Next, Perform, EventLoop, Server

\* The invariant the theorems below rest on.
THEOREM Invariant == Spec => []IInv
<1> QED BY InitInv, NextInv, PTL DEF Spec

\* What the in pipe carries is what was read from stdin up to some point: with
\* any number of writes under way (async_write queues none of them), whatever
\* pipes are closed and wherever the connection breaks.
THEOREM NoGap == Spec => []InputWithoutGaps
<1>1. IInv => InputWithoutGaps
  BY DEF IInv
<1> QED BY <1>1, Invariant, PTL

\* The one structure that all writes of stdin share is there whenever a good
\* reply to one of them looks into it, although a failed write and a close free
\* it while others are under way (async_write_recv, async_close_recv).
THEOREM NoFreedStructure == Spec => []WritesHaveStructure
<1>1. IInv => WritesHaveStructure
  BY DEF IInv
<1> QED BY <1>1, Invariant, PTL

-----------------------------------------------------------------------------
(* Requests taken out of pending.                                          *)

\* A set of numbers has a least one, as the finite sets are well-founded.
LEMMA LeastNumber ==
    ASSUME NEW X \in SUBSET Nat, X # {}
    PROVE  \E m \in X : \A k \in X : m <= k
<1> DEFINE R == StrictSubsetOrdering(Nat)
           F == FiniteSubsetsOf(Nat)
           Below == {0..n : n \in X}
<1>1. IsWellFoundedOn(R, F)
  BY FS_StrictSubsetOrderingWellFounded
<1>2. Below \subseteq F /\ Below # {}
  <2>1. \A n \in Nat : IsFiniteSet(0..n) /\ 0..n \in SUBSET Nat
    BY FS_Interval
  <2> QED BY <2>1 DEF FiniteSubsetsOf
<1> HIDE DEF R, F, Below
<1>3. PICK t \in Below : \A u \in Below : ~(<<u, t>> \in R)
  BY <1>1, <1>2, WFMin
<1>4. PICK m \in X : t = 0..m
  BY DEF Below
<1>5. ASSUME NEW k \in X, k < m PROVE FALSE
  <2>1. 0..k \in Below /\ 0..k \subseteq 0..m /\ 0..k # 0..m
    BY <1>5 DEF Below
  <2>2. <<0..k, 0..m>> \in R
     BY <2>1, <1>5 DEF R, StrictSubsetOrdering
  <2> QED BY <2>1, <2>2, <1>3, <1>4
<1> QED BY <1>5

LEMMA MinIn ==
    ASSUME NEW X \in SUBSET Nat, X # {}
    PROVE  Min(X) \in X
BY LeastNumber DEF Min

LEMMA RemovedAt ==
    ASSUME NEW S, NEW q \in Seq(S), NEW i \in 1..Len(q)
    PROVE  /\ RemoveAt(q, i) \in Seq(S)
           /\ DOMAIN RemoveAt(q, i) = 1..Len(q) - 1
           /\ \A j \in 1..Len(q) - 1 : RemoveAt(q, i)[j] = q[IF j < i THEN j ELSE j + 1]
<1> DEFINE a == SubSeq(q, 1, i - 1)
           b == SubSeq(q, i + 1, Len(q))
<1>1. a \in Seq(S) /\ Len(a) = i - 1 /\ \A j \in 1..i - 1 : a[j] = q[j]
  OBVIOUS
<1>2. b \in Seq(S) /\ Len(b) = Len(q) - i /\ \A j \in 1..Len(q) - i : b[j] = q[j + i]
  OBVIOUS
<1>3. RemoveAt(q, i) = a \o b
  BY DEF RemoveAt
<1> HIDE DEF a, b
<1>4. /\ a \o b \in Seq(S) /\ Len(a \o b) = Len(q) - 1
      /\ DOMAIN (a \o b) = 1..Len(q) - 1
  <2>1. a \o b \in Seq(S) /\ Len(a \o b) = Len(a) + Len(b)
    BY <1>1, <1>2, ConcatProperties
  <2>2. Len(a \o b) = Len(q) - 1
    BY <1>1, <1>2, <2>1
  <2> QED BY <2>1, <2>2
<1>5. ASSUME NEW j \in 1..Len(q) - 1 PROVE (a \o b)[j] = q[IF j < i THEN j ELSE j + 1]
  <2>1. CASE j < i
    BY <1>1, <1>2, <2>1
  <2>2. CASE ~(j < i)
    <3>1. (a \o b)[j] = b[j - Len(a)] /\ j - Len(a) \in 1..Len(q) - i
          /\ (j - Len(a)) + i = j + 1
      BY <1>1, <1>2, <2>2
    <3> QED BY <1>2, <2>2, <3>1
  <2> QED BY <2>1, <2>2
<1> QED BY <1>3, <1>4, <1>5

\* The first of the requests that wait for pipe p, or request c, is taken out.
Dropped(q, p) == RemoveFirstMatch(q, LAMBDA r : Waits(r, p))
LEMMA FirstListener ==
    ASSUME NEW S, NEW q \in Seq(S), NEW p, Listeners(q, p) # {}
    PROVE  \E i \in Listeners(q, p) : Dropped(q, p) = RemoveAt(q, i)
<1> DEFINE I == {i \in 1..Len(q) : Waits(q[i], p)}
<1>1. I = Listeners(q, p)
  BY DEF Listeners
<1>2. Dropped(q, p) = RemoveAt(q, Min(I))
  BY <1>1 DEF Dropped, RemoveFirstMatch, SelectInSeq
<1>3. I \in SUBSET Nat
  OBVIOUS
<1> HIDE DEF I
<1> QED BY <1>1, <1>2, <1>3, MinIn

LEMMA NoListener ==
    ASSUME NEW S, NEW q \in Seq(S), NEW p, Listeners(q, p) = {}
    PROVE  Dropped(q, p) = q
BY DEF Dropped, RemoveFirstMatch, Listeners

LEMMA FirstRequest ==
    ASSUME NEW S, NEW q \in Seq(S), NEW c, Contains(q, c)
    PROVE  \E i \in 1..Len(q) : q[i] = c /\ RemoveFirst(q, c) = RemoveAt(q, i)
<1> DEFINE I == {i \in 1..Len(q) : q[i] = c}
<1>1. I # {} /\ I \in SUBSET Nat
  BY DEF Contains
<1>2. RemoveFirst(q, c) = RemoveAt(q, Min(I))
  BY <1>1 DEF RemoveFirst, SelectInSeq
<1>3. Min(I) \in I
  <2> HIDE DEF I
  <2> QED BY <1>1, MinIn
<1> QED BY <1>2, <1>3

\* ClosePending leaves requests that were pending.
LEMMA Closing ==
    ASSUME NEW S, pending \in Seq(S), NEW c
    PROVE  ClosePending(c) \in Seq(S)
<1>0. ClosePending(c) = IF c.op = "close" THEN Dropped(pending, c.pipe) ELSE pending
  BY DEF ClosePending, Dropped, RemoveFirstMatch
<1>1. CASE c.op = "close" /\ Listeners(pending, c.pipe) # {}
  <2>1. PICK i \in Listeners(pending, c.pipe) : Dropped(pending, c.pipe) = RemoveAt(pending, i)
    BY <1>1, FirstListener
  <2>2. i \in 1..Len(pending)
    BY DEF Listeners
  <2> QED BY <1>0, <1>1, <2>1, <2>2, RemovedAt
<1>2. CASE ~(c.op = "close" /\ Listeners(pending, c.pipe) # {})
  BY <1>0, <1>2, NoListener
<1> QED BY <1>1, <1>2
-----------------------------------------------------------------------------
(* Types.                                                                  *)

\* The client tells the service two things.
Spoken(c) == c.pipe = "ctrl" /\ c.op = "write" => c.data \in 1..2
GoodCalls == {c \in Calls : Spoken(c)}
GoodReplies == [req : GoodCalls, ok : BOOLEAN, data : 0..3]

\* The types, of the requests the client really makes.
TInv ==
    /\ alive \in BOOLEAN /\ ioWrite \in BOOLEAN /\ watch \in BOOLEAN
    /\ pending \in Seq(GoodCalls) /\ todo \in Seq(GoodCalls)
    /\ reply \in Seq(GoodReplies)
    /\ up \in {"run", "gone", "crashed"}
    /\ stage \in [Pipes -> {"none", "opened", "closed"}]
    /\ sent \subseteq GoodCalls
    /\ typed \in 0..MaxIn
    /\ srv \in [Pipes -> {"none", "open", "gone"}]
    /\ heard \subseteq 1..2 /\ said \in 0..3
    /\ output \in 0..MaxOut

LEMMA GoodWords ==
    ASSUME NEW p \in Pipes
    PROVE  /\ Open(p) \in GoodCalls /\ Read(p) \in GoodCalls /\ Exit \in GoodCalls
           /\ \A n \in 0..MaxIn + 2 : Close(p, n) \in GoodCalls
           /\ \A n \in 1..2 : Write("ctrl", n) \in GoodCalls
           /\ \A n \in 0..MaxIn : Write("in", n) \in GoodCalls
<1>1. MaxIn \in Nat /\ "ctrl" \in Pipes /\ "in" \in Pipes
  BY PipesAssumption DEF Pipes
<1>2. \A n \in 0..MaxIn : n \in 0..MaxIn + 2
  BY <1>1
<1>3. \A n \in 1..2 : n \in 0..MaxIn + 2
  BY <1>1
<1>4. 0 \in 0..MaxIn + 2
  BY <1>1
<1>5. \A op \in {"open", "read", "close", "exit"}, r \in Pipes, n \in 0..MaxIn + 2 :
        Call(op, r, n) \in GoodCalls
  BY DEF Call, GoodCalls, Calls, Spoken
<1>6. \A n \in 1..2 : Call("write", "ctrl", n) \in GoodCalls
  BY <1>1, <1>3 DEF Call, GoodCalls, Calls, Spoken
<1>7. \A n \in 0..MaxIn : Call("write", "in", n) \in GoodCalls
  BY <1>1, <1>2 DEF Call, GoodCalls, Calls, Spoken
<1> QED BY <1>1, <1>4, <1>5, <1>6, <1>7 DEF Open, Read, Exit, Close, Write

LEMMA GoodOpenData == OpenData \in Seq(GoodCalls)
<1>0. "in" \in Pipes /\ Outs \subseteq Pipes
  BY DEF Pipes
<1>1. <<Open("in")>> \in Seq(GoodCalls)
  BY <1>0, GoodWords
<1>2. (IF "out" \in Outs THEN <<Open("out")>> ELSE <<>>) \in Seq(GoodCalls)
  BY <1>0, GoodWords
<1>3. (IF "err" \in Outs THEN <<Open("err")>> ELSE <<>>) \in Seq(GoodCalls)
  BY <1>0, GoodWords
<1> QED BY <1>1, <1>2, <1>3, ConcatProperties DEF OpenData

LEMMA GoodCallback ==
    ASSUME NEW c \in GoodCalls, NEW ok \in BOOLEAN, NEW m \in 0..3
    PROVE  CallsAfter(c, ok, m) \in Seq(GoodCalls)
<1>1. c.pipe \in Pipes /\ c.data \in 0..MaxIn + 2 /\ "ctrl" \in Pipes
  BY DEF GoodCalls, Calls, Pipes
<1>2. CASE c.pipe = "ctrl"
  <2>1. /\ <<Exit>> \in Seq(GoodCalls) /\ <<>> \in Seq(GoodCalls)
        /\ <<Read("ctrl")>> \in Seq(GoodCalls)
    BY <1>1, GoodWords
  <2>2. \A n \in 1..2 : <<Write("ctrl", n), Read("ctrl")>> \in Seq(GoodCalls)
    BY <1>1, GoodWords
  <2>3. OpenData \o <<Read("ctrl")>> \in Seq(GoodCalls)
    BY <2>1, GoodOpenData, ConcatProperties
  <2>4. CallsAfter(c, ok, m) = CtrlCalls(c.op, ok, m)
    BY <1>2 DEF CallsAfter
  <2> QED BY <2>1, <2>2, <2>3, <2>4 DEF CtrlCalls
<1>3. CASE c.pipe # "ctrl"
  <2>1. <<>> \in Seq(GoodCalls) /\ <<Read(c.pipe)>> \in Seq(GoodCalls)
        /\ <<Close(c.pipe, c.data)>> \in Seq(GoodCalls)
    BY <1>1, GoodWords
  <2>2. CallsAfter(c, ok, m) = DataCalls(c.pipe, c.op, c.data, ok)
    BY <1>3 DEF CallsAfter
  <2> QED BY <2>1, <2>2 DEF DataCalls
<1> QED BY <1>2, <1>3

\* The variables a callback changes.
LEMMA CallbackTypes ==
    ASSUME TInv, NEW c \in GoodCalls, NEW ok \in BOOLEAN, NEW m \in 0..3, NEW io \in BOOLEAN,
           NEW rest \in Seq(GoodCalls), Callback(c, ok, m, io, rest)
    PROVE  /\ ioWrite' \in BOOLEAN /\ watch' \in BOOLEAN /\ up' \in {"run", "gone", "crashed"}
           /\ todo' \in Seq(GoodCalls)
<1>1. todo' = CallsAfter(c, ok, m) \o rest
  BY DEF Callback, CallsAfter
<1>2. todo' \in Seq(GoodCalls)
  BY <1>1, GoodCallback, ConcatProperties
<1>3. ioWrite' = (io /\ ~Freed(c, ok)) /\ watch' = (watch \/ (ok /\ c = Open("in")))
  BY DEF Callback
<1>4. ioWrite' \in BOOLEAN /\ watch' \in BOOLEAN
  BY <1>3
<1>5. up' \in {"run", "gone", "crashed"}
  BY DEF Callback, TInv
<1> QED BY <1>2, <1>4, <1>5

LEMMA InitTypes == Init => TInv
<1> SUFFICES ASSUME Init PROVE TInv
  OBVIOUS
<1>1. "ctrl" \in Pipes /\ MaxIn \in Nat /\ MaxOut \in Nat
  BY PipesAssumption DEF Pipes
<1>2. alive = TRUE /\ ioWrite = FALSE /\ watch = FALSE /\ pending = <<>> /\ reply = <<>>
      /\ todo = <<Open("ctrl")>> /\ up = "run" /\ sent = {} /\ heard = {} /\ said = 0
      /\ typed = 0 /\ output = 0
  BY DEF Init
<1>3. pending \in Seq(GoodCalls) /\ todo \in Seq(GoodCalls) /\ reply \in Seq(GoodReplies)
  BY <1>1, <1>2, GoodWords
<1>4. stage \in [Pipes -> {"none", "opened", "closed"}]
      /\ srv \in [Pipes -> {"none", "open", "gone"}]
  BY DEF Init
<1>5. alive \in BOOLEAN /\ ioWrite \in BOOLEAN /\ watch \in BOOLEAN
  BY <1>2
<1> QED BY <1>1, <1>2, <1>3, <1>4, <1>5 DEF TInv

LEMMA PerformTypes == ASSUME TInv, Perform PROVE TInv'
<1>1. CASE Exits
  <2>1. todo' = <<>> /\ up' = "gone"
        /\ UNCHANGED <<alive, pending, ioWrite, watch, stage, typed, sent, reply, srv, heard,
                       said, got, output>>
    BY <1>1 DEF Exits, connection, wire, server
  <2>2. todo' \in Seq(GoodCalls)
    BY <2>1
  <2> QED BY <2>1, <2>2 DEF TInv
<1>2. CASE SendCall \/ SendBreaks \/ SendRefused
  <2> DEFINE c == Head(todo)
  <2>1. todo \in Seq(GoodCalls) /\ todo # <<>>
    BY <1>2 DEF TInv, SendCall, SendBreaks, SendRefused, Calling
  <2>2. c \in GoodCalls /\ c \in Calls /\ c.pipe \in Pipes /\ Tail(todo) \in Seq(GoodCalls)
    BY <2>1 DEF GoodCalls, Calls
  <2>3. ClosePending(c) \in Seq(GoodCalls)
    BY Closing DEF TInv
  <2>4. Allocated(c) \in BOOLEAN
    BY DEF Allocated, TInv
  <2>5. Staged(c)
    BY <1>2 DEF SendCall, SendBreaks, SendRefused
  <2> HIDE DEF c
  <2>6. stage' \in [Pipes -> {"none", "opened", "closed"}]
    BY <2>2, <2>5 DEF Staged, TInv
  <2>7. UNCHANGED <<typed, srv, heard, said, got, output>>
    BY <1>2 DEF SendCall, SendBreaks, SendRefused, server
  <2>8. CASE SendCall
    <3>1. /\ pending' = <<c>> \o ClosePending(c) /\ sent' = sent \cup {c}
          /\ ioWrite' = Allocated(c) /\ todo' = Tail(todo)
          /\ UNCHANGED <<alive, up, watch, reply>>
      BY <2>8 DEF SendCall, c
    <3>2. <<c>> \in Seq(GoodCalls)
      BY <2>2
    <3>3. pending' \in Seq(GoodCalls)
      BY <2>3, <3>1, <3>2, ConcatProperties
    <3> QED BY <2>2, <2>4, <2>6, <2>7, <3>1, <3>3 DEF TInv
  <2>9. CASE SendRefused
    <3>1. /\ pending' = ClosePending(c)
          /\ ioWrite' = Allocated(c) /\ todo' = Tail(todo)
          /\ UNCHANGED <<alive, up, watch, sent, reply>>
      BY <2>9 DEF SendRefused, c, wire
    <3> QED BY <2>2, <2>3, <2>4, <2>6, <2>7, <3>1 DEF TInv
  <2>10. CASE SendBreaks
    <3>1. Dead(ClosePending(c), Allocated(c), Tail(todo))
      BY <2>10 DEF SendBreaks, c
    <3>2. alive' = FALSE /\ sent' = {} /\ reply' = <<>>
      BY <3>1 DEF Dead
    <3>0. FALSE \in BOOLEAN /\ 0 \in 0..3
      OBVIOUS
    <3>3. /\ ioWrite' \in BOOLEAN /\ watch' \in BOOLEAN /\ up' \in {"run", "gone", "crashed"}
          /\ todo' \in Seq(GoodCalls) /\ pending' \in Seq(GoodCalls)
      <4>1. CASE ClosePending(c) = <<>>
        BY <2>2, <2>4, <3>1, <4>1 DEF Dead, TInv
      <4>2. CASE ClosePending(c) # <<>>
        <5>1. /\ pending' = Tail(ClosePending(c))
              /\ Callback(Head(ClosePending(c)), FALSE, 0, Allocated(c), Tail(todo))
          BY <3>1, <4>2 DEF Dead
        <5>2. Head(ClosePending(c)) \in GoodCalls /\ Tail(ClosePending(c)) \in Seq(GoodCalls)
          BY <2>3, <4>2
        <5> QED BY <2>2, <2>4, <3>0, <5>1, <5>2, CallbackTypes
      <4> QED BY <4>1, <4>2
    <3>4. reply' \in Seq(GoodReplies)
      BY <3>2
    <3>5. alive' \in BOOLEAN
      BY <3>2
    <3> QED BY <2>6, <2>7, <3>2, <3>3, <3>4, <3>5 DEF TInv
  <2> QED BY <1>2, <2>8, <2>9, <2>10
<1> QED BY <1>1, <1>2 DEF Perform

LEMMA EventTypes == ASSUME TInv, EventLoop PROVE TInv'
<1>1. CASE StdinEvent
  <2>1. /\ UNCHANGED <<alive, pending, up, ioWrite, watch, stage, sent, reply, srv, heard, said,
                       got, output>>
        /\ typed' = typed + 1 /\ typed < MaxIn /\ todo' = <<Write("in", typed')>>
    BY <1>1 DEF StdinEvent, StdinRead, WriteInput, connection, wire, server
  <2>2. typed' \in 0..MaxIn
    BY <2>1, PipesAssumption DEF TInv
  <2>3. "ctrl" \in Pipes
    BY DEF Pipes
  <2>4. todo' \in Seq(GoodCalls)
    BY <2>1, <2>2, <2>3, GoodWords
  <2> QED BY <2>1, <2>2, <2>4 DEF TInv
<1>2. CASE Break
  <2>1. Dead(pending, ioWrite, <<>>) /\ UNCHANGED <<stage, typed, srv, heard, said, got, output>>
    BY <1>2 DEF Break, server
  <2>2. alive' = FALSE /\ sent' = {} /\ reply' = <<>>
    BY <2>1 DEF Dead
  <2>3. /\ ioWrite' \in BOOLEAN /\ watch' \in BOOLEAN /\ up' \in {"run", "gone", "crashed"}
        /\ todo' \in Seq(GoodCalls) /\ pending' \in Seq(GoodCalls)
    <3>1. CASE pending = <<>>
      BY <2>1, <3>1 DEF Dead, TInv
    <3>2. CASE pending # <<>>
      <4>1. pending' = Tail(pending) /\ Callback(Head(pending), FALSE, 0, ioWrite, <<>>)
        BY <2>1, <3>2 DEF Dead
      <4>2. Head(pending) \in GoodCalls /\ Tail(pending) \in Seq(GoodCalls)
            /\ <<>> \in Seq(GoodCalls) /\ ioWrite \in BOOLEAN
        BY <3>2 DEF TInv
      <4>3. FALSE \in BOOLEAN /\ 0 \in 0..3
        OBVIOUS
      <4> QED BY <4>1, <4>2, <4>3, CallbackTypes
    <3> QED BY <3>1, <3>2
  <2>4. reply' \in Seq(GoodReplies)
    BY <2>2
  <2>5. alive' \in BOOLEAN
    BY <2>2
  <2> QED BY <2>1, <2>2, <2>3, <2>4, <2>5 DEF TInv
<1>3. CASE Receive
  <2> DEFINE r == Head(reply)
             c == r.req
  <2>1. reply # <<>> /\ reply' = Tail(reply)
        /\ UNCHANGED <<alive, stage, typed, sent, srv, heard, said, got, output>>
    BY <1>3 DEF Receive, server
  <2>2. r \in GoodReplies /\ reply' \in Seq(GoodReplies)
    BY <2>1 DEF TInv
  <2>3. c \in GoodCalls /\ r.ok \in BOOLEAN /\ r.data \in 0..3
    BY <2>2 DEF GoodReplies
  <2>4. IF Contains(pending, c)
        THEN pending' = RemoveFirst(pending, c) /\ Callback(c, r.ok, r.data, ioWrite, <<>>)
        ELSE UNCHANGED <<pending, todo, up, ioWrite, watch>>
    BY <1>3 DEF Receive, client
  <2> HIDE DEF r
  <2>5. CASE Contains(pending, c)
    <3>1. pending \in Seq(GoodCalls) /\ ioWrite \in BOOLEAN /\ <<>> \in Seq(GoodCalls)
      BY DEF TInv
    <3>2. pending' \in Seq(GoodCalls)
      <4>1. PICK i \in 1..Len(pending) : RemoveFirst(pending, c) = RemoveAt(pending, i)
        BY <2>5, <3>1, FirstRequest
      <4> QED BY <2>4, <2>5, <3>1, <4>1, RemovedAt
    <3>3. /\ ioWrite' \in BOOLEAN /\ watch' \in BOOLEAN /\ up' \in {"run", "gone", "crashed"}
          /\ todo' \in Seq(GoodCalls)
      BY <2>3, <2>4, <2>5, <3>1, CallbackTypes
    <3> QED BY <2>1, <2>2, <3>2, <3>3 DEF TInv
  <2>6. CASE ~Contains(pending, c)
    BY <2>1, <2>2, <2>4, <2>6 DEF TInv
  <2> QED BY <2>5, <2>6
<1> QED BY <1>1, <1>2, <1>3 DEF EventLoop

LEMMA ServerTypes == ASSUME TInv, Server PROVE TInv'
<1>1. ASSUME NEW p \in Pipes, HangUp(p) PROVE TInv'
  BY <1>1 DEF HangUp, connection, client, wire, TInv
<1>2. ASSUME NEW c \in sent, Serve(c) PROVE TInv'
  <2>1. UNCHANGED <<alive, pending, todo, up, ioWrite, watch, stage, typed>>
    BY <1>2 DEF Serve, connection, client
  <2>2. c \in GoodCalls /\ c.pipe \in Pipes /\ IsOpen(c) \in BOOLEAN
    BY DEF TInv, GoodCalls, Calls, IsOpen
  <2>3. ASSUME NEW ok \in BOOLEAN, NEW m \in 0..3, Replies(c, ok, m)
        PROVE  sent' \subseteq GoodCalls /\ reply' \in Seq(GoodReplies)
    <3>1. [req |-> c, ok |-> ok, data |-> m] \in GoodReplies
      BY <2>2 DEF GoodReplies
    <3> QED BY <2>3, <3>1 DEF Replies, TInv
  <2>4. ASSUME sent' \subseteq GoodCalls, reply' \in Seq(GoodReplies),
               srv' \in [Pipes -> {"none", "open", "gone"}], heard' \subseteq 1..2,
               said' \in 0..3, output' \in 0..MaxOut
        PROVE  TInv'
    BY <2>1, <2>4 DEF TInv
  <2>5. CASE ServeOpen(c) \/ ReadFails(c)
    <3>1. UNCHANGED <<srv, heard, said, got, output>>
      BY <2>5 DEF ServeOpen, ReadFails, server
    <3>2. PICK ok \in BOOLEAN : Replies(c, ok, 0)
      BY <2>2, <2>5 DEF ServeOpen, ReadFails
    <3>3. sent' \subseteq GoodCalls /\ reply' \in Seq(GoodReplies)
      BY <2>3, <3>2
    <3> QED BY <2>4, <3>1, <3>3 DEF TInv
  <2>6. CASE ServeWrite(c)
    <3>1. c.op = "write" /\ Replies(c, IsOpen(c), 0) /\ UNCHANGED <<srv, said, output>>
          /\ heard' = IF IsOpen(c) /\ c.pipe = "ctrl" THEN heard \cup {c.data} ELSE heard
      BY <2>6 DEF ServeWrite
    <3>2. c.pipe = "ctrl" => c.data \in 1..2
      BY <2>2, <3>1 DEF GoodCalls, Spoken
    <3>3. sent' \subseteq GoodCalls /\ reply' \in Seq(GoodReplies)
      BY <2>2, <2>3, <3>1
    <3>4. heard' \subseteq 1..2
      BY <3>1, <3>2 DEF TInv
    <3> QED BY <2>4, <3>1, <3>3, <3>4 DEF TInv
  <2>7. CASE ServeCtrl(c)
    <3>1. said < 3 /\ said' = said + 1 /\ Replies(c, TRUE, said') /\ UNCHANGED <<heard, output>>
          /\ srv' = IF said' = 2 THEN [p \in Pipes |-> "open"] ELSE srv
      BY <2>7 DEF ServeCtrl
    <3>2. said' \in 0..3
      BY <3>1 DEF TInv
    <3>3. sent' \subseteq GoodCalls /\ reply' \in Seq(GoodReplies)
      BY <2>3, <3>1, <3>2
    <3>4. srv' \in [Pipes -> {"none", "open", "gone"}]
      BY <3>1 DEF TInv
    <3> QED BY <2>4, <3>1, <3>2, <3>3, <3>4 DEF TInv
  <2>8. CASE ServeOutput(c)
    <3>1. output < MaxOut /\ output' = output + 1 /\ Replies(c, TRUE, 0)
          /\ UNCHANGED <<srv, heard, said>>
      BY <2>8 DEF ServeOutput
    <3>2. output' \in 0..MaxOut
      BY <3>1, PipesAssumption DEF TInv
    <3>0. TRUE \in BOOLEAN /\ 0 \in 0..3
      OBVIOUS
    <3>3. sent' \subseteq GoodCalls /\ reply' \in Seq(GoodReplies)
      BY <2>3, <3>0, <3>1
    <3> QED BY <2>4, <3>1, <3>2, <3>3 DEF TInv
  <2>9. CASE ServeClose(c)
    <3>1. Replies(c, IsOpen(c), 0) /\ srv' = [srv EXCEPT ![c.pipe] = "gone"]
          /\ UNCHANGED <<heard, said, output>>
      BY <2>9 DEF ServeClose
    <3>2. sent' \subseteq GoodCalls /\ reply' \in Seq(GoodReplies)
      BY <2>2, <2>3, <3>1
    <3>3. srv' \in [Pipes -> {"none", "open", "gone"}]
      BY <3>1 DEF TInv
    <3> QED BY <2>4, <3>1, <3>2, <3>3 DEF TInv
  <2> QED BY <1>2, <2>5, <2>6, <2>7, <2>8, <2>9 DEF Serve
<1> QED BY <1>1, <1>2 DEF Server

LEMMA TypesHold == Spec => []TInv
<1>1. TInv /\ [Next]_vars => TInv'
  <2> SUFFICES ASSUME TInv, [Next]_vars PROVE TInv'
    OBVIOUS
  <2>1. CASE UNCHANGED vars
    BY <2>1 DEF vars, connection, client, wire, server, TInv
  <2> QED BY <2>1, PerformTypes, EventTypes, ServerTypes DEF Next
<1> QED BY <1>1, InitTypes, PTL DEF Spec

\* Type correctness, with any amount of input and output: what a callback calls
\* next is a request that async.c can make, however the replies come.
THEOREM TypeCorrect == Spec => []TypeOK
<1>1. TInv => TypeOK
  <2> SUFFICES ASSUME TInv PROVE TypeOK
    OBVIOUS
  <2>1. \A q \in {pending, todo} : \A i \in DOMAIN q : q[i] \in Calls
    BY DEF TInv, GoodCalls
  <2>2. \A i \in DOMAIN reply : reply[i] \in [req : Calls, ok : BOOLEAN, data : 0..3]
    <3> SUFFICES ASSUME NEW i \in DOMAIN reply
                 PROVE  reply[i] \in [req : Calls, ok : BOOLEAN, data : 0..3]
      OBVIOUS
    <3>1. reply[i] \in GoodReplies
      BY DEF TInv
    <3> QED BY <3>1 DEF GoodReplies, GoodCalls
  <2>3. sent \subseteq Calls
    BY DEF TInv, GoodCalls
  <2> QED BY <2>1, <2>2, <2>3 DEF TInv, TypeOK
<1> QED BY <1>1, TypesHold, PTL
-----------------------------------------------------------------------------
(* Who listens to which pipe.                                              *)

AtMostOne(q, p) == \A i, j \in Listeners(q, p) : i = j
Heard(q, p) == Listeners(q, p) # {}

\* A call to be made is legal for the pipes as they are.
Waiting(c) == c.op \in {"open", "read"}
Legal(c) ==
    /\ c.op # "exit"
    /\ c.op = "open" => stage[c.pipe] = "none"
    /\ c.op = "read" => stage[c.pipe] = "opened" /\ ~Heard(pending, c.pipe)
    /\ c.op = "close" => todo = <<c>>

\* A pipe that is open has its listener, or soon: the running callback is about
\* to read from it again, or to close it.
Heading(p) == \E i \in DOMAIN todo : todo[i].pipe = p /\ todo[i].op \in {"read", "close"}
Attended(p) ==
    /\ AtMostOne(pending, p)
    /\ Heard(pending, p) => stage[p] = "opened"
    /\ stage[p] = "opened" => Heard(pending, p) \/ Heading(p)

\* No two calls of a callback wait for one pipe.
Separate(q) ==
    \A i, j \in DOMAIN q : Waiting(q[i]) /\ Waiting(q[j]) /\ q[i].pipe = q[j].pipe => i = j

Listening ==
    /\ \A p \in Pipes : Attended(p)
    /\ \A i \in DOMAIN todo : Legal(todo[i])
    /\ Separate(todo)

\* Until the second message of the service is read, the client knows only the
\* control pipe; and there is one such message.
OfCtrl == {c \in GoodCalls : c.pipe = "ctrl"}
Unnamed == said < 2 \/ \E i \in DOMAIN reply : reply[i].data = 2
OnlyCtrl ==
    /\ \A p \in Pipes \ {"ctrl"} : stage[p] = "none"
    /\ todo \in Seq(OfCtrl) /\ pending \in Seq(OfCtrl)
    /\ ~watch
CtrlRead(r) == r.ok /\ r.req.pipe = "ctrl" /\ r.req.op = "read"
Named ==
    /\ Unnamed => OnlyCtrl
    /\ said < 2 => \A i \in DOMAIN reply : reply[i].data # 2
    /\ \A i, j \in DOMAIN reply : reply[i].data = 2 /\ reply[j].data = 2 => i = j
    /\ \A i \in DOMAIN reply : CtrlRead(reply[i]) => reply[i].data \in 1..3

\* What holds while the connection stands and the client goes on.
Attentive == alive /\ up = "run" /\ todo # <<Exit>> => Listening /\ Named

LEMMA Prefixed ==
    ASSUME NEW S, NEW q \in Seq(S), NEW c \in S, NEW p
    PROVE  /\ Heard(<<c>> \o q, p) <=> Waits(c, p) \/ Heard(q, p)
           /\ AtMostOne(q, p) /\ ~(Waits(c, p) /\ Heard(q, p)) => AtMostOne(<<c>> \o q, p)
<1> DEFINE s == <<c>> \o q
<1>1. /\ DOMAIN s = 1..Len(q) + 1 /\ s[1] = c /\ Len(q) \in Nat /\ DOMAIN q = 1..Len(q)
      /\ \A i \in 1..Len(q) : s[i + 1] = q[i]
  OBVIOUS
<1> HIDE DEF s
<1>2. \A i \in DOMAIN s : i = 1 \/ (i - 1 \in DOMAIN q /\ s[i] = q[i - 1])
  <2> SUFFICES ASSUME NEW i \in DOMAIN s, i # 1 PROVE i - 1 \in DOMAIN q /\ s[i] = q[i - 1]
    OBVIOUS
  <2>1. i - 1 \in 1..Len(q) /\ (i - 1) + 1 = i
    BY <1>1
  <2> QED BY <1>1, <2>1
<1>3. \A i \in Listeners(s, p) : (i = 1 /\ Waits(c, p)) \/ i - 1 \in Listeners(q, p)
  BY <1>1, <1>2 DEF Listeners
<1>4. Waits(c, p) => 1 \in Listeners(s, p)
  BY <1>1 DEF Listeners
<1>5. \A i \in Listeners(q, p) : i + 1 \in Listeners(s, p)
  BY <1>1 DEF Listeners
<1>6. Listeners(s, p) \subseteq Int
  BY <1>1 DEF Listeners
<1>7. Heard(s, p) <=> Waits(c, p) \/ Heard(q, p)
  BY <1>3, <1>4, <1>5 DEF Heard
<1>8. ASSUME AtMostOne(q, p), ~(Waits(c, p) /\ Heard(q, p)) PROVE AtMostOne(s, p)
  <2> SUFFICES ASSUME NEW i \in Listeners(s, p), NEW j \in Listeners(s, p) PROVE i = j
    BY DEF AtMostOne
  <2>1. CASE Waits(c, p)
    BY <1>3, <1>8, <2>1 DEF Heard
  <2>2. CASE ~Waits(c, p)
    <3>1. i - 1 = j - 1
      BY <1>3, <1>8, <2>2 DEF AtMostOne
    <3> QED BY <1>6, <3>1
  <2> QED BY <2>1, <2>2
<1> QED BY <1>7, <1>8 DEF s

LEMMA Removed ==
    ASSUME NEW S, NEW q \in Seq(S), NEW i \in 1..Len(q), NEW p
    PROVE  /\ Heard(RemoveAt(q, i), p) => Heard(q, p)
           /\ AtMostOne(q, p) => AtMostOne(RemoveAt(q, i), p)
           /\ AtMostOne(q, p) /\ Waits(q[i], p) => ~Heard(RemoveAt(q, i), p)
           /\ ~Waits(q[i], p) /\ Heard(q, p) => Heard(RemoveAt(q, i), p)
<1> DEFINE s == RemoveAt(q, i)
           From(j) == IF j < i THEN j ELSE j + 1
<1>1. DOMAIN s = 1..Len(q) - 1 /\ \A j \in 1..Len(q) - 1 : s[j] = q[From(j)]
  BY RemovedAt
<1>2. Len(q) \in Nat /\ DOMAIN q = 1..Len(q) /\ i \in Nat
  OBVIOUS
<1> HIDE DEF s
<1>3. ASSUME NEW j \in Listeners(s, p)
      PROVE  From(j) \in Listeners(q, p) /\ From(j) # i /\ j \in Int
  <2>1. j \in 1..Len(q) - 1 /\ Waits(s[j], p)
    BY <1>1 DEF Listeners
  <2>2. From(j) \in 1..Len(q) /\ From(j) # i
    BY <1>2, <2>1
  <2>3. Waits(q[From(j)], p)
    BY <1>1, <2>1
  <2> HIDE DEF From
  <2> QED BY <1>2, <2>1, <2>2, <2>3 DEF Listeners
<1>4. \A j, k \in Int : From(j) = From(k) => j = k
  BY <1>2
<1>5. Heard(s, p) => Heard(q, p)
  <2> HIDE DEF From
  <2> QED BY <1>3 DEF Heard
<1>6. AtMostOne(q, p) => AtMostOne(s, p)
  <2> HIDE DEF From
  <2> QED BY <1>3, <1>4 DEF AtMostOne
<1>7. AtMostOne(q, p) /\ Waits(q[i], p) => ~Heard(s, p)
  <2>1. Waits(q[i], p) => i \in Listeners(q, p)
    BY <1>2 DEF Listeners
  <2> HIDE DEF From
  <2> QED BY <1>3, <2>1 DEF AtMostOne, Heard
<1>8. ASSUME ~Waits(q[i], p), Heard(q, p) PROVE Heard(s, p)
  <2>1. PICK k \in 1..Len(q) : Waits(q[k], p)
    BY <1>2, <1>8 DEF Heard, Listeners
  <2>2. k # i
    BY <1>8, <2>1
  <2>3. \E j \in 1..Len(q) - 1 : From(j) = k
    <3>1. CASE k < i
      <4>1. k \in 1..Len(q) - 1 /\ From(k) = k
        BY <1>2, <3>1
      <4> QED BY <4>1
    <3>2. CASE k > i
      <4>1. k - 1 \in 1..Len(q) - 1 /\ From(k - 1) = k
        BY <1>2, <3>2
      <4> QED BY <4>1
    <3> QED BY <1>2, <2>2, <3>1, <3>2
  <2>4. PICK j \in 1..Len(q) - 1 : From(j) = k
    BY <2>3
  <2> HIDE DEF From
  <2>5. j \in Listeners(s, p)
    BY <1>1, <2>1, <2>4 DEF Listeners
  <2> QED BY <2>5 DEF Heard
<1> QED BY <1>5, <1>6, <1>7, <1>8 DEF s

\* What async_close leaves of the listeners.
LEMMA ClosedOne ==
    ASSUME NEW S, pending \in Seq(S), NEW c, NEW p, AtMostOne(pending, p)
    PROVE  /\ AtMostOne(ClosePending(c), p)
           /\ Heard(ClosePending(c), p) => Heard(pending, p) /\ ~(c.op = "close" /\ c.pipe = p)
           /\ Heard(pending, p) /\ ~(c.op = "close" /\ c.pipe = p) => Heard(ClosePending(c), p)
<1>0. ClosePending(c) = IF c.op = "close" THEN Dropped(pending, c.pipe) ELSE pending
  BY DEF ClosePending, Dropped, RemoveFirstMatch
<1>1. CASE c.op = "close" /\ Heard(pending, c.pipe)
  <2>1. PICK i \in Listeners(pending, c.pipe) : Dropped(pending, c.pipe) = RemoveAt(pending, i)
    BY <1>1, FirstListener DEF Heard
  <2>2. i \in 1..Len(pending) /\ Waits(pending[i], c.pipe)
    BY DEF Listeners
  <2>3. Waits(pending[i], p) <=> c.pipe = p
    BY <2>2 DEF Waits
  <2>4. ClosePending(c) = RemoveAt(pending, i)
    BY <1>0, <1>1, <2>1
  <2> QED BY <1>1, <2>2, <2>3, <2>4, Removed
<1>2. CASE ~(c.op = "close" /\ Heard(pending, c.pipe))
  BY <1>0, <1>2, NoListener DEF Heard
<1> QED BY <1>1, <1>2

LEMMA InitListening == Init => Attentive
<1> SUFFICES ASSUME Init PROVE Attentive
  OBVIOUS
<1>1. /\ pending = <<>> /\ reply = <<>> /\ todo = <<Open("ctrl")>> /\ ~watch
      /\ \A p \in Pipes : stage[p] = "none"
  BY DEF Init
<1>2. "ctrl" \in Pipes /\ Open("ctrl") \in OfCtrl
  BY GoodWords DEF Pipes, OfCtrl, Open, Call
<1>3. todo \in Seq(OfCtrl) /\ pending \in Seq(OfCtrl)
  BY <1>1, <1>2
<1>4. Named
  BY <1>1, <1>3 DEF Named, OnlyCtrl
<1>5. \A p \in Pipes : Attended(p)
  BY <1>1 DEF Attended, AtMostOne, Heard, Listeners
<1>6. \A i \in DOMAIN todo : todo[i] = Open("ctrl") /\ i = 1
  BY <1>1
<1>7. Legal(Open("ctrl"))
  BY <1>1, <1>2 DEF Legal, Open, Call
<1> QED BY <1>4, <1>5, <1>6, <1>7 DEF Attentive, Listening, Separate

\* The next call is made.
LEMMA SendListens == ASSUME TInv, Attentive, SendCall PROVE Attentive'
<1> DEFINE c == Head(todo)
           q == ClosePending(c)
<1>1. /\ alive /\ up = "run" /\ todo # <<>> /\ c.op \in {"open", "read", "write", "close"}
      /\ pending' = <<c>> \o q /\ todo' = Tail(todo) /\ Staged(c)
      /\ UNCHANGED <<reply, said, watch>>
  BY DEF SendCall, Calling, server
<1>2. /\ todo \in Seq(GoodCalls) /\ c = todo[1] /\ 1 \in DOMAIN todo
      /\ DOMAIN todo \subseteq Nat
      /\ \A j \in DOMAIN Tail(todo) : j + 1 \in DOMAIN todo /\ Tail(todo)[j] = todo[j + 1]
      /\ \A i \in DOMAIN todo :
            i = 1 \/ (i - 1 \in DOMAIN Tail(todo) /\ todo[i] = Tail(todo)[i - 1])
  <2>1. todo \in Seq(GoodCalls) /\ todo # <<>>
    BY <1>1 DEF TInv
  <2>2. DOMAIN Tail(todo) = 1..Len(todo) - 1 /\ DOMAIN todo = 1..Len(todo) /\ Len(todo) \in Nat
        /\ \A j \in 1..Len(todo) - 1 : Tail(todo)[j] = todo[j + 1]
    BY <2>1
  <2>3. ASSUME NEW i \in DOMAIN todo, i # 1
        PROVE  i - 1 \in DOMAIN Tail(todo) /\ todo[i] = Tail(todo)[i - 1]
    <3>1. i - 1 \in 1..Len(todo) - 1 /\ (i - 1) + 1 = i
      BY <2>2, <2>3
    <3> QED BY <2>2, <3>1
  <2>4. ASSUME NEW j \in DOMAIN Tail(todo) PROVE j + 1 \in DOMAIN todo
    BY <2>2
  <2> QED BY <2>1, <2>2, <2>3, <2>4
<1>3. c \in GoodCalls /\ c.pipe \in Pipes
  BY <1>2 DEF GoodCalls, Calls
<1>4. Listening /\ Named
  <2>1. todo # <<Exit>>
    <3> SUFFICES ASSUME todo = <<Exit>> PROVE FALSE
      OBVIOUS
    <3>1. Head(todo) = Exit
      OBVIOUS
    <3> QED BY <1>1, <3>1 DEF Exit, Call
  <2> QED BY <1>1, <2>1 DEF Attentive
<1>5. \A p \in Pipes : stage'[p] = IF c.pipe = p /\ c.op = "open" THEN "opened"
                                   ELSE IF c.pipe = p /\ c.op = "close" THEN "closed" ELSE stage[p]
  <2>1. stage \in [Pipes -> {"none", "opened", "closed"}]
    BY DEF TInv
  <2> HIDE DEF c
  <2> QED BY <1>1, <1>3, <2>1 DEF Staged
<1>6. q \in Seq(GoodCalls)
  BY Closing DEF TInv
<1>7. ASSUME NEW p \in Pipes
      PROVE  /\ AtMostOne(pending, p)
             /\ AtMostOne(q, p)
             /\ Heard(q, p) => Heard(pending, p) /\ ~(c.op = "close" /\ c.pipe = p)
             /\ Heard(pending, p) /\ ~(c.op = "close" /\ c.pipe = p) => Heard(q, p)
  BY <1>4, ClosedOne DEF Listening, Attended, TInv
<1>8. Legal(c) /\ Waiting(c) = (c.op \in {"open", "read"})
      /\ \A p \in Pipes : Waits(c, p) <=> Waiting(c) /\ c.pipe = p
  BY <1>2, <1>4 DEF Listening, Waiting, Waits
<1>9. c.op = "close" => todo' = <<>>
  <2>1. c.op = "close" => todo = <<c>>
    BY <1>8 DEF Legal
  <2>2. Tail(<<c>>) = <<>>
    <3> HIDE DEF c
    <3> QED OBVIOUS
  <2> QED BY <1>1, <2>1, <2>2
<1> HIDE DEF c, q
<1>10. \A p \in Pipes : Heard(pending', p) <=> Waits(c, p) \/ Heard(q, p)
  BY <1>1, <1>3, <1>6, Prefixed
<1>11. ASSUME NEW p \in Pipes PROVE Attended(p)'
  <2>1. Attended(p)
    BY <1>4 DEF Listening
  <2>2. Waits(c, p) => ~Heard(pending, p)
    BY <1>8, <2>1 DEF Legal, Waits, Attended
  <2>3. AtMostOne(pending', p)
    BY <1>1, <1>3, <1>6, <1>7, <2>2, Prefixed
  <2>4. Heard(pending', p) => stage'[p] = "opened"
    <3>1. CASE Waits(c, p)
      BY <1>5, <1>8, <3>1 DEF Legal, Waits
    <3>2. CASE Heard(q, p)
      BY <1>5, <1>7, <2>1, <3>2 DEF Attended
    <3> QED BY <1>10, <3>1, <3>2
  <2>5. ASSUME stage'[p] = "opened", ~Waits(c, p), ~Heard(q, p) PROVE Heading(p)'
    <3>1. c.pipe = p => c.op # "close" /\ c.op # "open" /\ c.op # "read"
      BY <1>5, <2>5 DEF Waits
    <3>2. stage[p] = "opened" /\ ~Heard(pending, p)
      BY <1>5, <1>7, <2>5, <3>1
    <3>3. PICK i \in DOMAIN todo : todo[i].pipe = p /\ todo[i].op \in {"read", "close"}
      BY <2>1, <3>2 DEF Attended, Heading
    <3>4. i # 1
      BY <1>2, <3>1, <3>3
    <3>5. i - 1 \in DOMAIN todo' /\ todo'[i - 1] = todo[i]
      BY <1>1, <1>2, <3>4
    <3> QED BY <3>3, <3>5 DEF Heading
  <2> QED BY <1>10, <2>3, <2>4, <2>5 DEF Attended
<1>12. ASSUME NEW j \in DOMAIN todo' PROVE Legal(todo[j])'
  <2> DEFINE d == todo'[j]
  <2>1. j + 1 \in DOMAIN todo /\ d = todo[j + 1] /\ j + 1 # 1
    BY <1>1, <1>2
  <2>2. Legal(d) /\ d \in GoodCalls /\ d.pipe \in Pipes
    BY <1>2, <1>4, <2>1 DEF Listening, GoodCalls, Calls
  <2>3. Waiting(c) /\ Waiting(d) => c.pipe # d.pipe
    BY <1>2, <1>4, <2>1 DEF Listening, Separate
  <2>4. c.op # "close"
    <3>1. todo' = <<>> => j \notin DOMAIN todo'
      OBVIOUS
    <3> QED BY <1>9, <3>1
  <2>5. d.op # "close"
    <3>1. d.op = "close" => todo = <<d>>
      BY <2>2 DEF Legal
    <3>2. ASSUME todo = <<d>> PROVE FALSE
      <4>1. todo' = <<>>
        BY <1>1, <3>2
      <4> QED BY <4>1
    <3> QED BY <3>1, <3>2
  <2> HIDE DEF d
  <2>6. d.op = "open" => stage'[d.pipe] = "none"
    BY <1>5, <2>2, <2>3, <2>4 DEF Legal, Waiting
  <2>7. d.op = "read" => stage'[d.pipe] = "opened" /\ ~Heard(pending', d.pipe)
    BY <1>5, <1>7, <1>8, <1>10, <2>2, <2>3, <2>4 DEF Legal, Waiting
  <2> QED BY <2>2, <2>5, <2>6, <2>7 DEF Legal, d
<1>13. Separate(todo')
  <2> SUFFICES ASSUME NEW i \in DOMAIN todo', NEW j \in DOMAIN todo',
                      Waiting(todo'[i]) /\ Waiting(todo'[j]) /\ todo'[i].pipe = todo'[j].pipe
               PROVE  i = j
    BY DEF Separate
  <2>1. i + 1 = j + 1
    BY <1>1, <1>2, <1>4 DEF Listening, Separate
  <2>2. DOMAIN todo' \subseteq Int
    BY <1>1, <1>2
  <2> QED BY <2>1, <2>2
<1>14. Named'
  <2>1. Unnamed' <=> Unnamed
    BY <1>1 DEF Unnamed
  <2>2. ASSUME OnlyCtrl PROVE OnlyCtrl'
    <3>1. c \in OfCtrl /\ Tail(todo) \in Seq(OfCtrl)
      BY <1>1, <2>2 DEF OnlyCtrl, c
    <3>2. q \in Seq(OfCtrl)
      BY <2>2, Closing DEF OnlyCtrl, q
    <3>3. <<c>> \o q \in Seq(OfCtrl)
      BY <3>1, <3>2, ConcatProperties
    <3>4. c.pipe = "ctrl"
      BY <3>1 DEF OfCtrl
    <3> QED BY <1>1, <1>5, <2>2, <3>1, <3>3, <3>4 DEF OnlyCtrl
  <2> QED BY <1>1, <1>4, <2>1, <2>2 DEF Named
<1> QED BY <1>11, <1>12, <1>13, <1>14 DEF Attentive, Listening

LEMMA StdinListens == ASSUME TInv, Attentive, StdinEvent PROVE Attentive'
<1>1. /\ UNCHANGED <<alive, pending, up, stage, watch, reply, said>>
      /\ todo = <<>> /\ up = "run" /\ watch /\ todo' = <<Write("in", typed')>>
  BY DEF StdinEvent, Idle, WriteInput, connection, wire, server
<1> SUFFICES ASSUME alive PROVE Listening' /\ Named'
  BY <1>1 DEF Attentive
<1>2. Listening /\ Named
  BY <1>1 DEF Attentive
<1>3. \A i \in DOMAIN todo' : i = 1 /\ todo'[i].op = "write"
  BY <1>1 DEF Write, Call
<1>4. \A p \in Pipes : Attended(p)'
  <2>1. \A p \in Pipes : ~Heading(p)
    BY <1>1 DEF Heading
  <2> QED BY <1>1, <1>2, <2>1 DEF Listening, Attended
<1>5. \A i \in DOMAIN todo' : Legal(todo[i])'
  BY <1>3 DEF Legal
<1>6. Separate(todo')
  BY <1>3 DEF Separate
<1>7. Unnamed' <=> Unnamed
  BY <1>1 DEF Unnamed
<1>8. Named'
  BY <1>1, <1>2, <1>7 DEF Named, OnlyCtrl
<1> QED BY <1>4, <1>5, <1>6, <1>8 DEF Listening

\* The server replies, with a message of its own or none.
LEMMA ReplyNamed ==
    ASSUME TInv, Named, NEW c \in sent, NEW ok \in BOOLEAN, NEW m \in 0..3, Replies(c, ok, m),
           UNCHANGED <<pending, todo, stage, watch>>,
           (said' = said /\ m = 0) \/ (said' = said + 1 /\ m = said'),
           c.op = "read" /\ c.pipe = "ctrl" /\ ok => m # 0
    PROVE  Named'
<1> DEFINE r == [req |-> c, ok |-> ok, data |-> m]
           N == Len(reply) + 1
<1>1. /\ DOMAIN reply' = DOMAIN reply \cup {N} /\ N \notin DOMAIN reply
      /\ \A i \in DOMAIN reply : reply'[i] = reply[i]
      /\ reply'[N] = r
  <2>1. reply \in Seq(GoodReplies) /\ r \in GoodReplies
    BY DEF TInv, GoodReplies
  <2> HIDE DEF r
  <2> QED BY <2>1 DEF Replies, r
<1>2. r.data = m /\ (CtrlRead(r) => m \in 1..3)
  BY DEF CtrlRead
<1>3. said \in 0..3
  BY DEF TInv
<1> HIDE DEF r, N
<1>4. m = 2 => said = 1
  BY <1>3
<1>5. said' < 2 => said < 2 /\ m # 2
  BY <1>3
<1>6. Unnamed' => Unnamed
  <2> SUFFICES ASSUME Unnamed' PROVE Unnamed
    OBVIOUS
  <2>1. CASE said' < 2
    BY <1>5, <2>1 DEF Unnamed
  <2>2. CASE \E i \in DOMAIN reply' : reply'[i].data = 2
    BY <1>1, <1>2, <1>3, <1>4, <2>2 DEF Unnamed
  <2> QED BY <2>1, <2>2 DEF Unnamed
<1>7. Unnamed' => OnlyCtrl'
  BY <1>6 DEF Named, OnlyCtrl
<1>8. said' < 2 => \A i \in DOMAIN reply' : reply'[i].data # 2
  BY <1>1, <1>2, <1>5 DEF Named
<1>9. \A i, j \in DOMAIN reply' : reply'[i].data = 2 /\ reply'[j].data = 2 => i = j
  <2>1. m = 2 => \A i \in DOMAIN reply : reply[i].data # 2
    BY <1>3, <1>4 DEF Named
  <2> QED BY <1>1, <1>2, <2>1 DEF Named
<1>10. \A i \in DOMAIN reply' : CtrlRead(reply'[i]) => reply'[i].data \in 1..3
  BY <1>1, <1>2 DEF Named
<1> QED BY <1>7, <1>8, <1>9, <1>10 DEF Named

LEMMA ServerListens == ASSUME TInv, Attentive, Server PROVE Attentive'
<1>1. /\ UNCHANGED <<alive, pending, todo, up, watch, stage>> /\ todo = <<>> /\ up = "run"
  BY DEF Server, Serve, HangUp, Idle, connection, client
<1> SUFFICES ASSUME alive PROVE Listening' /\ Named'
  BY <1>1 DEF Attentive
<1>2. Listening /\ Named
  BY <1>1 DEF Attentive
<1>3. Listening'
  BY <1>1, <1>2 DEF Listening, Attended, Heading, Legal
<1>4. ASSUME NEW p \in Pipes, HangUp(p) PROVE Named'
  <2>1. UNCHANGED <<reply, said>>
    BY <1>4 DEF HangUp, wire
  <2>2. Unnamed' <=> Unnamed
    BY <2>1 DEF Unnamed
  <2> QED BY <1>1, <1>2, <2>1, <2>2 DEF Named, OnlyCtrl
<1>5. ASSUME NEW c \in sent, Serve(c) PROVE Named'
  <2>1. 0 \in 0..3 /\ TRUE \in BOOLEAN /\ FALSE \in BOOLEAN /\ IsOpen(c) \in BOOLEAN
    BY DEF IsOpen
  <2>2. CASE ServeOpen(c) \/ ServeWrite(c) \/ ServeClose(c)
    <3>1. Replies(c, IsOpen(c), 0) /\ said' = said /\ c.op # "read"
      BY <2>2 DEF ServeOpen, ServeWrite, ServeClose, server
    <3> QED BY <1>1, <1>2, <2>1, <3>1, ReplyNamed
  <2>3. CASE ReadFails(c)
    <3>1. Replies(c, FALSE, 0) /\ said' = said
      BY <2>3 DEF ReadFails, server
    <3> QED BY <1>1, <1>2, <2>1, <3>1, ReplyNamed
  <2>4. CASE ServeOutput(c)
    <3>1. Replies(c, TRUE, 0) /\ said' = said
      BY <2>4 DEF ServeOutput
    <3>2. c.pipe # "ctrl"
      BY <2>4, PipesAssumption DEF ServeOutput, Read, Call
    <3> QED BY <1>1, <1>2, <2>1, <3>1, <3>2, ReplyNamed
  <2>5. CASE ServeCtrl(c)
    <3>1. Replies(c, TRUE, said') /\ said' = said + 1 /\ said < 3
      BY <2>5 DEF ServeCtrl
    <3>2. said' \in 0..3 /\ said' # 0
      BY <3>1 DEF TInv
    <3> QED BY <1>1, <1>2, <2>1, <3>1, <3>2, ReplyNamed
  <2> QED BY <1>5, <2>2, <2>3, <2>4, <2>5 DEF Serve
<1> QED BY <1>3, <1>4, <1>5 DEF Server

\* The calls of a callback of a request for pipe p: it listens to the pipe it
\* listened to, and opens only pipes of P.
Opens(s, P) ==
    /\ s \in Seq(GoodCalls) /\ Separate(s)
    /\ \A i \in DOMAIN s : s[i].op = "open" /\ s[i].pipe \in P

LEMMA OpensBoth ==
    ASSUME NEW a, NEW b, NEW A, NEW B, Opens(a, A), Opens(b, B), A \cap B = {}
    PROVE  Opens(a \o b, A \cup B)
<1> DEFINE s == a \o b
<1>1. a \in Seq(GoodCalls) /\ b \in Seq(GoodCalls)
  BY DEF Opens
<1>2. /\ s \in Seq(GoodCalls)
      /\ DOMAIN a = 1..Len(a) /\ DOMAIN b = 1..Len(b) /\ DOMAIN s = 1..Len(a) + Len(b)
      /\ Len(a) \in Nat /\ Len(b) \in Nat
      /\ \A i \in DOMAIN s : s[i] = IF i <= Len(a) THEN a[i] ELSE b[i - Len(a)]
  BY <1>1, ConcatProperties
<1> HIDE DEF s
<1>3. \A i \in DOMAIN s : \/ i \in DOMAIN a /\ s[i] = a[i]
                          \/ i - Len(a) \in DOMAIN b /\ s[i] = b[i - Len(a)]
  BY <1>2
<1>4. \A i \in DOMAIN s : s[i].op = "open" /\ s[i].pipe \in A \cup B
  BY <1>3 DEF Opens
<1>5. Separate(s)
  <2> SUFFICES ASSUME NEW i \in DOMAIN s, NEW j \in DOMAIN s, s[i].pipe = s[j].pipe,
                      Waiting(s[i]), Waiting(s[j])
               PROVE  i = j
    BY DEF Separate
  <2>1. CASE s[i].pipe \in A
    <3>1. i \in DOMAIN a /\ s[i] = a[i] /\ j \in DOMAIN a /\ s[j] = a[j]
      BY <1>3, <2>1 DEF Opens
    <3> QED BY <3>1 DEF Opens, Separate
  <2>2. CASE s[i].pipe \notin A
    <3>1. i - Len(a) \in DOMAIN b /\ s[i] = b[i - Len(a)]
          /\ j - Len(a) \in DOMAIN b /\ s[j] = b[j - Len(a)]
      BY <1>3, <2>2 DEF Opens
    <3>2. i - Len(a) = j - Len(a)
      BY <3>1 DEF Opens, Separate
    <3> QED BY <1>2, <3>2
  <2> QED BY <2>1, <2>2
<1> QED BY <1>2, <1>4, <1>5 DEF Opens, s

LEMMA OpensData == Opens(OpenData, Pipes \ {"ctrl"})
<1>1. ASSUME NEW p \in Pipes PROVE Opens(<<Open(p)>>, {p}) /\ Opens(<<>>, {p})
  BY <1>1, GoodWords DEF Opens, Separate, Open, Call
<1>2. "in" \in Pipes /\ Outs \subseteq Pipes
  BY DEF Pipes
<1> DEFINE Data(p) == IF p \in Outs THEN <<Open(p)>> ELSE <<>>
           P(p) == IF p \in Outs THEN {p} ELSE {}
<1>3. ASSUME NEW p \in {"out", "err"} PROVE Opens(Data(p), P(p))
  <2>1. Opens(<<>>, {})
    BY DEF Opens, Separate
  <2> QED BY <1>1, <1>2, <2>1
<1>4. Opens(<<Open("in")>> \o Data("out"), {"in"} \cup P("out"))
  <2> HIDE DEF Data
  <2> QED BY <1>1, <1>2, <1>3, OpensBoth
<1>5. Opens((<<Open("in")>> \o Data("out")) \o Data("err"), ({"in"} \cup P("out")) \cup P("err"))
  <2>1. ({"in"} \cup P("out")) \cap P("err") = {}
    OBVIOUS
  <2> HIDE DEF Data, P
  <2> QED BY <1>3, <1>4, <2>1, OpensBoth
<1>6. ({"in"} \cup P("out")) \cup P("err") = Pipes \ {"ctrl"}
  BY PipesAssumption DEF Pipes
<1> HIDE DEF P
<1>7. Opens((<<Open("in")>> \o Data("out")) \o Data("err"), Pipes \ {"ctrl"})
  BY <1>5, <1>6
<1>8. OpenData = (<<Open("in")>> \o Data("out")) \o Data("err")
  BY DEF OpenData
<1> QED BY <1>7, <1>8

\* What a callback is about to call, as far as Listening asks: it opens what was
\* not open, reads from the pipe whose request it answers, and closes a pipe
\* when it does nothing else.
Proper(c, s) ==
    /\ \A i \in DOMAIN s :
          /\ s[i].op # "exit"
          /\ s[i].op = "open" => stage[s[i].pipe] = "none"
          /\ s[i].op = "read" => Waits(c, s[i].pipe)
          /\ s[i].op = "close" => s = <<s[i]>>
    /\ Waiting(c) => \E i \in DOMAIN s : s[i].pipe = c.pipe /\ s[i].op \in {"read", "close"}
    /\ Separate(s)

LEMMA CallbackProper ==
    ASSUME TInv, NEW c \in GoodCalls, NEW ok \in BOOLEAN, NEW m \in 0..3,
           c.pipe = "ctrl" /\ c.op = "read" /\ ok => m # 0,
           m = 2 => \A p \in Pipes \ {"ctrl"} : stage[p] = "none"
    PROVE  CallsAfter(c, ok, m) = <<Exit>> \/ Proper(c, CallsAfter(c, ok, m))
<1> DEFINE s == CallsAfter(c, ok, m)
<1> SUFFICES s = <<Exit>> \/ Proper(c, s)
  OBVIOUS
<1>1. CASE s = <<>> /\ ~Waiting(c)
  BY <1>1 DEF Proper, Separate
<1>2. CASE s = <<Read(c.pipe)>> /\ Waiting(c)
  <2>1. DOMAIN s = {1} /\ s[1].pipe = c.pipe /\ s[1].op = "read"
    BY <1>2 DEF Read, Call
  <2> HIDE DEF s
  <2>2. Waits(c, c.pipe)
    BY <1>2 DEF Waits, Waiting
  <2> QED BY <1>2, <2>1, <2>2 DEF Proper, Separate
<1>3. CASE s = <<Close(c.pipe, c.data)>>
  <2>1. DOMAIN s = {1} /\ s[1].pipe = c.pipe /\ s[1].op = "close" /\ s = <<s[1]>>
    BY <1>3 DEF Close, Call
  <2> HIDE DEF s
  <2> QED BY <2>1 DEF Proper, Separate
<1>4. ASSUME NEW n, s = <<Write("ctrl", n), Read("ctrl")>>, Waiting(c), c.pipe = "ctrl"
      PROVE  Proper(c, s)
  <2>1. /\ DOMAIN s = {1, 2} /\ s[1].op = "write"
        /\ s[2].pipe = c.pipe /\ s[2].op = "read"
    BY <1>4 DEF Read, Write, Call
  <2> HIDE DEF s
  <2>2. Waits(c, c.pipe)
    BY <1>4 DEF Waits, Waiting
  <2> QED BY <1>4, <2>1, <2>2 DEF Proper, Separate, Waiting
<1>5. CASE s = OpenData \o <<Read("ctrl")>> /\ m = 2 /\ Waiting(c) /\ c.pipe = "ctrl"
  <2>1. OpenData \in Seq(GoodCalls) /\ Separate(OpenData)
        /\ \A i \in DOMAIN OpenData :
              OpenData[i].op = "open" /\ OpenData[i].pipe \in Pipes \ {"ctrl"}
    BY OpensData DEF Opens
  <2>2. /\ DOMAIN s = 1..Len(OpenData) + 1 /\ DOMAIN OpenData = 1..Len(OpenData)
        /\ Len(OpenData) \in Nat
        /\ \A i \in DOMAIN OpenData : s[i] = OpenData[i]
        /\ s[Len(OpenData) + 1] = Read("ctrl")
    BY <1>5, <2>1
  <2> DEFINE N == Len(OpenData) + 1
  <2> HIDE DEF s
  <2>3. \A i \in DOMAIN s : i = N \/ i \in DOMAIN OpenData
    BY <2>2
  <2>4. N \in DOMAIN s /\ s[N].op = "read" /\ s[N].pipe = "ctrl"
    BY <2>2 DEF Read, Call
  <2> HIDE DEF N
  <2>5. Waits(c, "ctrl")
    BY <1>5 DEF Waits, Waiting
  <2>6. Separate(s)
    BY <2>1, <2>2, <2>3, <2>4 DEF Separate
  <2>7. \A i \in DOMAIN s : /\ s[i].op # "exit" /\ s[i].op # "close"
                            /\ s[i].op = "open" => stage[s[i].pipe] = "none"
                            /\ s[i].op = "read" => Waits(c, s[i].pipe)
    BY <1>5, <2>1, <2>2, <2>3, <2>4, <2>5
  <2> QED BY <1>5, <2>4, <2>6, <2>7 DEF Proper
<1>6. CASE c.pipe = "ctrl"
  <2>1. s = CtrlCalls(c.op, ok, m)
    BY <1>6 DEF CallsAfter
  <2>2. CASE ok /\ c.op = "open"
    BY <1>4, <1>6, <2>1, <2>2 DEF CtrlCalls, Waiting
  <2>3. CASE ok /\ c.op = "read"
    <3>1. m = 1 \/ m = 2 \/ m = 3
      BY <1>6, <2>3
    <3>2. Waiting(c)
      BY <2>3 DEF Waiting
    <3>3. CASE m = 1
      <4>1. s = <<Write("ctrl", 2), Read("ctrl")>>
        BY <2>1, <2>3, <3>3 DEF CtrlCalls
      <4> QED BY <1>4, <1>6, <3>2, <4>1
    <3>4. CASE m = 2
      <4>1. s = OpenData \o <<Read("ctrl")>>
        BY <2>1, <2>3, <3>4 DEF CtrlCalls
      <4> QED BY <1>5, <1>6, <3>2, <3>4, <4>1
    <3>5. CASE m = 3
      <4>1. s = <<Read(c.pipe)>>
        BY <1>6, <2>1, <2>3, <3>5 DEF CtrlCalls
      <4> QED BY <1>2, <3>2, <4>1
    <3> QED BY <3>1, <3>3, <3>4, <3>5
  <2>4. CASE ~ok
    BY <2>1, <2>4 DEF CtrlCalls
  <2>5. CASE ok /\ c.op # "open" /\ c.op # "read"
    <3>1. s = <<>> /\ ~Waiting(c)
      BY <2>1, <2>5 DEF CtrlCalls, Waiting
    <3> QED BY <1>1, <3>1
  <2> QED BY <2>2, <2>3, <2>4, <2>5
<1>7. CASE c.pipe # "ctrl"
  <2>1. s = DataCalls(c.pipe, c.op, c.data, ok)
    BY <1>7 DEF CallsAfter
  <2>2. CASE ok /\ c.op \in {"open", "read"}
    <3>1. s = <<Read(c.pipe)>> /\ Waiting(c)
      BY <2>1, <2>2 DEF DataCalls, Waiting
    <3> QED BY <1>2, <3>1
  <2>3. CASE ~ok /\ c.op # "close"
    <3>1. s = <<Close(c.pipe, c.data)>>
      BY <2>1, <2>3 DEF DataCalls
    <3> QED BY <1>3, <3>1
  <2>4. CASE ~(ok /\ c.op \in {"open", "read"}) /\ ~(~ok /\ c.op # "close")
    <3>1. s = <<>> /\ ~Waiting(c)
      BY <2>1, <2>4 DEF DataCalls, Waiting
    <3> QED BY <1>1, <3>1
  <2> QED BY <2>2, <2>3, <2>4
<1> QED BY <1>6, <1>7

\* The callback of a request for the control pipe knows no other, unless it is
\* told of them.
LEMMA CtrlCallback ==
    ASSUME NEW c \in OfCtrl, NEW ok \in BOOLEAN, NEW m \in 0..3, m # 2
    PROVE  CallsAfter(c, ok, m) \in Seq(OfCtrl)
<1>1. Read("ctrl") \in OfCtrl /\ Exit \in OfCtrl /\ \A n \in 1..2 : Write("ctrl", n) \in OfCtrl
  <2>1. "ctrl" \in Pipes
    BY DEF Pipes
  <2> QED BY <2>1, GoodWords DEF OfCtrl, Read, Exit, Write, Call
<1>2. CallsAfter(c, ok, m) = CtrlCalls(c.op, ok, m)
  BY DEF CallsAfter, OfCtrl
<1>3. /\ <<>> \in Seq(OfCtrl) /\ <<Exit>> \in Seq(OfCtrl) /\ <<Read("ctrl")>> \in Seq(OfCtrl)
      /\ \A n \in 1..2 : <<Write("ctrl", n), Read("ctrl")>> \in Seq(OfCtrl)
  BY <1>1
<1> QED BY <1>2, <1>3 DEF CtrlCalls

\* A reply is read.
LEMMA ReceiveListens == ASSUME TInv, Attentive, Receive PROVE Attentive'
<1> DEFINE r == Head(reply)
           c == r.req
           s == CallsAfter(c, r.ok, r.data)
<1>1. /\ alive /\ up = "run" /\ todo = <<>> /\ reply # <<>> /\ reply' = Tail(reply)
      /\ UNCHANGED <<stage, said>>
  BY DEF Receive, Idle, server
<1>2. Listening /\ Named
  BY <1>1 DEF Attentive
<1>3. /\ r \in GoodReplies /\ r = reply[1] /\ 1 \in DOMAIN reply /\ DOMAIN reply \subseteq Nat
      /\ \A j \in DOMAIN reply' : j + 1 \in DOMAIN reply /\ reply'[j] = reply[j + 1] /\ j + 1 # 1
      /\ \A i \in DOMAIN reply : i = 1 \/ (i - 1 \in DOMAIN reply' /\ reply[i] = reply'[i - 1])
  <2>1. reply \in Seq(GoodReplies) /\ reply # <<>>
    BY <1>1 DEF TInv
  <2>2. /\ DOMAIN reply' = 1..Len(reply) - 1 /\ DOMAIN reply = 1..Len(reply) /\ Len(reply) \in Nat
        /\ \A j \in 1..Len(reply) - 1 : reply'[j] = reply[j + 1]
    BY <1>1, <2>1
  <2>3. ASSUME NEW i \in DOMAIN reply, i # 1
        PROVE  i - 1 \in DOMAIN reply' /\ reply[i] = reply'[i - 1]
    <3>1. i - 1 \in 1..Len(reply) - 1 /\ (i - 1) + 1 = i
      BY <2>2, <2>3
    <3> QED BY <2>2, <3>1
  <2>4. ASSUME NEW j \in DOMAIN reply' PROVE j + 1 \in DOMAIN reply /\ j + 1 # 1
    BY <2>2
  <2>5. r \in GoodReplies /\ r = reply[1] /\ 1 \in DOMAIN reply
    BY <2>1
  <2> HIDE DEF r
  <2> QED BY <2>2, <2>3, <2>4, <2>5
<1>4. c \in GoodCalls /\ r.ok \in BOOLEAN /\ r.data \in 0..3
  BY <1>3 DEF GoodReplies
<1>5. IF Contains(pending, c)
      THEN pending' = RemoveFirst(pending, c) /\ Callback(c, r.ok, r.data, ioWrite, <<>>)
      ELSE UNCHANGED <<pending, todo, up, ioWrite, watch>>
  BY DEF Receive, client
<1> HIDE DEF r
<1>6. Unnamed' => Unnamed /\ r.data # 2
  BY <1>1, <1>2, <1>3 DEF Unnamed, Named
<1>7. ASSUME Unnamed' => OnlyCtrl' PROVE Named'
  <2>1. \A i, j \in DOMAIN reply' : reply'[i].data = 2 /\ reply'[j].data = 2 => i = j
    <3> SUFFICES ASSUME NEW i \in DOMAIN reply', NEW j \in DOMAIN reply',
                        reply'[i].data = 2, reply'[j].data = 2
                 PROVE  i = j
      OBVIOUS
    <3>1. i + 1 = j + 1
      BY <1>2, <1>3 DEF Named
    <3>2. DOMAIN reply' \subseteq Nat
      BY <1>1 DEF TInv
    <3> QED BY <3>1, <3>2
  <2> QED BY <1>1, <1>2, <1>3, <1>7, <2>1 DEF Named
<1>8. CASE Contains(pending, c) /\ s # <<Exit>>
  <2>1. PICK i \in 1..Len(pending) : pending[i] = c /\ pending' = RemoveAt(pending, i)
    <3>1. pending \in Seq(GoodCalls)
      BY DEF TInv
    <3> QED BY <1>5, <1>8, <3>1, FirstRequest
  <2>2. todo' = s /\ watch' = (watch \/ (r.ok /\ c = Open("in")))
    <3>1. todo' = s \o <<>> /\ watch' = (watch \/ (r.ok /\ c = Open("in")))
      BY <1>5, <1>8 DEF Callback, CallsAfter
    <3>2. s \in Seq(GoodCalls)
      BY <1>4, GoodCallback
    <3>3. s \o <<>> = s
      <4> HIDE DEF s
      <4> QED BY <3>2
    <3> QED BY <3>1, <3>3
  <2>3. Proper(c, s)
    <3>1. c.pipe = "ctrl" /\ c.op = "read" /\ r.ok => r.data # 0
      BY <1>2, <1>3 DEF Named, CtrlRead
    <3>2. r.data = 2 => \A p \in Pipes \ {"ctrl"} : stage[p] = "none"
      BY <1>2, <1>3 DEF Named, Unnamed, OnlyCtrl
    <3> QED BY <1>4, <1>8, <3>1, <3>2, CallbackProper
  <2> HIDE DEF s
  <2>4. ASSUME NEW p \in Pipes
        PROVE  /\ AtMostOne(pending', p)
               /\ Heard(pending', p) => Heard(pending, p) /\ ~Waits(c, p)
               /\ Heard(pending, p) /\ ~Waits(c, p) => Heard(pending', p)
               /\ Waits(c, p) => stage[p] = "opened"
               /\ Heard(pending', p) => stage[p] = "opened"
               /\ stage[p] = "opened" => Heard(pending, p)
    <3>1. pending \in Seq(GoodCalls)
      BY DEF TInv
    <3>2. AtMostOne(pending, p) /\ (Heard(pending, p) => stage[p] = "opened")
          /\ (stage[p] = "opened" => Heard(pending, p))
      BY <1>1, <1>2 DEF Listening, Attended, Heading
    <3>3. Waits(c, p) => Heard(pending, p)
      <4>1. Waits(c, p) => i \in Listeners(pending, p)
        BY <2>1, <3>1 DEF Listeners
      <4> QED BY <4>1 DEF Heard
    <3> QED BY <2>1, <3>1, <3>2, <3>3, Removed
  <2>5. ASSUME NEW p \in Pipes PROVE Attended(p)'
    <3>1. stage'[p] = "opened" => Heard(pending', p) \/ Heading(p)'
      <4> SUFFICES ASSUME stage'[p] = "opened", Waits(c, p) PROVE Heading(p)'
        BY <1>1, <2>4
      <4>1. Waiting(c) /\ c.pipe = p
        BY DEF Waits, Waiting
      <4> QED BY <2>2, <2>3, <4>1 DEF Proper, Heading
    <3> QED BY <1>1, <2>4, <3>1 DEF Attended
  <2>6. ASSUME NEW j \in DOMAIN todo' PROVE Legal(todo[j])'
    <3> DEFINE d == todo'[j]
    <3>1. /\ d.op # "exit" /\ (d.op = "open" => stage[d.pipe] = "none")
          /\ (d.op = "read" => Waits(c, d.pipe)) /\ (d.op = "close" => todo' = <<d>>)
      BY <2>2, <2>3 DEF Proper
    <3>2. Waits(c, d.pipe) => d.pipe \in Pipes
      BY <1>4 DEF Waits, GoodCalls, Calls
    <3> HIDE DEF d
    <3>3. d.op = "read" => stage'[d.pipe] = "opened" /\ ~Heard(pending', d.pipe)
      BY <1>1, <2>4, <3>1, <3>2
    <3> QED BY <1>1, <3>1, <3>3 DEF Legal, d
  <2>7. Listening'
    BY <2>2, <2>3, <2>5, <2>6 DEF Listening, Proper
  <2>8. Unnamed' => OnlyCtrl'
    <3> SUFFICES ASSUME Unnamed' PROVE OnlyCtrl'
      OBVIOUS
    <3>1. Unnamed /\ r.data # 2
      BY <1>6
    <3>2. OnlyCtrl
      BY <1>2, <3>1 DEF Named
    <3>3. c \in OfCtrl
      BY <2>1, <3>2 DEF OnlyCtrl
    <3>4. todo' \in Seq(OfCtrl)
      BY <1>4, <2>2, <3>1, <3>3, CtrlCallback DEF s
    <3>5. pending' \in Seq(OfCtrl)
      BY <2>1, <3>2, RemovedAt DEF OnlyCtrl
    <3>6. ~watch'
      <4>1. c # Open("in")
        BY <3>3 DEF OfCtrl, Open, Call
      <4>2. ~watch
        BY <3>2 DEF OnlyCtrl
      <4> QED BY <2>2, <4>1, <4>2
    <3> QED BY <1>1, <3>2, <3>4, <3>5, <3>6 DEF OnlyCtrl
  <2> QED BY <1>7, <2>7, <2>8 DEF Attentive
<1>9. CASE Contains(pending, c) /\ s = <<Exit>>
  <2>1. todo' = <<Exit>> \o <<>>
    BY <1>5, <1>9 DEF Callback, CallsAfter
  <2> QED BY <2>1 DEF Attentive
<1>10. CASE ~Contains(pending, c)
  <2>1. UNCHANGED <<pending, todo, watch>>
    BY <1>5, <1>10
  <2>2. Named'
    BY <1>1, <1>2, <1>6, <1>7, <2>1 DEF Named, OnlyCtrl
  <2>3. Listening'
    BY <1>1, <1>2, <2>1 DEF Listening, Attended, Heading, Legal
  <2> QED BY <2>2, <2>3 DEF Attentive
<1> QED BY <1>8, <1>9, <1>10

LEMMA AttentiveHolds == Spec => []Attentive
<1>1. TInv /\ Attentive /\ [Next]_vars => Attentive'
  <2> SUFFICES ASSUME TInv, Attentive, [Next]_vars PROVE Attentive'
    OBVIOUS
  <2>1. CASE UNCHANGED vars
    <3>1. UNCHANGED <<alive, pending, todo, up, watch, stage, reply, said>>
      BY <2>1 DEF vars, connection, client, wire, server
    <3>2. Listening => Listening'
      BY <3>1 DEF Listening, Attended, Heading, Legal
    <3>3. Named => Named'
      BY <3>1 DEF Named, Unnamed, OnlyCtrl
    <3> QED BY <3>1, <3>2, <3>3 DEF Attentive
  <2>2. CASE Exits
    BY <2>2 DEF Exits, Attentive
  <2>3. CASE SendBreaks \/ SendRefused \/ Break
    <3>1. ~alive'
      BY <2>3 DEF SendBreaks, SendRefused, Break, Dead
    <3> QED BY <3>1 DEF Attentive
  <2> QED BY <2>1, <2>2, <2>3, SendListens, StdinListens, ReceiveListens, ServerListens
          DEF Next, Perform, EventLoop
<1> QED BY <1>1, TypesHold, InitListening, PTL DEF Spec

\* The client listens, with any amount of input and output: whatever replies
\* fail and in whatever order they come, it has one request out that will tell
\* it of each pipe it has opened and not closed (async_read is called again by
\* every callback that does not close, async_close destroys what waits).
THEOREM OneListener == Spec => []Listens
<1>1. TInv /\ Attentive => Listens
  <2> SUFFICES ASSUME TInv, Attentive, Idle, alive, NEW p \in Pipes
               PROVE  Cardinality(Listeners(pending, p)) = IF stage[p] = "opened" THEN 1 ELSE 0
    BY DEF Listens
  <2>1. up = "run" /\ todo = <<>>
    BY DEF Idle
  <2>2. Listening
    BY <2>1 DEF Attentive
  <2>3. AtMostOne(pending, p) /\ (stage[p] = "opened" <=> Heard(pending, p))
    BY <2>1, <2>2 DEF Listening, Attended, Heading
  <2>4. CASE Heard(pending, p)
    <3>1. PICK i : Listeners(pending, p) = {i}
      BY <2>3, <2>4 DEF AtMostOne, Heard
    <3> QED BY <2>3, <2>4, <3>1, FS_Singleton
  <2>5. CASE ~Heard(pending, p)
    BY <2>3, <2>5, FS_EmptySet DEF Heard
  <2> QED BY <2>4, <2>5
<1> QED BY <1>1, TypesHold, AttentiveHolds, PTL
=============================================================================
