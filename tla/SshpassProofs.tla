---------------------------- MODULE SshpassProofs ----------------------------
(***************************************************************************)
(* Theorems about Sshpass, for any size of its buffer and however much the *)
(* program writes.  NeverSpins and EndIsOwn do not depend on what match()  *)
(* finds; the others take what it finds from PromptMatchProofs.            *)
(***************************************************************************)
EXTENDS Sshpass, TLAPS

\* The characters of the messages, and what match() does with them.
Chars == {"p", "w", "h", "k"}
Prompt == INSTANCE PromptMatchProofs
          WITH Ref <- compare1, MaxText <- MaxAsk, text <- tty, state <- state1

\* Types of what the exit path looks at.
LocalTypes ==
    /\ pc \in {"select", "read", "source", "wait", "block", "done"}
    /\ terminate \in {0, IncorrectPassword, HostKeyUnknown}
    /\ prevmatch \in BOOLEAN /\ slavept \in BOOLEAN /\ masterpt \in BOOLEAN
    /\ child \in {"busy", "asks", "exited", "killed", "hungup"}
    /\ status \in {-1} \cup Statuses
    /\ child = "exited" => status \in Statuses
    /\ sent \in Nat

\* The loop goes on, and both sides of the terminal stay open, until the end
\* is decided; while the password is typed they are open in any case.  Once it
\* is decided sshpass waits for the program with the terminal closed only.
OpenUntilDecided ==
    /\ pc \in {"select", "read"} => terminate = 0
    /\ terminate = 0 \/ pc = "source" => masterpt /\ slavept
    /\ terminate # 0 /\ pc # "source" => ~masterpt

\* A program hangs up only when its terminal is closed.
HungUpByUs == child = "hungup" => ~masterpt

\* The password source is asked at the first prompt only.
AskedOnce ==
    /\ pc = "source" => prevmatch /\ sent = 0
    /\ sent <= 1
    /\ sent = 1 => prevmatch

\* The code the program's end turns into.
Decided ==
    /\ pc = "done" => Ended /\ rc = ExitCode
    /\ pc # "done" => rc = -1

IInv == LocalTypes /\ OpenUntilDecided /\ HungUpByUs /\ AskedOnce /\ Decided

-----------------------------------------------------------------------------
LEMMA InitInv == Init => IInv
<1> SUFFICES ASSUME Init PROVE IInv
  OBVIOUS
<1>1. /\ pc = "select" /\ terminate = 0 /\ masterpt = TRUE /\ slavept = TRUE
      /\ prevmatch = FALSE /\ rc = -1 /\ child = "busy" /\ status = -1 /\ sent = 0
  BY DEF Init, Opened
<1>2. LocalTypes
  BY <1>1 DEF LocalTypes
<1>3. AskedOnce
  BY <1>1 DEF AskedOnce
<1>4. OpenUntilDecided /\ HungUpByUs /\ Decided
  BY <1>1 DEF OpenUntilDecided, HungUpByUs, Decided
<1> QED BY <1>2, <1>3, <1>4 DEF IInv

LEMMA SelectStep ==
    ASSUME IInv, SelectReadable \/ SelectInterrupted \/ WindowResize PROVE IInv'
BY DEF SelectReadable, SelectInterrupted, WindowResize, local, program, IInv, LocalTypes,
       OpenUntilDecided, HungUpByUs, AskedOnce, Decided, Ended, ExitCode, OwnCode

LEMMA HandleOutputStep == ASSUME IInv, HandleOutput PROVE IInv'
<1>1. /\ pc = "read" /\ terminate = 0 /\ masterpt = TRUE /\ slavept = TRUE
      /\ prevmatch \in BOOLEAN
  BY DEF HandleOutput, IInv, LocalTypes, OpenUntilDecided
<1>2. PICK prompt \in BOOLEAN, ret \in {0, IncorrectPassword, HostKeyUnknown} :
        /\ prevmatch' = (prevmatch \/ prompt)
        /\ terminate' = ret
        /\ IF prompt /\ ~Repeated(prompt)
           THEN pc' = "source" /\ UNCHANGED <<masterpt, slavept>>
           ELSE pc' = "wait" /\ Returns(ret)
  BY DEF HandleOutput
<1>3. UNCHANGED <<sigchld, rc, program, typed, sent>>
  BY DEF HandleOutput
<1>4. CASE prompt /\ ~Repeated(prompt)
  <2>1. pc' = "source" /\ UNCHANGED <<masterpt, slavept>> /\ ~prevmatch /\ prevmatch'
    BY <1>2, <1>4 DEF Repeated
  <2>2. sent = 0
    BY <2>1 DEF IInv, AskedOnce, LocalTypes
  <2> QED BY <1>1, <1>2, <1>3, <2>1, <2>2
          DEF program, IInv, LocalTypes, OpenUntilDecided, HungUpByUs, AskedOnce, Decided
<1>5. CASE ~(prompt /\ ~Repeated(prompt))
  <2>1. pc' = "wait" /\ terminate' = ret /\ Returns(ret)
    BY <1>2, <1>5
  <2>2. HangsUp(ret) <=> ret # 0
    BY DEF HangsUp, IncorrectPassword, HostKeyUnknown
  <2>3. masterpt' \in BOOLEAN /\ slavept' \in BOOLEAN /\ (ret = 0 => masterpt' /\ slavept')
    BY <1>1, <2>1, <2>2 DEF Returns
  <2>4. prevmatch' \in BOOLEAN /\ (prevmatch => prevmatch')
    BY <1>1, <1>2
  <2>5. LocalTypes'
    BY <1>3, <2>1, <2>3, <2>4 DEF program, IInv, LocalTypes
  <2>6. OpenUntilDecided'
    BY <2>1, <2>2, <2>3 DEF OpenUntilDecided, Returns
  <2>7. HungUpByUs'
    BY <1>1, <1>3 DEF program, IInv, HungUpByUs
  <2>8. AskedOnce'
    BY <1>3, <2>1, <2>4 DEF IInv, AskedOnce
  <2>9. Decided'
    BY <1>1, <1>3, <2>1 DEF IInv, Decided
  <2> QED BY <2>5, <2>6, <2>7, <2>8, <2>9 DEF IInv
<1> QED BY <1>4, <1>5

LEMMA WritePassStep == ASSUME IInv, WritePass PROVE IInv'
<1>1. /\ pc = "source" /\ pc' = "wait" /\ sent' \in {0, 1} /\ prevmatch
      /\ UNCHANGED <<terminate, prevmatch, rc, program>>
  BY DEF WritePass, IInv, AskedOnce
<1>2. (HangsUp(terminate) <=> terminate # 0) /\ masterpt = TRUE /\ slavept = TRUE
  BY <1>1 DEF HangsUp, IInv, LocalTypes, OpenUntilDecided, IncorrectPassword, HostKeyUnknown
<1>3. /\ masterpt' \in BOOLEAN /\ slavept' \in BOOLEAN
      /\ terminate = 0 => masterpt' /\ slavept'
  BY <1>2 DEF WritePass, Returns
<1>4. LocalTypes'
  BY <1>1, <1>3 DEF program, IInv, LocalTypes
<1>5. OpenUntilDecided'
  BY <1>1, <1>2, <1>3 DEF OpenUntilDecided, Returns, WritePass
<1>6. HungUpByUs'
  BY <1>1, <1>2 DEF program, IInv, HungUpByUs
<1>7. AskedOnce'
  BY <1>1 DEF AskedOnce
<1>8. Decided'
  BY <1>1 DEF IInv, Decided
<1> QED BY <1>4, <1>5, <1>6, <1>7, <1>8 DEF IInv

LEMMA WaitStep == ASSUME IInv, Wait \/ WaitBlocking PROVE IInv'
<1>1. CASE Reap /\ UNCHANGED <<local, program, sent>> /\ pc \in {"wait", "block"}
  BY <1>1 DEF Reap, local, program, IInv, LocalTypes, OpenUntilDecided, HungUpByUs,
              AskedOnce, Decided, Ended, ExitCode, OwnCode
<1>2. CASE /\ pc = "wait" /\ UNCHANGED <<local, program, sent, rc>>
           /\ pc' = IF terminate # 0 THEN "block" ELSE "select"
  BY <1>2 DEF local, program, IInv, LocalTypes, OpenUntilDecided, HungUpByUs,
              AskedOnce, Decided
<1> QED BY <1>1, <1>2 DEF Wait, WaitBlocking

LEMMA ProgramStep == ASSUME IInv, Program PROVE IInv'
<1>1. UNCHANGED <<pc, local, rc, sent>>
  BY DEF Program, AskPassword, AskHost, Chat, Says, Types, Answered, ProgramEnds, GivesUp, IsOver, HangUp
<1>2. child' \in {"busy", "asks", "exited", "killed", "hungup"}
  BY DEF Program, AskPassword, AskHost, Chat, Says, Types, Answered, ProgramEnds, GivesUp, IsOver, HangUp,
         IInv, LocalTypes
<1>3. child' = "hungup" => ~masterpt
  BY DEF Program, AskPassword, AskHost, Chat, Says, Types, Answered, ProgramEnds, GivesUp, IsOver, HangUp
<1>4. child \in {"busy", "asks"}
  BY DEF Program, AskPassword, AskHost, Chat, Says, Types, Answered, ProgramEnds, GivesUp, IsOver, HangUp
<1>5. status' \in {-1} \cup Statuses /\ (child' = "exited" => status' \in Statuses)
  BY DEF Program, AskPassword, AskHost, Chat, Says, Types, Answered, ProgramEnds, GivesUp, IsOver, HangUp,
         IInv, LocalTypes
<1> QED BY <1>1, <1>2, <1>3, <1>4, <1>5
        DEF local, IInv, LocalTypes, OpenUntilDecided, HungUpByUs, AskedOnce, Decided, Ended

LEMMA Step == IInv /\ [Next]_vars => IInv'
<1> SUFFICES ASSUME IInv, [Next]_vars PROVE IInv'
  OBVIOUS
<1>1. CASE UNCHANGED vars
  BY <1>1 DEF vars, local, program, IInv, LocalTypes, OpenUntilDecided, HungUpByUs,
              AskedOnce, Decided, Ended, ExitCode, OwnCode
<1> QED
  BY <1>1, SelectStep, HandleOutputStep, WritePassStep, WaitStep, ProgramStep
  DEF Next, runprogram

\* The inductive invariant.
THEOREM Invariant == Spec => []IInv
BY InitInv, Step, PTL DEF Spec

\* pselect() never returns for the error of a terminal that nobody has open
\* ("Comment no. 3.14159"): the loop comes back to it with the slave side open.
THEOREM NeverSpins == Spec => NeverReadsError
<1>1. IInv /\ [Next]_vars => [pc = "select" /\ pc' = "read" => tty # <<>>]_vars
  BY DEF IInv, LocalTypes, OpenUntilDecided, Next, runprogram, SelectReadable,
         SelectInterrupted, WindowResize, HandleOutput, WritePass, Wait, WaitBlocking, Reap,
         Program, AskPassword, AskHost, Chat, Says, Types, Answered, ProgramEnds, GivesUp, IsOver, HangUp
<1> QED BY <1>1, Invariant, PTL DEF Spec, NeverReadsError

\* The code is the program's own, and the program ended by itself, as long as
\* the terminal is open; it is one of sshpass once that has closed it.
OwnEnd ==
    /\ sent <= 1
    /\ rc # -1 =>
          IF masterpt
          THEN \/ child = "exited" /\ rc = status
               \/ child = "killed" /\ rc = 255
          ELSE rc = terminate /\ terminate \in {IncorrectPassword, HostKeyUnknown}

LEMMA OwnEndOfInv == IInv => OwnEnd
<1> SUFFICES ASSUME IInv PROVE OwnEnd
  OBVIOUS
<1>1. sent <= 1
  BY DEF IInv, AskedOnce
<1>2. ASSUME rc # -1 PROVE Ended /\ rc = ExitCode /\ pc = "done"
  BY <1>2 DEF IInv, Decided
<1>3. ASSUME rc # -1, masterpt
      PROVE  \/ child = "exited" /\ rc = status
             \/ child = "killed" /\ rc = 255
  BY <1>2, <1>3 DEF IInv, HungUpByUs, Ended, ExitCode, OwnCode, OpenUntilDecided, LocalTypes
<1>4. ASSUME rc # -1, ~masterpt
      PROVE  rc = terminate /\ terminate \in {IncorrectPassword, HostKeyUnknown}
  BY <1>2, <1>4 DEF IInv, OpenUntilDecided, ExitCode, LocalTypes, IncorrectPassword,
                    HostKeyUnknown
<1> QED BY <1>1, <1>3, <1>4 DEF OwnEnd

\* The password is typed at most once, and the exit code is the program's own
\* status, or 255 for a signal, exactly as long as sshpass did not close its
\* terminal, whatever status that is and whatever match() found.
THEOREM EndIsOwn == Spec => []OwnEnd
BY OwnEndOfInv, Invariant, PTL

-----------------------------------------------------------------------------
(* What match() finds was asked.                                           *)

\* What the program has still to write: a message or the rest of one.
Lines == {compare1, compare2, Chatter, <<"w">>, <<"k">>, <<"h">>, <<>>}
MessageTypes ==
    /\ line \in Lines /\ tty \in Seq(Chars)
    /\ asked \in Nat /\ hosts \in Nat /\ typed \in Nat /\ sent \in Nat
    /\ sigchld \in BOOLEAN
    /\ state1 \in 0..Len(compare1) /\ state2 \in 0..Len(compare2)

\* The program asks anew only after an answer, and every answer was typed.
AnswersSent ==
    /\ typed <= sent
    /\ asked + hosts + typed <= sent + 1
    /\ child = "busy" => asked + hosts + typed <= sent

\* The last characters of the two prompts: where they are is where a prompt
\* may be found.
InTty(c) == \E i \in DOMAIN tty : tty[i] = c
InLine(c) == \E i \in DOMAIN line : line[i] = c
PasswordMarks ==
    /\ asked = 0 => ~InTty("w") /\ ~InLine("w") /\ ~prevmatch
    /\ asked = 1 =>
          /\ prevmatch => ~InTty("w") /\ ~InLine("w")
          /\ InLine("w") => ~InTty("w")
          /\ \A i, j \in DOMAIN tty : tty[i] = "w" /\ tty[j] = "w" => i = j
HostMarks == hosts = 0 => ~InTty("k") /\ ~InLine("k")

\* Reading goes on until a second prompt for the password, or one for the host,
\* is found.
Judged ==
    /\ terminate = 0 => state1 # Len(compare1) /\ state2 # Len(compare2)
    /\ terminate = IncorrectPassword => asked >= 2
    /\ terminate = HostKeyUnknown => hosts >= 1

Dialogue == MessageTypes /\ AnswersSent /\ PasswordMarks /\ HostMarks /\ Judged

LEMMA Marks ==
    /\ compare1 = <<"p", "w">> /\ compare2 = <<"h", "k">> /\ Chatter = <<"p", "h">>
    /\ Len(compare1) = 2 /\ Len(compare2) = 2
    /\ compare1[2] = "w" /\ compare2[2] = "k"
BY DEF compare1, compare2, Chatter

\* A prompt is found in a buffer only with its last character.
LEMMA MatchFinds ==
    ASSUME NEW ref \in {compare1, compare2}, NEW buffer \in Seq(Chars), NEW q \in 0..2
    PROVE  /\ Match(ref, buffer, q) \in 0..2
           /\ Match(ref, buffer, q) = 2 /\ q # 2 => \E i \in DOMAIN buffer : buffer[i] = ref[2]
<1>1. Prompt!PromptAssumption
  BY SshpassAssumption DEF Prompt!PromptAssumption, Chars, compare1
<1>2. Match(ref, buffer, q) = Prompt!Match(ref, buffer, q)
  BY DEF Match, Prompt!Match, FoldLeft, Prompt!FoldLeft, MapThenFoldSet,
         Prompt!MapThenFoldSet, Max, Prompt!Max, Advance, Prompt!Advance
<1>3. /\ Len(ref) = 2 /\ Len(ref) \in Nat \ {0} /\ q \in 0..Len(ref)
      /\ Len(buffer) \in Nat /\ DOMAIN buffer = 1..Len(buffer)
  BY Marks
<1>4. /\ Prompt!Match(ref, buffer, q) \in 0..Len(ref)
      /\ Prompt!Match(ref, buffer, q) = Len(ref) /\ q # Len(ref) =>
            \E k \in 1..Len(buffer) : buffer[k] = ref[Len(ref)]
  BY <1>1, <1>3, Prompt!LastWritten
<1> QED BY <1>2, <1>3, <1>4

LEMMA InitDialogue == Init => Dialogue
<1> SUFFICES ASSUME Init PROVE Dialogue
  OBVIOUS
<1>1. /\ line = <<>> /\ tty = <<>> /\ asked = 0 /\ hosts = 0 /\ typed = 0 /\ sent = 0
      /\ sigchld = FALSE /\ state1 = 0 /\ state2 = 0 /\ terminate = 0 /\ prevmatch = FALSE
  BY DEF Init, Opened
<1>2. MessageTypes /\ AnswersSent
  <2>1. line \in Lines /\ tty \in Seq(Chars)
    BY <1>1 DEF Lines
  <2>2. sigchld \in BOOLEAN
    BY <1>1
  <2>3. state1 \in 0..Len(compare1) /\ state2 \in 0..Len(compare2)
    BY <1>1, Marks
  <2>4. MessageTypes
    BY <1>1, <2>1, <2>2, <2>3 DEF MessageTypes
  <2>5. AnswersSent
    BY <1>1 DEF AnswersSent
  <2> QED BY <2>4, <2>5
<1>3. PasswordMarks /\ HostMarks
  BY <1>1 DEF PasswordMarks, HostMarks, InTty, InLine
<1>4. Judged
  BY <1>1, Marks DEF Judged, IncorrectPassword, HostKeyUnknown
<1> QED BY <1>2, <1>3, <1>4 DEF Dialogue

\* A step that leaves the messages, the answers and what was found alone.
LEMMA QuietStep ==
    ASSUME Dialogue, UNCHANGED <<line, tty, asked, hosts, typed, sent, prevmatch, state1, state2,
                                 terminate>>,
           sigchld' \in BOOLEAN, child' = "busy" => child = "busy"
    PROVE  Dialogue'
BY DEF Dialogue, MessageTypes, AnswersSent, PasswordMarks, HostMarks, InTty, InLine, Judged

LEMMA HandleOutputDialogue == ASSUME IInv, Dialogue, HandleOutput PROVE Dialogue'
<1>1. /\ pc = "read" /\ terminate = 0 /\ state1 \in 0..2 /\ state2 \in 0..2
      /\ state1 # 2 /\ state2 # 2 /\ tty \in Seq(Chars) /\ prevmatch \in BOOLEAN
  BY Marks DEF HandleOutput, IInv, LocalTypes, OpenUntilDecided, Dialogue, Judged, MessageTypes
<1>2. UNCHANGED <<sigchld, child, line, asked, hosts, typed, sent>>
  BY DEF HandleOutput, program
<1>3. PICK n, m1, m2 :
        /\ n \in 1..Len(tty)
        /\ m1 = Match(compare1, SubSeq(tty, 1, n), state1)
        /\ m2 = Match(compare2, SubSeq(tty, 1, n), state2)
        /\ state1' = IF m1 = 2 /\ ~Repeated(m1 = 2) THEN 0 ELSE m1
        /\ state2' = IF Repeated(m1 = 2) THEN state2 ELSE m2
        /\ prevmatch' = (prevmatch \/ m1 = 2)
        /\ terminate' = IF Repeated(m1 = 2) THEN IncorrectPassword
                        ELSE IF m2 = 2 THEN HostKeyUnknown ELSE 0
        /\ tty' = SubSeq(tty, n + 1, Len(tty))
  BY Marks DEF HandleOutput
<1>4. /\ SubSeq(tty, 1, n) \in Seq(Chars)
      /\ \A i \in DOMAIN SubSeq(tty, 1, n) : i \in 1..n /\ SubSeq(tty, 1, n)[i] = tty[i]
  BY <1>1, <1>3
<1>5. /\ tty' \in Seq(Chars)
      /\ \A i \in DOMAIN tty' : n + i \in DOMAIN tty /\ tty'[i] = tty[n + i]
      /\ DOMAIN tty' \subseteq Nat \ {0}
  BY <1>1, <1>3
<1>6. /\ m1 \in 0..2 /\ m2 \in 0..2
      /\ m1 = 2 => \E i \in 1..n : tty[i] = "w"
      /\ m2 = 2 => \E i \in 1..n : tty[i] = "k"
  <2> DEFINE b == SubSeq(tty, 1, n)
  <2>1. /\ m1 \in 0..2
        /\ m1 = 2 => \E i \in DOMAIN b : b[i] = compare1[2]
    BY <1>1, <1>3, <1>4, MatchFinds
  <2>2. /\ m2 \in 0..2
        /\ m2 = 2 => \E i \in DOMAIN b : b[i] = compare2[2]
    BY <1>1, <1>3, <1>4, MatchFinds
  <2>3. \A i \in DOMAIN b : i \in 1..n /\ b[i] = tty[i]
    BY <1>4
  <2> HIDE DEF b
  <2> QED BY <2>1, <2>2, <2>3, Marks
<1>7. 1..n \subseteq DOMAIN tty
  BY <1>1, <1>3
<1>8. \A c : InTty(c)' => InTty(c)
  BY <1>5 DEF InTty
<1>9. MessageTypes'
  BY <1>1, <1>2, <1>3, <1>5, <1>6, Marks DEF Dialogue, MessageTypes
<1>10. AnswersSent'
  BY <1>2 DEF Dialogue, AnswersSent
<1>11. HostMarks' /\ (m2 = 2 => hosts >= 1)
  <2>1. HostMarks'
    BY <1>2, <1>8 DEF Dialogue, HostMarks, InLine
  <2>2. m2 = 2 => InTty("k")
    BY <1>6, <1>7 DEF InTty
  <2> QED BY <2>1, <2>2 DEF Dialogue, HostMarks, MessageTypes
<1>12. m1 = 2 => InTty("w")
  BY <1>6, <1>7 DEF InTty
<1>13. Repeated(m1 = 2) => asked >= 2
  <2>1. ASSUME m1 = 2, prevmatch PROVE asked # 0 /\ asked # 1
    BY <1>12, <2>1 DEF Dialogue, PasswordMarks
  <2> QED BY <2>1 DEF Repeated, Dialogue, MessageTypes
<1>14. PasswordMarks'
  <2>1. (asked = 0 => ~InTty("w") /\ ~InLine("w") /\ ~prevmatch)'
    <3> SUFFICES ASSUME asked = 0 PROVE ~InTty("w")' /\ ~InLine("w")' /\ ~prevmatch'
      BY <1>2
    <3>1. ~InTty("w") /\ ~InLine("w") /\ ~prevmatch
      BY DEF Dialogue, PasswordMarks
    <3> QED BY <3>1, <1>2, <1>3, <1>8, <1>12 DEF InLine
  <2>2. ASSUME asked = 1
        PROVE  /\ prevmatch' => ~InTty("w")' /\ ~InLine("w")'
               /\ InLine("w")' => ~InTty("w")'
               /\ \A i, j \in DOMAIN tty' : tty'[i] = "w" /\ tty'[j] = "w" => i = j
    <3>1. /\ prevmatch => ~InTty("w") /\ ~InLine("w")
          /\ InLine("w") => ~InTty("w")
          /\ \A i, j \in DOMAIN tty : tty[i] = "w" /\ tty[j] = "w" => i = j
      BY <2>2 DEF Dialogue, PasswordMarks
    <3>2. InLine("w")' <=> InLine("w")
      BY <1>2 DEF InLine
    <3>3. ASSUME m1 = 2 PROVE ~InTty("w")' /\ ~InLine("w")'
      <4>1. PICK k \in 1..n : tty[k] = "w"
        BY <1>6, <3>3
      <4>2. ASSUME NEW i \in DOMAIN tty', tty'[i] = "w" PROVE FALSE
        <5>1. n + i \in DOMAIN tty /\ tty[n + i] = "w" /\ i \in Nat \ {0}
          BY <1>5, <4>2
        <5>2. n + i = k
          BY <1>7, <3>1, <4>1, <5>1
        <5> QED BY <1>3, <4>1, <5>1, <5>2
      <4> QED BY <1>12, <3>1, <3>2, <3>3, <4>2 DEF InTty
    <3>4. \A i, j \in DOMAIN tty' : tty'[i] = "w" /\ tty'[j] = "w" => i = j
      <4> SUFFICES ASSUME NEW i \in DOMAIN tty', NEW j \in DOMAIN tty',
                          tty'[i] = "w", tty'[j] = "w"
                   PROVE  i = j
        OBVIOUS
      <4>1. n + i = n + j /\ i \in Nat /\ j \in Nat
        BY <1>5, <3>1
      <4> QED BY <1>3, <4>1
    <3>5. prevmatch' => prevmatch \/ m1 = 2
      BY <1>3
    <3> QED BY <1>8, <3>1, <3>2, <3>3, <3>4, <3>5
  <2> QED BY <1>2, <2>1, <2>2 DEF PasswordMarks
<1>15. Judged'
  <2>1. terminate' = 0 => state1' # 2 /\ state2' # 2
    BY <1>1, <1>3 DEF Repeated, IncorrectPassword, HostKeyUnknown
  <2>2. terminate' = IncorrectPassword => asked' >= 2
    BY <1>2, <1>3, <1>13 DEF IncorrectPassword, HostKeyUnknown
  <2>3. terminate' = HostKeyUnknown => hosts' >= 1
    BY <1>2, <1>3, <1>11 DEF IncorrectPassword, HostKeyUnknown
  <2> QED BY <2>1, <2>2, <2>3, Marks DEF Judged
<1> QED BY <1>9, <1>10, <1>11, <1>14, <1>15 DEF Dialogue

LEMMA WritePassDialogue == ASSUME IInv, Dialogue, WritePass PROVE Dialogue'
<1>1. PICK k \in {0, 1} : typed' = typed + k /\ sent' = sent + k
  BY DEF WritePass
<1>2. UNCHANGED <<terminate, prevmatch, state1, state2, sigchld, program, tty>>
  BY DEF WritePass
<1>3. AnswersSent'
  BY <1>1, <1>2 DEF program, IInv, LocalTypes, Dialogue, MessageTypes, AnswersSent
<1>4. MessageTypes'
  BY <1>1, <1>2 DEF program, Dialogue, MessageTypes
<1>5. PasswordMarks' /\ HostMarks' /\ Judged'
  BY <1>2 DEF program, Dialogue, PasswordMarks, HostMarks, InTty, InLine, Judged
<1> QED BY <1>3, <1>4, <1>5 DEF Dialogue

\* The marks in a new message.
LEMMA SaysDialogue ==
    ASSUME Dialogue, AskPassword \/ AskHost \/ Chat PROVE Dialogue'
<1>1. /\ child = "busy" /\ line = <<>>
      /\ UNCHANGED <<terminate, prevmatch, state1, state2, sigchld, tty, typed, sent>>
  BY DEF AskPassword, AskHost, Chat, Says, local
<1>2. ~InLine("w") /\ ~InLine("k")
  BY <1>1 DEF InLine
<1>3. \A c : InTty(c)' <=> InTty(c)
  BY <1>1 DEF InTty
<1>4. CASE AskPassword
  <2>1. line' = compare1 /\ child' = "asks" /\ asked' = asked + 1 /\ UNCHANGED hosts
    BY <1>4 DEF AskPassword, Says
  <2>2. ~InLine("k")'
    BY <2>1, Marks DEF InLine
  <2>3. MessageTypes' /\ AnswersSent'
    <3>1. line' \in Lines
      BY <2>1 DEF Lines
    <3>2. MessageTypes'
      BY <1>1, <2>1, <3>1 DEF Dialogue, MessageTypes
    <3>3. AnswersSent'
      BY <1>1, <2>1 DEF Dialogue, MessageTypes, AnswersSent
    <3> QED BY <3>2, <3>3
  <2>4. PasswordMarks'
    <3>1. asked' # 0 /\ (asked' = 1 => asked = 0)
      BY <2>1 DEF Dialogue, MessageTypes
    <3>2. asked = 0 => ~InTty("w") /\ ~prevmatch
      BY DEF Dialogue, PasswordMarks
    <3>3. asked = 0 => \A i, j \in DOMAIN tty' : tty'[i] = "w" /\ tty'[j] = "w" => i = j
      BY <1>1, <3>2 DEF InTty
    <3> QED BY <1>1, <1>3, <3>1, <3>2, <3>3 DEF PasswordMarks
  <2>5. HostMarks' /\ Judged'
    BY <1>1, <1>3, <2>1, <2>2 DEF Dialogue, HostMarks, Judged, MessageTypes
  <2> QED BY <2>3, <2>4, <2>5 DEF Dialogue
<1>5. CASE AskHost
  <2>1. line' = compare2 /\ child' = "asks" /\ hosts' = hosts + 1 /\ UNCHANGED asked
    BY <1>5 DEF AskHost, Says
  <2>2. ~InLine("w")'
    BY <2>1, Marks DEF InLine
  <2>3. MessageTypes' /\ AnswersSent'
    <3>1. line' \in Lines
      BY <2>1 DEF Lines
    <3>2. MessageTypes'
      BY <1>1, <2>1, <3>1 DEF Dialogue, MessageTypes
    <3>3. AnswersSent'
      BY <1>1, <2>1 DEF Dialogue, MessageTypes, AnswersSent
    <3> QED BY <3>2, <3>3
  <2>4. PasswordMarks'
    BY <1>1, <1>3, <2>1, <2>2 DEF Dialogue, PasswordMarks
  <2>5. HostMarks' /\ Judged'
    BY <1>1, <2>1 DEF Dialogue, HostMarks, Judged, MessageTypes
  <2> QED BY <2>3, <2>4, <2>5 DEF Dialogue
<1>6. CASE Chat
  <2>1. line' = Chatter /\ child' = "busy" /\ UNCHANGED <<asked, hosts>>
    BY <1>6 DEF Chat, Says
  <2>2. ~InLine("w")' /\ ~InLine("k")'
    BY <2>1, Marks DEF InLine
  <2>3. MessageTypes' /\ AnswersSent'
    BY <1>1, <2>1 DEF Dialogue, MessageTypes, AnswersSent, Lines
  <2>4. PasswordMarks' /\ HostMarks' /\ Judged'
    BY <1>1, <1>3, <2>1, <2>2 DEF Dialogue, PasswordMarks, HostMarks, Judged
  <2> QED BY <2>3, <2>4 DEF Dialogue
<1> QED BY <1>4, <1>5, <1>6

LEMMA TypesDialogue == ASSUME Dialogue, Types PROVE Dialogue'
<1>1. /\ line # <<>> /\ tty' = Append(tty, Head(line)) /\ line' = Tail(line)
      /\ UNCHANGED <<terminate, prevmatch, state1, state2, sigchld, child, asked, hosts,
                     typed, sent>>
  BY DEF Types, local
<1>2. /\ Head(line) \in Chars /\ Tail(line) \in Lines
      /\ \A c \in Chars :
            InLine(c) <=> Head(line) = c \/ \E i \in DOMAIN Tail(line) : Tail(line)[i] = c
      /\ Head(line) = "w" => Tail(line) = <<>>
  <2>1. line \in {compare1, compare2, Chatter, <<"w">>, <<"k">>, <<"h">>}
    BY <1>1 DEF Dialogue, MessageTypes, Lines
  <2>0. {<<"w">>, <<"k">>, <<"h">>, <<>>} \subseteq Lines
    BY DEF Lines
  <2>2. CASE line = <<"p", "w">>
    <3>1. Head(line) = "p" /\ Tail(line) = <<"w">>
      BY <2>2
    <3> QED BY <2>0, <2>2, <3>1 DEF Chars, InLine
  <2>3. CASE line = <<"h", "k">>
    <3>1. Head(line) = "h" /\ Tail(line) = <<"k">>
      BY <2>3
    <3> QED BY <2>0, <2>3, <3>1 DEF Chars, InLine
  <2>4. CASE line = <<"p", "h">>
    <3>1. Head(line) = "p" /\ Tail(line) = <<"h">>
      BY <2>4
    <3> QED BY <2>0, <2>4, <3>1 DEF Chars, InLine
  <2>5. ASSUME NEW m \in {"w", "k", "h"}, line = <<m>>
        PROVE  /\ Head(line) \in Chars /\ Tail(line) \in Lines
               /\ \A c \in Chars :
                     InLine(c) <=> Head(line) = c \/ \E i \in DOMAIN Tail(line) : Tail(line)[i] = c
               /\ Head(line) = "w" => Tail(line) = <<>>
    <3>1. Head(line) = m /\ Tail(line) = <<>>
      BY <2>5
    <3> QED BY <2>0, <2>5, <3>1 DEF Chars, InLine
  <2> QED BY <2>1, <2>2, <2>3, <2>4, <2>5, Marks
<1>3. /\ tty \in Seq(Chars) /\ tty' \in Seq(Chars)
      /\ DOMAIN tty' = DOMAIN tty \cup {Len(tty) + 1}
      /\ Len(tty) + 1 \notin DOMAIN tty
      /\ \A i \in DOMAIN tty : tty'[i] = tty[i]
      /\ tty'[Len(tty) + 1] = Head(line)
  BY <1>1, <1>2 DEF Dialogue, MessageTypes
<1>4. \A c : InTty(c)' <=> InTty(c) \/ Head(line) = c
  BY <1>3 DEF InTty
<1>5. \A c \in {"w", "k"} : InLine(c) <=> Head(line) = c \/ InLine(c)'
  BY <1>1, <1>2 DEF Chars, InLine
<1>6. MessageTypes' /\ AnswersSent'
  BY <1>1, <1>2, <1>3 DEF Dialogue, MessageTypes, AnswersSent
<1>7. HostMarks' /\ Judged'
  BY <1>1, <1>4, <1>5 DEF Dialogue, HostMarks, Judged
<1>8. Head(line) = "w" => ~InLine("w")'
  BY <1>1, <1>2 DEF InLine
<1>9. PasswordMarks'
  <2>1. (asked = 0 => ~InTty("w") /\ ~InLine("w") /\ ~prevmatch)'
    BY <1>1, <1>4, <1>5 DEF Dialogue, PasswordMarks
  <2>2. ASSUME asked = 1
        PROVE  /\ prevmatch' => ~InTty("w")' /\ ~InLine("w")'
               /\ InLine("w")' => ~InTty("w")'
               /\ \A i, j \in DOMAIN tty' : tty'[i] = "w" /\ tty'[j] = "w" => i = j
    <3>1. /\ prevmatch => ~InTty("w") /\ ~InLine("w")
          /\ InLine("w") => ~InTty("w")
          /\ \A i, j \in DOMAIN tty : tty[i] = "w" /\ tty[j] = "w" => i = j
      BY <2>2 DEF Dialogue, PasswordMarks
    <3>2. prevmatch' => ~InTty("w")' /\ ~InLine("w")'
      BY <1>1, <1>4, <1>5, <3>1
    <3>3. InLine("w")' => ~InTty("w")'
      BY <1>4, <1>5, <1>8, <3>1
    <3>4. CASE Head(line) = "w"
      <4>1. ~InTty("w")
        BY <1>5, <3>1, <3>4
      <4> QED BY <1>3, <3>2, <3>3, <4>1 DEF InTty
    <3>5. CASE Head(line) # "w"
      BY <1>3, <3>1, <3>2, <3>3, <3>5
    <3> QED BY <3>4, <3>5
  <2> QED BY <1>1, <2>1, <2>2 DEF PasswordMarks
<1> QED BY <1>6, <1>7, <1>9 DEF Dialogue

LEMMA DialogueStep == IInv /\ Dialogue /\ [Next]_vars => Dialogue'
<1> SUFFICES ASSUME IInv, Dialogue, [Next]_vars PROVE Dialogue'
  OBVIOUS
<1>1. CASE SelectReadable \/ SelectInterrupted \/ WindowResize
  BY <1>1, QuietStep DEF SelectReadable, SelectInterrupted, WindowResize, local, program,
                         Dialogue, MessageTypes
<1>2. CASE Wait \/ WaitBlocking
  BY <1>2, QuietStep DEF Wait, WaitBlocking, local, program, Dialogue, MessageTypes
<1>3. CASE Answered
  <2>1. /\ typed' = typed - 1 /\ typed > 0 /\ child = "asks" /\ child' = "busy"
        /\ UNCHANGED <<terminate, prevmatch, state1, state2, sigchld, line, asked, hosts,
                       tty, sent>>
    BY <1>3 DEF Answered, local
  <2>2. MessageTypes' /\ AnswersSent'
    BY <2>1 DEF IInv, LocalTypes, Dialogue, MessageTypes, AnswersSent
  <2>3. PasswordMarks' /\ HostMarks' /\ Judged'
    BY <2>1 DEF Dialogue, PasswordMarks, HostMarks, InTty, InLine, Judged
  <2> QED BY <2>2, <2>3 DEF Dialogue
<1>4. CASE ProgramEnds \/ GivesUp \/ HangUp
  <2>1. /\ UNCHANGED <<line, tty, asked, hosts, typed, sent, prevmatch, state1, state2,
                       terminate>>
        /\ sigchld' = TRUE /\ child' # "busy"
    BY <1>4 DEF ProgramEnds, GivesUp, IsOver, HangUp, local
  <2> QED BY <2>1, QuietStep
<1>5. CASE UNCHANGED vars
  BY <1>5, QuietStep DEF vars, local, program, Dialogue, MessageTypes
<1> QED
  BY <1>1, <1>2, <1>3, <1>4, <1>5, HandleOutputDialogue, WritePassDialogue, SaysDialogue,
     TypesDialogue
  DEF Next, runprogram, Program

LEMMA DialogueHolds == Spec => []Dialogue
BY InitDialogue, DialogueStep, Invariant, PTL DEF Spec

\* Types of the variables.
THEOREM TypeCorrect == Spec => []TypeOK
<1>1. IInv /\ Dialogue => TypeOK
  <2> SUFFICES ASSUME IInv, Dialogue PROVE TypeOK
    OBVIOUS
  <2>1. typed \in 0..1 /\ sent \in 0..1
    BY DEF IInv, LocalTypes, AskedOnce, Dialogue, MessageTypes, AnswersSent
  <2>2. rc \in {-1, IncorrectPassword, HostKeyUnknown, 255} \cup Statuses
    BY DEF IInv, LocalTypes, Decided, ExitCode, OwnCode, Ended, HungUpByUs, OpenUntilDecided
  <2> QED BY <2>1, <2>2 DEF IInv, LocalTypes, Dialogue, MessageTypes, TypeOK
<1> QED BY <1>1, Invariant, DialogueHolds, PTL

\* The password is typed at most once, and only after the program has asked for
\* it, however much else it writes and however the terminal cuts that.
THEOREM OnlyWhenAsked == Spec => []PasswordForPrompt
<1>1. IInv /\ Dialogue => PasswordForPrompt
  <2> SUFFICES ASSUME IInv, Dialogue PROVE PasswordForPrompt
    OBVIOUS
  <2>1. sent \in Nat /\ sent <= 1 /\ (sent = 1 => prevmatch)
    BY DEF IInv, LocalTypes, AskedOnce
  <2>2. asked \in Nat /\ (prevmatch => asked # 0)
    BY DEF Dialogue, MessageTypes, PasswordMarks
  <2> QED BY <2>1, <2>2 DEF PasswordForPrompt
<1> QED BY <1>1, Invariant, DialogueHolds, PTL

\* The exit code is true: it is the program's own while the terminal is open,
\* and sshpass reports a wrong password only of a program that asked twice and
\* got one, an unknown host only of one that asked about it.
THEOREM ToldTheTruth == Spec => []CodeIsTrue
<1>1. IInv /\ Dialogue => CodeIsTrue
  <2> SUFFICES ASSUME IInv, Dialogue PROVE CodeIsTrue
    OBVIOUS
  <2>1. OwnEnd
    BY OwnEndOfInv
  <2>2. terminate = IncorrectPassword => asked >= 2 /\ sent = 1
    BY DEF Dialogue, Judged, MessageTypes, AnswersSent, IInv, LocalTypes, AskedOnce
  <2>3. terminate = HostKeyUnknown => hosts >= 1
    BY DEF Dialogue, Judged
  <2> QED BY <2>1, <2>2, <2>3 DEF OwnEnd, CodeIsTrue
<1> QED BY <1>1, Invariant, DialogueHolds, PTL
=============================================================================
