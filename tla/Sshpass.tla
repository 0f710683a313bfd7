------------------------------ MODULE Sshpass ------------------------------
(***************************************************************************)
(* sshpass (sshpass-1.06/main.c) and the program it runs on a pseudo       *)
(* terminal.  The program, ssh as a rule, writes to its terminal, asks for *)
(* the password or whether it may trust a host, reads answers and ends.    *)
(* The terminal may deliver a message in pieces.                           *)
(*                                                                         *)
(* The prompts are scaled down to two characters each; Chatter is what     *)
(* else the program writes to the terminal.  A program whose terminal      *)
(* hangs up ends.  The password source, a descriptor or a file, may not    *)
(* answer for ever, or not be there; the terminal takes what is written.   *)
(***************************************************************************)
EXTENDS PromptText

CONSTANTS
    BufSize,    \* characters one read takes at most
    Statuses,   \* exit statuses the program may end with
    MaxAsk,     \* bound: how often the program asks
    MaxChatter  \* bound: other messages of the program

compare1 == <<"p", "w">>
compare2 == <<"h", "k">>
Chatter == <<"p", "h">>

IncorrectPassword == 5
HostKeyUnknown == 6

ASSUME SshpassAssumption ==
    /\ BufSize \in Nat \ {0}
    /\ Statuses \subseteq 0..255
    /\ MaxAsk \in Nat
    /\ MaxChatter \in Nat

VARIABLES
    pc,         \* "select", "read", "source" (write_pass), "wait" (WNOHANG),
                \* "block" (waitpid) or "done"
    terminate,  \* local of runprogram()
    prevmatch,  \* statics of handleoutput()
    state1,
    state2,
    slavept,    \* sshpass holds the slave side open
    masterpt,   \* the master side is open
    sigchld,    \* SIGCHLD is pending; it is blocked but in pselect()
    rc,         \* exit code of sshpass, -1 before
    child,      \* the program: "busy", "asks", or how it is over: "exited" by
                \* itself, "killed" by a signal, or "hungup" with its terminal
    status,     \* WEXITSTATUS of the program, -1 unless it exited
    line,       \* what the program has still to write of its message
    tty,        \* characters the master side can read
    typed,      \* passwords in the terminal the program has not read
    sent,       \* passwords sshpass wrote
    asked,      \* messages that asked for the password
    hosts,      \* messages that asked to trust the host
    chatted     \* other messages

local == <<terminate, prevmatch, state1, state2, slavept, masterpt>>
program == <<child, status, line, asked, hosts, chatted>>
vars == <<pc, local, sigchld, rc, program, tty, typed, sent>>

\* MUTANT of Opened: sshpass does not keep the slave side open.
OpenedAndClosed ==
    /\ pc = "select"
    /\ terminate = 0
    /\ masterpt = TRUE
    /\ slavept = FALSE

\* runprogram() up to its loop.  The program has closed its slave side again,
\* sshpass keeps its own.
Opened ==
    /\ pc = "select"
    /\ terminate = 0
    /\ masterpt = TRUE
    /\ slavept = TRUE

Init ==
    /\ Opened
    /\ prevmatch = FALSE
    /\ state1 = 0 /\ state2 = 0
    /\ sigchld = FALSE
    /\ rc = -1
    /\ child = "busy" /\ status = -1
    /\ line = <<>> /\ tty = <<>>
    /\ typed = 0 /\ sent = 0 /\ asked = 0 /\ hosts = 0 /\ chatted = 0

-----------------------------------------------------------------------------
(* runprogram()                                                            *)

\* pselect() finds the master readable, or in error as no slave side is open.
SelectReadable ==
    /\ pc = "select"
    /\ tty # <<>> \/ ~slavept
    /\ pc' = "read"
    /\ UNCHANGED <<local, sigchld, rc, program, tty, typed, sent>>

\* MUTANT of SelectInterrupted: SIGCHLD stays blocked in pselect() too.
SelectBlocksChld == FALSE

\* pselect() lets SIGCHLD in and returns with EINTR.
SelectInterrupted ==
    /\ pc = "select"
    /\ sigchld
    /\ sigchld' = FALSE
    /\ pc' = "wait"
    /\ UNCHANGED <<local, rc, program, tty, typed, sent>>

\* A change of the window's size interrupts pselect() as well.
WindowResize ==
    /\ pc = "select"
    /\ pc' = "wait"
    /\ UNCHANGED <<local, sigchld, rc, program, tty, typed, sent>>

\* MUTANTS of Repeated and HangsUp: prevmatch is not looked at; the terminal is
\* not closed before the program is waited for.
NeverRepeated(prompt) == FALSE
KeepsTerminal(ret) == FALSE

\* A second prompt means that the password was wrong.
Repeated(prompt) == prompt /\ prevmatch

\* close( masterpt ), close( slavept ): the program loses its terminal.
HangsUp(ret) == ret > 0

\* runprogram() on what handleoutput() returned.
Returns(ret) ==
    /\ masterpt' = ~HangsUp(ret)
    /\ slavept' = (slavept /\ ret = 0)

\* handleoutput() on a buffer.  The first prompt takes it into write_pass(),
\* from which it returns with the result found here.
HandleOutput ==
    /\ pc = "read"
    /\ \E n \in 1..Len(tty) :
        /\ n <= BufSize
        /\ LET buffer == SubSeq(tty, 1, n)
               m1 == Match(compare1, buffer, state1)
               m2 == Match(compare2, buffer, state2)
               prompt == m1 = Len(compare1)
               again == Repeated(prompt)
               ret == IF again THEN IncorrectPassword
                      ELSE IF m2 = Len(compare2) THEN HostKeyUnknown ELSE 0
           IN  /\ state1' = IF prompt /\ ~again THEN 0 ELSE m1
               /\ state2' = IF again THEN state2 ELSE m2
               /\ prevmatch' = (prevmatch \/ prompt)
               /\ terminate' = ret
               /\ IF prompt /\ ~again
                  THEN pc' = "source" /\ UNCHANGED <<masterpt, slavept>>
                  ELSE pc' = "wait" /\ Returns(ret)
        /\ tty' = SubSeq(tty, n + 1, Len(tty))
    /\ UNCHANGED <<sigchld, rc, program, typed, sent>>

\* write_pass() once the source has answered, up to the end of its line or its
\* own: the password is typed.  Nothing is, if the file could not be opened.
WritePass ==
    /\ pc = "source"
    /\ \E lines \in {0, 1} :
          /\ typed' = typed + lines
          /\ sent' = sent + lines
    /\ Returns(terminate)
    /\ pc' = "wait"
    /\ UNCHANGED <<terminate, prevmatch, state1, state2, sigchld, rc, program, tty>>

\* waitpid() with WNOHANG, and without it once the end is decided.
Ended == child \in {"exited", "killed", "hungup"}

\* What waitpid() says of the program.
OwnCode == IF child = "exited" THEN status ELSE 255

\* MUTANT of ExitCode: the program's status comes first.
ExitCodeOfProgram == OwnCode

\* What sshpass found comes first, and then the program's own status, which may
\* be any number: ssh exits 255 for every error, and sshpass passes that on.
ExitCode == IF terminate > 0 THEN terminate ELSE OwnCode
Reap ==
    /\ Ended
    /\ rc' = ExitCode
    /\ pc' = "done"
Wait ==
    /\ pc = "wait"
    /\ \/ Reap
       \/ /\ ~Ended
          /\ pc' = IF terminate # 0 THEN "block" ELSE "select"
          /\ UNCHANGED rc
    /\ UNCHANGED <<local, sigchld, program, tty, typed, sent>>
WaitBlocking ==
    /\ pc = "block"
    /\ Reap
    /\ UNCHANGED <<local, sigchld, program, tty, typed, sent>>

-----------------------------------------------------------------------------
(* The program on the terminal.                                            *)

Says(message, next) ==
    /\ child = "busy" /\ line = <<>>
    /\ line' = message
    /\ child' = next
    /\ UNCHANGED <<pc, local, sigchld, rc, status, tty, typed, sent>>

AskPassword ==
    /\ asked < MaxAsk
    /\ Says(compare1, "asks")
    /\ asked' = asked + 1
    /\ UNCHANGED <<hosts, chatted>>

AskHost ==
    /\ hosts < MaxAsk
    /\ Says(compare2, "asks")
    /\ hosts' = hosts + 1
    /\ UNCHANGED <<asked, chatted>>

Chat ==
    /\ chatted < MaxChatter
    /\ Says(Chatter, "busy")
    /\ chatted' = chatted + 1
    /\ UNCHANGED <<asked, hosts>>

\* The terminal takes the message character by character.
Types ==
    /\ child \in {"busy", "asks"}
    /\ line # <<>>
    /\ tty' = Append(tty, Head(line))
    /\ line' = Tail(line)
    /\ UNCHANGED <<pc, local, sigchld, rc, child, status, asked, hosts, chatted, typed, sent>>

\* An answer was typed.
Answered ==
    /\ child = "asks" /\ line = <<>>
    /\ typed > 0
    /\ typed' = typed - 1
    /\ child' = "busy"
    /\ UNCHANGED <<pc, local, sigchld, rc, status, line, asked, hosts, chatted, tty, sent>>

\* The program exits with a status of its own choice - 3, of line 301, if it
\* could not be executed - or is killed.
IsOver ==
    /\ line = <<>>
    /\ \/ child' = "exited" /\ status' \in Statuses
       \/ child' = "killed" /\ UNCHANGED status
    /\ sigchld' = TRUE
    /\ UNCHANGED <<pc, local, rc, line, asked, hosts, chatted, tty, typed, sent>>

ProgramEnds == child = "busy" /\ IsOver

\* It does not wait for the answer any longer, which it need not do.
GivesUp == child = "asks" /\ IsOver

\* SIGHUP of the closed terminal.
HangUp ==
    /\ child \in {"busy", "asks"}
    /\ ~masterpt
    /\ child' = "hungup"
    /\ sigchld' = TRUE
    /\ UNCHANGED <<pc, local, rc, status, line, asked, hosts, chatted, tty, typed, sent>>

-----------------------------------------------------------------------------
runprogram == SelectReadable \/ SelectInterrupted \/ HandleOutput \/ Wait \/ WaitBlocking
Program == AskPassword \/ AskHost \/ Chat \/ Types \/ Answered \/ ProgramEnds \/ GivesUp \/ HangUp

Next == runprogram \/ WritePass \/ Program \/ WindowResize

Spec == Init /\ [][Next]_vars

\* sshpass runs, and so does the program, until it waits for an answer; the
\* source of the password owes none.  The window is not resized so often that
\* pselect() never gets to return otherwise.
FairSpec ==
    /\ Spec
    /\ WF_vars(runprogram)
    /\ SF_vars(SelectReadable) /\ SF_vars(SelectInterrupted)
    /\ WF_vars(Types) /\ WF_vars(Answered) /\ WF_vars(ProgramEnds) /\ WF_vars(HangUp)

-----------------------------------------------------------------------------
\* Types of the variables.
TypeOK ==
    /\ pc \in {"select", "read", "source", "wait", "block", "done"}
    /\ terminate \in {0, IncorrectPassword, HostKeyUnknown}
    /\ rc \in {-1, IncorrectPassword, HostKeyUnknown, 255} \cup Statuses
    /\ state1 \in 0..Len(compare1) /\ state2 \in 0..Len(compare2)
    /\ {prevmatch, slavept, masterpt, sigchld} \subseteq BOOLEAN
    /\ child \in {"busy", "asks", "exited", "killed", "hungup"}
    /\ status \in {-1} \cup Statuses
    /\ typed \in 0..1 /\ sent \in 0..1

\* The password is typed only where it was asked for, and once: it never
\* answers a question about the host, nor is it tried again.
PasswordForPrompt == sent <= 1 /\ sent <= asked

\* The exit code says what happened.  While the terminal is open it is the
\* program's own, whatever number that is, or 255 for a signal.  sshpass has an
\* answer of its own exactly if it closed the terminal, and then for a reason:
\* a wrong password only after a second prompt for the one it typed, an unknown
\* host only after that question.
CodeIsTrue ==
    rc # -1 =>
        IF masterpt
        THEN \/ child = "exited" /\ rc = status
             \/ child = "killed" /\ rc = 255
        ELSE \/ rc = IncorrectPassword /\ asked >= 2 /\ sent = 1
             \/ rc = HostKeyUnknown /\ hosts >= 1

\* pselect() never returns for a terminal that has no slave side open, on
\* which it would spin: what "Comment no. 3.14159" is about.
NeverReadsError == [][pc = "select" /\ pc' = "read" => tty # <<>>]_vars

\* sshpass does "everything in its power not to hang": it ends, whether the
\* program ends, or asks again, or asks about the host, and waits for an answer.
\* It hangs only on a source that does not answer, or with a program that waits
\* for the password of a file that could not be opened.
Ends ==
    \/ <>(pc = "done")
    \/ <>[](pc = "source")
    \/ <>[](child = "asks" /\ prevmatch /\ sent = 0)

\* A program that ended is noticed: no wake-up is lost between waitpid() and
\* pselect(), whatever is in the terminal, nor while SIGCHLD is blocked during
\* a wait for the password, if that comes to an end.
NoticesEnd == Ended ~> (pc = "done" \/ [](pc = "source"))
=============================================================================
