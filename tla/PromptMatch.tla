---------------------------- MODULE PromptMatch ----------------------------
(***************************************************************************)
(* What match() finds of one reference text, whatever the program writes   *)
(* and however the terminal cuts it into buffers: as Advance handles one   *)
(* character after another, the cuts make no difference, which             *)
(* CutsDoNotMatter checks.                                                 *)
(***************************************************************************)
EXTENDS PromptText

CONSTANTS
    Chars,      \* the characters a program may write
    Ref,        \* the text that is looked for
    MaxText     \* bound: characters written before it is found

ASSUME PromptAssumption ==
    /\ Ref \in Seq(Chars)
    /\ Ref # <<>>
    /\ MaxText \in Nat

VARIABLES
    text,       \* what was written since the last match
    state       \* state1 or state2 of handleoutput()

vars == <<text, state>>

Init == text = <<>> /\ state = 0

\* One character of a buffer.  A complete match ends the search: the rest of
\* the buffer is not looked at.
Read(c) ==
    /\ state < Len(Ref)
    /\ Len(text) < MaxText
    /\ text' = Append(text, c)
    /\ state' = Advance(Ref, state, c)

Next == \E c \in Chars : Read(c)

Spec == Init /\ [][Next]_vars

-----------------------------------------------------------------------------
\* Types of the variables.
TypeOK == text \in Seq(Chars) /\ state \in 0..Len(Ref)

\* The last k characters written are the first k of the reference.
EndsWith(k) == \A i \in 1..k : text[Len(text) - k + i] = Ref[i]

\* match() never reports what was not written: the state counts characters
\* that were.
NoFalsePrompt == state <= Len(text) /\ EndsWith(state)

\* match() never misses the reference, nor the longest beginning of it, in
\* what was written.
NoMissedPrompt == \A k \in 1..Len(Ref) : k <= Len(text) /\ EndsWith(k) => k <= state

\* match() sees the reference when it was written.
FindsPrompt == Len(Ref) <= Len(text) /\ EndsWith(Len(Ref)) => state = Len(Ref)

\* The reference's first character does not occur in it again, as in
\* PASSWORD_PROMPT and in compare2.
FirstOnce == \A i \in 2..Len(Ref) : Ref[i] # Ref[1]

\* The buffers in which the terminal delivers a text do not change the result.
CutsDoNotMatter ==
    \A n \in 0..Len(text) :
        state = Match(Ref, SubSeq(text, n + 1, Len(text)), Match(Ref, SubSeq(text, 1, n), 0))
=============================================================================
