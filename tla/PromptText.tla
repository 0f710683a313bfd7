----------------------------- MODULE PromptText -----------------------------
(***************************************************************************)
(* match() of sshpass: looking for a reference text in what a program      *)
(* writes to its terminal, buffer by buffer.  The state carried from one   *)
(* buffer to the next is how many characters of the reference matched.     *)
(***************************************************************************)
EXTENDS Integers, SequencesExt

\* MUTANTS of Advance: a character that does not fit is skipped, and is not
\* tried as the first one.
SkipsOther(ref, state, c) ==
    IF state = Len(ref) THEN state ELSE IF ref[state + 1] = c THEN state + 1 ELSE state
NotAnew(ref, state, c) ==
    IF state = Len(ref) THEN state ELSE IF ref[state + 1] = c THEN state + 1 ELSE 0

\* One character: the match grows, or starts anew with this character, or is
\* lost.  Nothing happens once the whole reference was found.
Advance(ref, state, c) ==
    IF state = Len(ref) THEN state
    ELSE IF ref[state + 1] = c THEN state + 1
    ELSE IF ref[1] = c THEN 1
    ELSE 0

\* MUTANT of Match: the state of the last buffer is forgotten.
MatchAfresh(ref, buffer, state) ==
    FoldLeft(LAMBDA s, c : Advance(ref, s, c), 0, buffer)

\* One buffer.
Match(ref, buffer, state) ==
    FoldLeft(LAMBDA s, c : Advance(ref, s, c), state, buffer)
=============================================================================
