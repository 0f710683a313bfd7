------------------------- MODULE PromptMatchProofs -------------------------
(***************************************************************************)
(* For every reference text and everything a program may write: match()    *)
(* reports only what was written, misses nothing if the reference's first  *)
(* character does not occur in it again, and does not depend on how the    *)
(* terminal cuts the text.                                                 *)
(*                                                                         *)
(* The last of these is about a fold over a buffer of any length.  The     *)
(* induction it takes is had without a theorem that has an operator for    *)
(* parameter: of the sets 0..n with n in X one holds no other, because the *)
(* finite sets are well-founded, so that X has a least number.             *)
(***************************************************************************)
EXTENDS PromptMatch, FiniteSetTheorems, TLAPS

-----------------------------------------------------------------------------
(* Induction, from the well-foundedness of the finite sets.                *)

\* A set of numbers has a least one.
LEMMA LeastNumber ==
    ASSUME NEW X \in SUBSET Nat, X # {}
    PROVE  \E m \in X : \A k \in X : m <= k
<1> DEFINE R == StrictSubsetOrdering(Nat)
           F == FiniteSubsetsOf(Nat)
           Below == {0..n : n \in X}
<1>1. IsWellFoundedOn(R, F)
  BY FS_StrictSubsetOrderingWellFounded
<1>2. Below \subseteq F /\ Below # {}
  <2>1. \A n \in Nat : IsFiniteSet(0..n) /\ 0..n \in SUBSET Nat
    BY FS_Interval
  <2> QED BY <2>1 DEF FiniteSubsetsOf
<1> HIDE DEF R, F, Below
<1>3. PICK t \in Below : \A u \in Below : ~(<<u, t>> \in R)
  BY <1>1, <1>2, WFMin
<1>4. PICK m \in X : t = 0..m
  BY DEF Below
<1>5. ASSUME NEW k \in X, k < m PROVE FALSE
  <2>1. 0..k \in Below /\ 0..k \subseteq 0..m /\ 0..k # 0..m
    BY <1>5 DEF Below
  <2>2. <<0..k, 0..m>> \in R
     BY <2>1, <1>5 DEF R, StrictSubsetOrdering
  <2> QED BY <2>1, <2>2, <1>3, <1>4
<1> QED BY <1>5

\* A set that holds 0 and, with every number before n, the next one, holds all
\* of them up to n.
LEMMA Induction ==
    ASSUME NEW n \in Nat, NEW X, 0 \in X, \A k \in 0..n - 1 : k \in X => k + 1 \in X
    PROVE  0..n \subseteq X
<1> DEFINE Out == {k \in 0..n : k \notin X}
<1>1. CASE Out # {}
  <2>0. Out \in SUBSET Nat
    OBVIOUS
  <2>1. PICK m \in Out : \A k \in Out : m <= k
    <3> HIDE DEF Out
    <3> QED BY <1>1, <2>0, LeastNumber
  <2>2. m # 0 /\ m - 1 \in 0..n - 1 /\ (m - 1) + 1 = m
    BY <2>1
  <2>3. m - 1 \in X
    BY <2>1, <2>2
  <2> QED BY <2>1, <2>2, <2>3
<1> QED BY <1>1

-----------------------------------------------------------------------------
(* Match as the states it goes through.                                    *)

\* run[k] is the state after k characters of the buffer.
Goes(run, ref, buffer, state0) ==
    /\ run \in [0..Len(buffer) -> 0..Len(ref)]
    /\ run[0] = state0
    /\ \A k \in 1..Len(buffer) : run[k] = Advance(ref, run[k - 1], buffer[k])

LEMMA AdvanceType ==
    ASSUME NEW ref, Len(ref) \in Nat \ {0}, NEW s \in 0..Len(ref), NEW c
    PROVE  Advance(ref, s, c) \in 0..Len(ref)
BY DEF Advance

\* There is only one way through a buffer.
LEMMA OneWay ==
    ASSUME NEW ref, NEW buffer, Len(buffer) \in Nat, NEW s, NEW f, NEW g,
           Goes(f, ref, buffer, s), Goes(g, ref, buffer, s)
    PROVE  f[Len(buffer)] = g[Len(buffer)]
<1> DEFINE X == {k \in 0..Len(buffer) : f[k] = g[k]}
<1>1. 0 \in X
  BY DEF Goes
<1>2. ASSUME NEW k \in 0..Len(buffer) - 1, k \in X PROVE k + 1 \in X
  <2>1. k + 1 \in 1..Len(buffer) /\ (k + 1) - 1 = k
    OBVIOUS
  <2>2. f[k + 1] = Advance(ref, f[k], buffer[k + 1]) /\ g[k + 1] = Advance(ref, g[k], buffer[k + 1])
    BY <2>1 DEF Goes
  <2> QED BY <1>2, <2>1, <2>2
<1>3. 0..Len(buffer) \subseteq X
  <2> HIDE DEF X
  <2> QED BY <1>1, <1>2, Induction
<1> QED BY <1>3

\* The fold of Match, written out.
Folding(ref, buffer, state0) ==
    CHOOSE fold : fold = [s \in SUBSET DOMAIN buffer |->
        IF s = {} THEN state0 ELSE Advance(ref, fold[s \ {Max(s)}], buffer[Max(s)])]

LEMMA MatchFolds ==
    \A ref, buffer, s : Match(ref, buffer, s) = Folding(ref, buffer, s)[DOMAIN buffer]
BY DEF Match, FoldLeft, MapThenFoldSet, Folding

\* One that runs over the parts of 1..n.
Folds(f, n, ref, buffer, state0) ==
    /\ f \in [SUBSET (1..n) -> 0..Len(ref)]
    /\ \A s \in SUBSET (1..n) :
          f[s] = IF s = {} THEN state0 ELSE Advance(ref, f[s \ {Max(s)}], buffer[Max(s)])

LEMMA MaxOfNew ==
    ASSUME NEW n \in Nat, NEW s \in SUBSET (1..n + 1), n + 1 \in s
    PROVE  Max(s) = n + 1
<1>1. \A k \in s : n + 1 >= k
  OBVIOUS
<1>2. \E m \in s : \A k \in s : m >= k
  BY <1>1
<1>3. Max(s) \in s /\ \A k \in s : Max(s) >= k
  BY <1>2 DEF Max
<1>4. PICK m : m = Max(s)
  OBVIOUS
<1>5. m \in s /\ m >= n + 1
  BY <1>3, <1>4
<1>6. m \in 1..n + 1
  BY <1>5
<1>7. m = n + 1
  BY <1>5, <1>6
<1> QED BY <1>4, <1>7

LEMMA FoldExists ==
    ASSUME NEW ref, Len(ref) \in Nat \ {0}, NEW buffer, NEW N \in Nat, NEW q \in 0..Len(ref)
    PROVE  \E f : Folds(f, N, ref, buffer, q)
<1> DEFINE X == {n \in 0..N : \E f : Folds(f, n, ref, buffer, q)}
<1>1. 0 \in X
  <2>1. Folds([s \in SUBSET (1..0) |-> q], 0, ref, buffer, q)
    BY DEF Folds
  <2> QED BY <2>1
<1>2. ASSUME NEW n \in 0..N - 1, n \in X PROVE n + 1 \in X
  <2>1. PICK f : Folds(f, n, ref, buffer, q)
    BY <1>2
  <2> DEFINE g == [s \in SUBSET (1..n + 1) |->
                     IF n + 1 \in s THEN Advance(ref, f[s \ {n + 1}], buffer[n + 1]) ELSE f[s]]
  <2>2. ASSUME NEW s \in SUBSET (1..n + 1)
        PROVE  /\ n + 1 \in s => s \ {n + 1} \in SUBSET (1..n)
               /\ n + 1 \notin s => s \in SUBSET (1..n)
    OBVIOUS
  <2>3. g \in [SUBSET (1..n + 1) -> 0..Len(ref)]
    <3> SUFFICES ASSUME NEW s \in SUBSET (1..n + 1) PROVE g[s] \in 0..Len(ref)
      OBVIOUS
    <3>1. CASE n + 1 \in s
      <4>1. f[s \ {n + 1}] \in 0..Len(ref)
        BY <2>1, <2>2, <3>1 DEF Folds
      <4>2. g[s] = Advance(ref, f[s \ {n + 1}], buffer[n + 1])
        BY <3>1
      <4> HIDE DEF g
      <4> QED BY <4>1, <4>2, AdvanceType
    <3>2. CASE n + 1 \notin s
      BY <2>1, <2>2, <3>2 DEF Folds
    <3> QED BY <3>1, <3>2
  <2>4. ASSUME NEW s \in SUBSET (1..n + 1)
        PROVE  g[s] = IF s = {} THEN q ELSE Advance(ref, g[s \ {Max(s)}], buffer[Max(s)])
    <3>1. CASE n + 1 \in s
      <4>1. Max(s) = n + 1
        BY <3>1, MaxOfNew
      <4>2. g[s \ {n + 1}] = f[s \ {n + 1}]
        BY <3>1
      <4>3. g[s] = Advance(ref, f[s \ {n + 1}], buffer[n + 1])
        BY <3>1
      <4> HIDE DEF g
      <4> QED BY <3>1, <4>1, <4>2, <4>3
    <3>2. CASE n + 1 \notin s /\ s # {}
      <4>1. g[s] = f[s] /\ g[s \ {Max(s)}] = f[s \ {Max(s)}]
        BY <3>2
      <4>2. f[s] = Advance(ref, f[s \ {Max(s)}], buffer[Max(s)])
        BY <2>1, <2>2, <3>2 DEF Folds
      <4> HIDE DEF g
      <4> QED BY <3>2, <4>1, <4>2
    <3>3. CASE s = {}
      <4>1. f[s] = q /\ g[s] = f[s]
        BY <2>1, <3>3 DEF Folds
      <4> HIDE DEF g
      <4> QED BY <3>3, <4>1
    <3> QED BY <3>1, <3>2, <3>3
  <2>5. Folds(g, n + 1, ref, buffer, q)
    <3> HIDE DEF g
    <3> QED BY <2>3, <2>4 DEF Folds
  <2>6. n + 1 \in 0..N
    OBVIOUS
  <2> HIDE DEF g
  <2> QED BY <2>5, <2>6
<1>3. 0..N \subseteq X
  <2> HIDE DEF X
  <2> QED BY <1>1, <1>2, Induction
<1> QED BY <1>3

\* Match ends in the last state of the way through the buffer.
LEMMA MatchGoes ==
    ASSUME NEW ref, Len(ref) \in Nat \ {0}, NEW buffer, Len(buffer) \in Nat,
           DOMAIN buffer = 1..Len(buffer), NEW q \in 0..Len(ref)
    PROVE  \E run : Goes(run, ref, buffer, q) /\ run[Len(buffer)] = Match(ref, buffer, q)
<1> DEFINE N == Len(buffer)
           f == Folding(ref, buffer, q)
           run == [k \in 0..N |-> f[1..k]]
<1>1. f = [s \in SUBSET (1..N) |->
             IF s = {} THEN q ELSE Advance(ref, f[s \ {Max(s)}], buffer[Max(s)])]
  <2>1. PICK g : Folds(g, N, ref, buffer, q)
    BY FoldExists
  <2>2. g = [s \in SUBSET (1..N) |->
               IF s = {} THEN q ELSE Advance(ref, g[s \ {Max(s)}], buffer[Max(s)])]
    BY <2>1 DEF Folds
  <2> QED BY <2>2 DEF Folding
<1> HIDE DEF f
<1>2. f[1..0] = q
  BY <1>1
<1>3. ASSUME NEW k \in 0..N - 1 PROVE f[1..k + 1] = Advance(ref, f[1..k], buffer[k + 1])
  <2>1. 1..k + 1 \in SUBSET (1..N) /\ k + 1 \in 1..k + 1 /\ (1..k + 1) \ {k + 1} = 1..k
    OBVIOUS
  <2>2. Max(1..k + 1) = k + 1
    <3>1. 1..k + 1 \in SUBSET (1..k + 1)
      OBVIOUS
    <3> QED BY <2>1, <3>1, MaxOfNew
  <2> QED BY <1>1, <2>1, <2>2
<1> DEFINE X == {k \in 0..N : f[1..k] \in 0..Len(ref)}
<1>4. 0..N \subseteq X
  <2>1. 0 \in X
    BY <1>2
  <2>2. ASSUME NEW k \in 0..N - 1, k \in X PROVE k + 1 \in X
    <3>1. f[1..k + 1] \in 0..Len(ref)
      BY <1>3, <2>2, AdvanceType
    <3> QED BY <3>1
  <2> HIDE DEF X
  <2> QED BY <2>1, <2>2, Induction
<1>5. run \in [0..N -> 0..Len(ref)]
  BY <1>4
<1>6. run[0] = q
  BY <1>2
<1>7. ASSUME NEW k \in 1..N PROVE run[k] = Advance(ref, run[k - 1], buffer[k])
  <2>1. k - 1 \in 0..N - 1 /\ k - 1 \in 0..N /\ (k - 1) + 1 = k /\ k \in 0..N
    OBVIOUS
  <2>2. f[1..k] = Advance(ref, f[1..k - 1], buffer[k])
    BY <1>3, <2>1
  <2>3. run[k] = f[1..k] /\ run[k - 1] = f[1..k - 1]
    BY <2>1
  <2> HIDE DEF run
  <2> QED BY <2>2, <2>3
<1>8. run[N] = Match(ref, buffer, q)
  BY MatchFolds DEF f
<1> HIDE DEF run
<1> QED BY <1>5, <1>6, <1>7, <1>8 DEF Goes

\* What Match returns is a state, and if it has found the reference, the buffer
\* holds the reference's last character.
LEMMA LastWritten ==
    ASSUME NEW ref, Len(ref) \in Nat \ {0}, NEW buffer, Len(buffer) \in Nat,
           DOMAIN buffer = 1..Len(buffer), NEW q \in 0..Len(ref)
    PROVE  /\ Match(ref, buffer, q) \in 0..Len(ref)
           /\ Match(ref, buffer, q) = Len(ref) /\ q # Len(ref) =>
                 \E k \in 1..Len(buffer) : buffer[k] = ref[Len(ref)]
<1>1. PICK run : Goes(run, ref, buffer, q) /\ run[Len(buffer)] = Match(ref, buffer, q)
  BY MatchGoes
<1>2. Match(ref, buffer, q) \in 0..Len(ref)
  BY <1>1 DEF Goes
<1>3. ASSUME Match(ref, buffer, q) = Len(ref), q # Len(ref)
      PROVE  \E k \in 1..Len(buffer) : buffer[k] = ref[Len(ref)]
  <2> DEFINE X == {k \in 0..Len(buffer) : run[k] = Len(ref)}
  <2>1. X \in SUBSET Nat /\ Len(buffer) \in X
    BY <1>1, <1>3
  <2>2. PICK k \in X : \A j \in X : k <= j
    <3> HIDE DEF X
    <3> QED BY <2>1, LeastNumber
  <2>3. k \in 1..Len(buffer) /\ k - 1 \in 0..Len(buffer) /\ k - 1 \notin X
    BY <1>1, <1>3, <2>2 DEF Goes
  <2>4. /\ run[k - 1] \in 0..Len(ref) /\ run[k - 1] # Len(ref)
        /\ Advance(ref, run[k - 1], buffer[k]) = Len(ref)
    BY <1>1, <2>2, <2>3 DEF Goes
  <2>5. buffer[k] = ref[Len(ref)]
    BY <2>4 DEF Advance
  <2> QED BY <2>3, <2>5
<1> QED BY <1>2, <1>3

-----------------------------------------------------------------------------
(* One character of a text.                                                *)

\* What one character does to the text and to the state.
LEMMA ReadStep ==
    ASSUME TypeOK, NEW c \in Chars, Read(c)
    PROVE  /\ state < Len(Ref)
           /\ Len(text') = Len(text) + 1
           /\ \A i \in 1..Len(text) : text'[i] = text[i]
           /\ text'[Len(text')] = c
           /\ \/ Ref[state + 1] = c /\ state' = state + 1
              \/ Ref[state + 1] # c /\ Ref[1] = c /\ state' = 1
              \/ Ref[state + 1] # c /\ Ref[1] # c /\ state' = 0
<1>1. /\ text \in Seq(Chars)
      /\ text' = Append(text, c)
      /\ state \in 0..Len(Ref)
      /\ state < Len(Ref)
      /\ state' = Advance(Ref, state, c)
  BY DEF TypeOK, Read
<1>2. Len(Ref) \in Nat
  BY PromptAssumption
<1>3. /\ Len(text') = Len(text) + 1
      /\ \A i \in 1..Len(text) : text'[i] = text[i]
      /\ text'[Len(text')] = c
  BY <1>1
<1>4. state # Len(Ref)
  BY <1>1, <1>2
<1>5. QED
  BY <1>1, <1>3, <1>4 DEF Advance

\* A suffix of the new text of k + 1 characters is one of the old text of k
\* characters and the character read.
LEMMA SuffixStep ==
    ASSUME TypeOK, NEW c \in Chars, Read(c), NEW k \in 0..(Len(Ref) - 1), k <= Len(text)
    PROVE  EndsWith(k + 1)' <=> EndsWith(k) /\ Ref[k + 1] = c
<1>1. /\ Len(text) \in Nat
      /\ Len(text') = Len(text) + 1
      /\ \A i \in 1..Len(text) : text'[i] = text[i]
      /\ text'[Len(text')] = c
      /\ k \in Nat
  BY ReadStep, PromptAssumption DEF TypeOK
<1>2. \A i \in 1..k : text'[Len(text') - (k + 1) + i] = text[Len(text) - k + i]
  <2>1. ASSUME NEW i \in 1..k
        PROVE  text'[Len(text') - (k + 1) + i] = text[Len(text) - k + i]
    <3>1. Len(text') - (k + 1) + i = Len(text) - k + i
      BY <1>1
    <3>2. Len(text) - k + i \in 1..Len(text)
      BY <1>1
    <3>3. QED
      BY <1>1, <3>1, <3>2
  <2>2. QED
    BY <2>1
<1>3. text'[Len(text') - (k + 1) + (k + 1)] = c
  <2>1. Len(text') - (k + 1) + (k + 1) = Len(text')
    BY <1>1
  <2>2. QED
    BY <1>1, <2>1
<1>4. ASSUME EndsWith(k + 1)'
      PROVE  EndsWith(k) /\ Ref[k + 1] = c
  <2>1. \A i \in 1..(k + 1) : text'[Len(text') - (k + 1) + i] = Ref[i]
    BY <1>4 DEF EndsWith
  <2>2. k + 1 \in 1..(k + 1) /\ \A i \in 1..k : i \in 1..(k + 1)
    BY <1>1
  <2>3. QED
    BY <1>2, <1>3, <2>1, <2>2 DEF EndsWith
<1>5. ASSUME EndsWith(k), Ref[k + 1] = c
      PROVE  EndsWith(k + 1)'
  <2>1. \A i \in 1..(k + 1) : i \in 1..k \/ i = k + 1
    BY <1>1
  <2>2. \A i \in 1..(k + 1) : text'[Len(text') - (k + 1) + i] = Ref[i]
    BY <1>2, <1>3, <1>5, <2>1 DEF EndsWith
  <2>3. QED
    BY <2>2 DEF EndsWith
<1>6. QED
  BY <1>4, <1>5

-----------------------------------------------------------------------------
\* Types of text and state.
THEOREM TypeCorrect == Spec => []TypeOK
<1>1. Init => TypeOK
  BY PromptAssumption DEF Init, TypeOK
<1>2. TypeOK /\ [Next]_vars => TypeOK'
  <2>1. SUFFICES ASSUME TypeOK, [Next]_vars PROVE TypeOK'
    OBVIOUS
  <2>2. ASSUME NEW c \in Chars, Read(c) PROVE TypeOK'
    <3>1. text' \in Seq(Chars)
      BY <2>1, <2>2 DEF TypeOK, Read
    <3>2. state \in 0..Len(Ref) /\ Len(Ref) \in Nat /\ Len(Ref) >= 1
      BY <2>1, PromptAssumption DEF TypeOK
    <3>3. state' \in 0..Len(Ref)
      BY <2>1, <2>2, <3>2, ReadStep
    <3>4. QED
      BY <3>1, <3>3 DEF TypeOK
  <2>3. CASE UNCHANGED vars
    BY <2>1, <2>3 DEF TypeOK, vars
  <2>4. QED
    BY <2>1, <2>2, <2>3 DEF Next
<1>3. QED
  BY <1>1, <1>2, PTL DEF Spec

\* match() never reports a prompt that was not written, for every reference.
THEOREM Sound == Spec => []NoFalsePrompt
<1>1. Init => NoFalsePrompt
  BY DEF Init, NoFalsePrompt, EndsWith
<1>2. TypeOK /\ NoFalsePrompt /\ [Next]_vars => NoFalsePrompt'
  <2>1. SUFFICES ASSUME TypeOK, NoFalsePrompt, [Next]_vars PROVE NoFalsePrompt'
    OBVIOUS
  <2>2. ASSUME NEW c \in Chars, Read(c) PROVE NoFalsePrompt'
    <3>1. /\ Len(text) \in Nat /\ Len(Ref) \in Nat /\ state \in Nat /\ state < Len(Ref)
          /\ Len(text') = Len(text) + 1
      BY <2>1, <2>2, ReadStep, PromptAssumption DEF TypeOK
    <3>2. EndsWith(0)
      BY DEF EndsWith
    <3>3. CASE Ref[state + 1] = c /\ state' = state + 1
      <4>1. PICK k \in 0..(Len(Ref) - 1) : k = state
        BY <3>1
      <4>2. k <= Len(text) /\ EndsWith(k)
        BY <2>1, <4>1 DEF NoFalsePrompt, EndsWith
      <4>3. EndsWith(k + 1)'
        BY <2>1, <2>2, <3>3, <4>1, <4>2, SuffixStep
      <4>4. state' = k + 1 /\ state' <= Len(text')
        BY <3>1, <3>3, <4>1, <4>2
      <4>5. QED
        BY <4>3, <4>4 DEF NoFalsePrompt, EndsWith
    <3>4. CASE Ref[1] = c /\ state' = 1
      <4>1. EndsWith(0 + 1)'
        <5>1. 0 \in 0..(Len(Ref) - 1) /\ 0 <= Len(text) /\ 0 + 1 = 1
          BY <3>1
        <5>2. QED
          BY <2>1, <2>2, <3>2, <3>4, <5>1, SuffixStep
      <4>2. state' <= Len(text')
        BY <3>1, <3>4
      <4>3. 0 + 1 = 1
        OBVIOUS
      <4>4. QED
        BY <3>4, <4>1, <4>2, <4>3 DEF NoFalsePrompt, EndsWith
    <3>5. CASE state' = 0
      BY <3>1, <3>5 DEF NoFalsePrompt, EndsWith
    <3>6. QED
      BY <2>1, <2>2, <3>3, <3>4, <3>5, ReadStep
  <2>3. CASE UNCHANGED vars
    BY <2>1, <2>3 DEF NoFalsePrompt, EndsWith, vars
  <2>4. QED
    BY <2>1, <2>2, <2>3 DEF Next
<1>3. QED
  BY <1>1, <1>2, TypeCorrect, PTL DEF Spec

\* If the first character of the reference does not occur in it again, match()
\* never misses it, nor its longest beginning.
THEOREM Complete == FirstOnce => (Spec => []NoMissedPrompt)
<1> SUFFICES ASSUME FirstOnce PROVE Spec => []NoMissedPrompt
  OBVIOUS
<1>1. Init => NoMissedPrompt
  BY PromptAssumption DEF Init, NoMissedPrompt
<1>2. TypeOK /\ NoFalsePrompt /\ NoMissedPrompt /\ [Next]_vars => NoMissedPrompt'
  <2>1. SUFFICES ASSUME TypeOK, NoFalsePrompt, NoMissedPrompt, [Next]_vars
                 PROVE  NoMissedPrompt'
    OBVIOUS
  <2>2. ASSUME NEW c \in Chars, Read(c) PROVE NoMissedPrompt'
    <3>1. /\ Len(text) \in Nat /\ Len(Ref) \in Nat /\ state \in Nat /\ state < Len(Ref)
          /\ Len(text') = Len(text) + 1
      BY <2>1, <2>2, ReadStep, PromptAssumption DEF TypeOK
    <3>2. ASSUME NEW k \in 1..Len(Ref), k <= Len(text'), EndsWith(k)'
          PROVE  k <= state'
      <4>1. PICK j \in 0..(Len(Ref) - 1) : k = j + 1
        <5>1. k - 1 \in 0..(Len(Ref) - 1) /\ k = (k - 1) + 1
          BY <3>1
        <5>2. QED
          BY <5>1
      <4>2. j <= Len(text) /\ j \in Nat
        BY <3>1, <3>2, <4>1
      <4>3. EndsWith(j + 1)'
        BY <3>2, <4>1 DEF EndsWith
      <4>4. EndsWith(j) /\ Ref[j + 1] = c
        BY <2>1, <2>2, <4>2, <4>3, SuffixStep
      <4>5. j <= state
        BY <2>1, <3>1, <4>2, <4>4 DEF NoMissedPrompt
      <4>6. CASE j = 0
        <5>1. Ref[1] = c
          BY <4>4, <4>6
        <5>2. state' >= 1
          BY <2>1, <2>2, <3>1, <5>1, ReadStep
        <5>3. QED
          BY <4>1, <4>6, <5>2
      <4>7. CASE j = state
        <5>1. state' = state + 1
          BY <2>1, <2>2, <4>4, <4>7, ReadStep
        <5>2. QED
          BY <4>1, <4>7, <5>1, <3>1
      <4>8. CASE j # 0 /\ j # state
        <5>1. j \in 1..(state - 1) /\ state - j + 1 \in 2..Len(Ref)
              /\ state - j + 1 \in 1..state /\ 1 \in 1..j
          BY <3>1, <4>2, <4>5, <4>8
        <5>2. text[Len(text) - j + 1] = Ref[1]
          BY <4>4, <5>1 DEF EndsWith
        <5>3. text[Len(text) - state + (state - j + 1)] = Ref[state - j + 1]
          BY <2>1, <5>1 DEF NoFalsePrompt, EndsWith
        <5>4. Len(text) - state + (state - j + 1) = Len(text) - j + 1
          BY <3>1, <4>2
        <5>5. QED
          BY <5>1, <5>2, <5>3, <5>4 DEF FirstOnce
      <4>9. QED
        BY <4>6, <4>7, <4>8
    <3>3. QED
      BY <3>2 DEF NoMissedPrompt, EndsWith
  <2>3. CASE UNCHANGED vars
    BY <2>1, <2>3 DEF NoMissedPrompt, EndsWith, vars
  <2>4. QED
    BY <2>1, <2>2, <2>3 DEF Next
<1>3. QED
  BY <1>1, <1>2, TypeCorrect, Sound, PTL DEF Spec

\* With such a reference match() sees every prompt that is written.
THEOREM Found == FirstOnce => (Spec => []FindsPrompt)
<1> SUFFICES ASSUME FirstOnce PROVE Spec => []FindsPrompt
  OBVIOUS
<1>1. TypeOK /\ NoMissedPrompt => FindsPrompt
  <2>1. SUFFICES ASSUME TypeOK, NoMissedPrompt, Len(Ref) <= Len(text), EndsWith(Len(Ref))
                 PROVE  state = Len(Ref)
    BY DEF FindsPrompt
  <2>2. Len(Ref) \in 1..Len(Ref) /\ state \in 0..Len(Ref)
    BY <2>1, PromptAssumption DEF TypeOK
  <2>3. Len(Ref) <= state
    BY <2>1, <2>2 DEF NoMissedPrompt
  <2>4. QED
    BY <2>2, <2>3
<1>2. QED
  BY <1>1, TypeCorrect, Complete, PTL

-----------------------------------------------------------------------------
(* Whole texts.                                                            *)

\* The state is where the whole text leads to.
WholeText == \E run : Goes(run, Ref, text, 0) /\ run[Len(text)] = state

\* The way through a text is one through its beginning and one through the rest.
LEMMA GoesOn ==
    ASSUME NEW run, Goes(run, Ref, text, 0), TypeOK, NEW n \in 0..Len(text)
    PROVE  /\ Match(Ref, SubSeq(text, 1, n), 0) = run[n]
           /\ Match(Ref, SubSeq(text, n + 1, Len(text)), run[n]) = run[Len(text)]
<1> DEFINE L == Len(text)
           first == SubSeq(text, 1, n)
           rest == SubSeq(text, n + 1, L)
           run1 == [k \in 0..n |-> run[k]]
           run2 == [k \in 0..L - n |-> run[n + k]]
<1>1. L \in Nat /\ Len(Ref) \in Nat \ {0} /\ 0 \in 0..Len(Ref)
  BY PromptAssumption DEF TypeOK
<1>2. run \in [0..L -> 0..Len(Ref)] /\ run[0] = 0
      /\ \A k \in 1..L : run[k] = Advance(Ref, run[k - 1], text[k])
  BY DEF Goes
<1>3. /\ Len(first) = n /\ DOMAIN first = 1..n
      /\ \A k \in 1..n : first[k] = text[k]
  BY <1>1 DEF TypeOK
<1>4. /\ Len(rest) = L - n /\ DOMAIN rest = 1..L - n
      /\ \A k \in 1..L - n : rest[k] = text[n + k]
  BY <1>1 DEF TypeOK
<1>5. Goes(run1, Ref, first, 0)
  <2>1. run1 \in [0..n -> 0..Len(Ref)] /\ run1[0] = 0
    BY <1>2
  <2>2. ASSUME NEW k \in 1..n PROVE run1[k] = Advance(Ref, run1[k - 1], first[k])
    <3>1. k \in 1..L /\ k - 1 \in 0..n /\ k \in 0..n
      BY <1>1
    <3>2. run1[k] = run[k] /\ run1[k - 1] = run[k - 1]
      BY <3>1
    <3> HIDE DEF run1, first
    <3> QED BY <1>2, <1>3, <3>1, <3>2
  <2> HIDE DEF run1, first
  <2> QED BY <1>3, <2>1, <2>2 DEF Goes
<1>6. Goes(run2, Ref, rest, run[n])
  <2>1. run2 \in [0..L - n -> 0..Len(Ref)] /\ run2[0] = run[n]
    BY <1>1, <1>2
  <2>2. ASSUME NEW k \in 1..L - n PROVE run2[k] = Advance(Ref, run2[k - 1], rest[k])
    <3>1. n + k \in 1..L /\ k - 1 \in 0..L - n /\ k \in 0..L - n
          /\ n + (k - 1) = (n + k) - 1
      BY <1>1
    <3>2. run2[k] = run[n + k] /\ run2[k - 1] = run[(n + k) - 1]
      BY <3>1
    <3> HIDE DEF run2, rest
    <3> QED BY <1>2, <1>4, <3>1, <3>2
  <2> HIDE DEF run2, rest
  <2> QED BY <1>4, <2>1, <2>2 DEF Goes
<1>7. run1[n] = run[n] /\ run2[L - n] = run[L]
  BY <1>1
<1>8. run[n] \in 0..Len(Ref)
  BY <1>2
<1> HIDE DEF run1, run2, first, rest
<1>9. Match(Ref, first, 0) = run[n]
  <2>1. PICK g : Goes(g, Ref, first, 0) /\ g[Len(first)] = Match(Ref, first, 0)
    BY <1>1, <1>3, MatchGoes
  <2> QED BY <2>1, <1>3, <1>5, <1>7, OneWay
<1>10. Match(Ref, rest, run[n]) = run[L]
  <2>0. Len(rest) \in Nat
    BY <1>1, <1>4
  <2>1. PICK g : Goes(g, Ref, rest, run[n]) /\ g[Len(rest)] = Match(Ref, rest, run[n])
    BY <1>1, <1>4, <1>8, <2>0, MatchGoes
  <2> QED BY <2>0, <2>1, <1>4, <1>6, <1>7, OneWay
<1> QED BY <1>9, <1>10 DEF first, rest

\* Whatever is written, and wherever the terminal cuts it, match() comes to the
\* same state, for every reference.
THEOREM Seamless == Spec => []CutsDoNotMatter
<1>1. Init => WholeText
  <2> SUFFICES ASSUME Init PROVE WholeText
    OBVIOUS
  <2>1. Goes([k \in {0} |-> 0], Ref, text, 0)
    <3>1. Len(text) = 0 /\ 0..0 = {0} /\ 1..0 = {} /\ 0 \in 0..Len(Ref)
      BY PromptAssumption DEF Init
    <3> QED BY <3>1 DEF Goes
  <2>2. [k \in {0} |-> 0][Len(text)] = state
    BY DEF Init
  <2> QED BY <2>1, <2>2 DEF WholeText
<1>2. TypeOK /\ WholeText /\ [Next]_vars => WholeText'
  <2> SUFFICES ASSUME TypeOK, WholeText, [Next]_vars PROVE WholeText'
    OBVIOUS
  <2>1. CASE UNCHANGED vars
    BY <2>1 DEF vars, WholeText, Goes
  <2>2. ASSUME NEW c \in Chars, Read(c) PROVE WholeText'
    <3>1. PICK run : Goes(run, Ref, text, 0) /\ run[Len(text)] = state
      BY DEF WholeText
    <3>2. PICK L \in Nat : L = Len(text)
      BY DEF TypeOK
    <3>3. Len(text') = L + 1 /\ text'[L + 1] = c /\ \A k \in 1..L : text'[k] = text[k]
      BY <2>2, <3>2 DEF Read, TypeOK
    <3>4. state' = Advance(Ref, state, c) /\ state' \in 0..Len(Ref)
      <4>1. Len(Ref) \in Nat \ {0} /\ state \in 0..Len(Ref)
        BY PromptAssumption DEF TypeOK
      <4>2. state' = Advance(Ref, state, c)
        BY <2>2 DEF Read
      <4> QED BY <4>1, <4>2, AdvanceType
    <3> DEFINE on == [k \in 0..L + 1 |-> IF k = L + 1 THEN state' ELSE run[k]]
    <3>5. run \in [0..L -> 0..Len(Ref)] /\ run[0] = 0 /\ run[L] = state
          /\ \A k \in 1..L : run[k] = Advance(Ref, run[k - 1], text[k])
      BY <3>1, <3>2 DEF Goes
    <3>6. on \in [0..L + 1 -> 0..Len(Ref)]
      BY <3>4, <3>5
    <3>7. on[0] = 0 /\ on[L + 1] = state'
      BY <3>5
    <3>8. ASSUME NEW k \in 1..L + 1 PROVE on[k] = Advance(Ref, on[k - 1], text'[k])
      <4>1. CASE k = L + 1
        <5>1. k - 1 = L /\ on[k] = state' /\ on[k - 1] = state
          BY <3>5, <4>1
        <5> HIDE DEF on
        <5> QED BY <3>3, <3>4, <4>1, <5>1
      <4>2. CASE k # L + 1
        <5>1. k \in 1..L /\ on[k] = run[k] /\ on[k - 1] = run[k - 1]
          BY <4>2
        <5> HIDE DEF on
        <5> QED BY <3>3, <3>5, <5>1
      <4> QED BY <4>1, <4>2
    <3> HIDE DEF on
    <3>9. Goes(on, Ref, text', 0)
      BY <3>3, <3>6, <3>7, <3>8 DEF Goes
    <3> QED BY <3>3, <3>7, <3>9 DEF WholeText, Goes
  <2> QED BY <2>1, <2>2 DEF Next
<1>3. TypeOK /\ WholeText => CutsDoNotMatter
  BY GoesOn DEF WholeText, CutsDoNotMatter
<1> QED BY <1>1, <1>2, <1>3, TypeCorrect, PTL DEF Spec
=============================================================================
