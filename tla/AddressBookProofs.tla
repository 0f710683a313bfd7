-------------------------- MODULE AddressBookProofs --------------------------
(***************************************************************************)
(* Theorems about AddressBook, for any number of processes and persons of  *)
(* any lengths.                                                            *)
(***************************************************************************)
EXTENDS AddressBook, SequenceTheorems, TLAPS

Cells == [by : People, at : Nat \ {0}, of : Nat \ {0}]
Entries == [by : People, size : Nat \ {0}]

-----------------------------------------------------------------------------
(* The invariant, as long as writing overlaps with nothing.                *)

\* Types of the variables.  Nobody is in the file or in a book, and there is
\* no hole.
TypeOK ==
    /\ file \in Seq(Cells)
    /\ pc \in [Adders -> {"start", "read", "prompt", "write", "done", "failed", "killed"}]
    /\ book \in [Adders -> Seq(Entries)]
    /\ pos \in [Adders -> Nat]
    /\ item \in [Adders -> Nat \ {0}]
    /\ cell \in [Adders -> Nat \ {0}]
    /\ entered \subseteq People

\* A person begins at place p of the file.
Begins(p) == p \in DOMAIN file /\ file[p].at = 1

\* The cells of the file make up persons, entered ones, each of them once and
\* one behind the other.  The last one may miss its end.
Start(i) == i - file[i].at + 1
FileInv ==
    /\ \A i \in DOMAIN file :
        /\ file[i].by \in entered
        /\ file[i].at <= file[i].of
        /\ Begins(Start(i))
        /\ file[Start(i)] = Cell(file[i].by, 1, file[i].of)
        /\ file[i].at = file[i].of /\ i < Len(file) => Begins(i + 1)
    /\ \A p \in DOMAIN file : Begins(p) => Unspoilt(p)
    /\ \A p, q \in DOMAIN file : Begins(p) /\ Begins(q) /\ file[p].by = file[q].by => p = q
    /\ Len(file) > 0 => Begins(1)

\* Who is in a book has been entered, or is being, and is in it once.
BookInv(a) ==
    /\ \A i, j \in DOMAIN book[a] : book[a][i].by = book[a][j].by => i = j
    /\ \A i \in DOMAIN book[a] :
        /\ book[a][i].by \in entered \cup {a}
        /\ pc[a] \in {"start", "read"} => book[a][i].by \in entered
    /\ pc[a] = "prompt" => Len(book[a]) > 0

\* Nobody enters a person, or writes, before it has read.
Fresh(a) ==
    /\ pc[a] \in {"start", "read", "prompt"} => a \notin entered /\ item[a] = 1 /\ cell[a] = 1
    /\ pc[a] = "start" => pos[a] = 0 /\ book[a] = <<>>

\* A reader is between two persons, and those it has are behind it.
Reader(a) ==
    pc[a] = "read" =>
        /\ pos[a] <= Len(file)
        /\ pos[a] < Len(file) => Begins(pos[a] + 1)
        /\ \A k \in DOMAIN book[a] :
              \E p \in 1..pos[a] : Begins(p) /\ file[p].by = book[a][k].by

\* A writer is at the end of the file, which has only people of its book up to
\* the one it is writing.
Begun(a, k) == k < item[a] \/ (k = item[a] /\ cell[a] > 1)
Writer(a) ==
    pc[a] = "write" =>
        /\ a \in entered
        /\ pos[a] = Len(file)
        /\ item[a] <= Len(book[a])
        /\ cell[a] <= book[a][item[a]].size
        /\ \A p \in DOMAIN file : Begins(p) =>
              \E k \in DOMAIN book[a] : Begun(a, k) /\ file[p].by = book[a][k].by
        /\ cell[a] > 1 =>
              /\ Len(file) > 0
              /\ file[Len(file)] =
                    Cell(book[a][item[a]].by, cell[a] - 1, book[a][item[a]].size)
        /\ cell[a] = 1 /\ Len(file) > 0 => file[Len(file)].at = file[Len(file)].of

IInv ==
    /\ TypeOK /\ FileInv
    /\ \A a \in Adders : BookInv(a) /\ Fresh(a) /\ Reader(a) /\ Writer(a)

-----------------------------------------------------------------------------
LEMMA Sizes ==
    /\ Old \in People /\ Old \notin Adders /\ Nobody \notin People
    /\ \A a \in Adders : a \in People
    /\ \A x \in People : Size[x] \in Nat \ {0}
    /\ \A a \in Adders : Own(a) \in Entries /\ Own(a).by = a /\ Own(a).size = Size[a]
    /\ \A x \in People, j, n \in Nat \ {0} : Cell(x, j, n) \in Cells
    /\ \A x, j, n : Cell(x, j, n).by = x /\ Cell(x, j, n).at = j /\ Cell(x, j, n).of = n
    /\ \A x \in People, n \in Nat \ {0} : Entry(x, n) \in Entries
    /\ \A x, n : Entry(x, n).by = x /\ Entry(x, n).size = n
BY AddressBookAssumption DEF People, Own, Entry, Entries, Cell, Cells

\* What TypeOK says of the places of the file and of a book.
LEMMA Places ==
    ASSUME TypeOK
    PROVE  /\ Len(file) \in Nat /\ DOMAIN file = 1..Len(file)
           /\ \A i \in DOMAIN file :
                 /\ file[i] \in Cells /\ file[i].by \in People
                 /\ file[i].at \in Nat \ {0} /\ file[i].of \in Nat \ {0}
                 /\ i \in Nat \ {0} /\ i <= Len(file)
           /\ \A a \in Adders :
                 /\ Len(book[a]) \in Nat /\ DOMAIN book[a] = 1..Len(book[a])
                 /\ \A k \in DOMAIN book[a] :
                       /\ book[a][k] \in Entries /\ book[a][k].by \in People
                       /\ book[a][k].size \in Nat \ {0} /\ k \in Nat \ {0}
<1>1. Len(file) \in Nat /\ DOMAIN file = 1..Len(file) /\ \A i \in 1..Len(file) : file[i] \in Cells
  BY DEF TypeOK
<1>2. \A c \in Cells : c.by \in People /\ c.at \in Nat \ {0} /\ c.of \in Nat \ {0}
  BY DEF Cells
<1>3. \A e \in Entries : e.by \in People /\ e.size \in Nat \ {0}
  BY DEF Entries
<1>4. ASSUME NEW a \in Adders
      PROVE  /\ Len(book[a]) \in Nat /\ DOMAIN book[a] = 1..Len(book[a])
             /\ \A k \in 1..Len(book[a]) : book[a][k] \in Entries
  <2>1. book[a] \in Seq(Entries)
    BY DEF TypeOK
  <2> QED BY <2>1
<1> QED BY <1>1, <1>2, <1>3, <1>4

LEMMA InitInv == Init => IInv
<1> SUFFICES ASSUME Init PROVE IInv
  OBVIOUS
<1> DEFINE n == Size[Old]
<1>1. /\ n \in Nat \ {0} /\ Old \in People /\ entered = {Old}
      /\ file = [j \in 1..n |-> Cell(Old, j, n)]
  BY Sizes DEF Init
<1> HIDE DEF n
<1>2. /\ file \in Seq(Cells) /\ Len(file) = n /\ DOMAIN file = 1..n
      /\ \A i \in 1..n : file[i] = Cell(Old, i, n)
  <2>1. file \in [1..n -> Cells]
    BY <1>1, Sizes
  <2> QED BY <2>1, <1>1, IsASeq, LenProperties
<1>3. TypeOK
  BY <1>1, <1>2 DEF TypeOK, Init
<1>4. \A i \in 1..n : file[i].by = Old /\ file[i].at = i /\ file[i].of = n
  BY <1>2, Sizes
<1>5. \A p : Begins(p) <=> p = 1
  BY <1>1, <1>2, <1>4 DEF Begins
<1>6. FileInv
  <2>1. \A i \in DOMAIN file : Start(i) = 1
    BY <1>1, <1>2, <1>4 DEF Start
  <2>2. Unspoilt(1)
    BY <1>1, <1>2, <1>4 DEF Unspoilt
  <2> QED BY <1>1, <1>2, <1>4, <1>5, <2>1, <2>2 DEF FileInv
<1>7. \A a \in Adders : BookInv(a) /\ Fresh(a) /\ Reader(a) /\ Writer(a)
  <2> TAKE a \in Adders
  <2>1. pc[a] = "start" /\ book[a] = <<>> /\ pos[a] = 0 /\ item[a] = 1 /\ cell[a] = 1
    BY DEF Init
  <2>2. a \notin entered /\ DOMAIN book[a] = {}
    BY <1>1, <2>1, Sizes
  <2> QED BY <2>1, <2>2 DEF BookInv, Fresh, Reader, Writer
<1> QED BY <1>3, <1>6, <1>7 DEF IInv

\* FileInv depends on the file only, and on who has been entered by then.
LEMMA FileStays ==
    ASSUME FileInv, file' = file, entered \subseteq entered'
    PROVE  FileInv'
BY DEF FileInv, Begins, Start, Unspoilt

\* What becomes of a process that another one leaves alone.
LEMMA OthersStay ==
    ASSUME TypeOK, NEW b \in Adders, BookInv(b), Fresh(b), Reader(b), Writer(b),
           pc'[b] = pc[b], book'[b] = book[b], pos'[b] = pos[b], item'[b] = item[b],
           cell'[b] = cell[b], entered \subseteq entered',
           b \in entered' => b \in entered,
           pc[b] \in {"read", "write"} => file' = file
    PROVE  BookInv(b)' /\ Fresh(b)' /\ Reader(b)' /\ Writer(b)'
<1>1. BookInv(b)' /\ Fresh(b)'
  BY DEF BookInv, Fresh
<1>2. Reader(b)' /\ Writer(b)'
  BY DEF Reader, Writer, Begins, Begun
<1> QED BY <1>1, <1>2

-----------------------------------------------------------------------------
(* Reading.                                                                *)

\* A reader finds a person where it reads on.
LEMMA ReadsPerson ==
    ASSUME IInv, NEW a \in Adders, Reads(a)
    PROVE  /\ pos[a] \in Nat /\ At(a) \in DOMAIN file /\ Begins(At(a)) /\ Unspoilt(At(a))
           /\ file[At(a)] # Hole
           /\ \A k \in DOMAIN book[a] : book[a][k].by # file[At(a)].by
           /\ file[At(a)].by \in entered
<1>1. /\ pos[a] \in Nat /\ pc[a] = "read" /\ pos[a] + 1 <= Len(file)
  BY DEF IInv, TypeOK, Reads, At
<1>2. Len(file) \in Nat /\ DOMAIN file = 1..Len(file)
  BY Places DEF IInv
<1>3. At(a) \in DOMAIN file /\ Begins(At(a))
  BY <1>1, <1>2 DEF IInv, Reader, At
<1>4. Unspoilt(At(a)) /\ file[At(a)].by \in entered
  BY <1>3 DEF IInv, FileInv
<1>5. file[At(a)] # Hole
  <2>1. file[At(a)].at = 1 /\ Hole.at = 0
    BY <1>3, Sizes DEF Begins, Hole
  <2> QED BY <2>1
<1>6. ASSUME NEW k \in DOMAIN book[a], book[a][k].by = file[At(a)].by PROVE FALSE
  <2>1. PICK p \in 1..pos[a] : Begins(p) /\ file[p].by = book[a][k].by
    BY <1>1 DEF IInv, Reader
  <2>2. p = At(a)
    BY <1>3, <1>6, <2>1 DEF IInv, FileInv, Begins
  <2> QED BY <1>1, <2>1, <2>2 DEF At
<1> QED BY <1>1, <1>3, <1>4, <1>5, <1>6

\* b is what a read, nobody twice.
LEMMA PromptsInv ==
    ASSUME IInv, NEW a \in Adders, pc[a] \in {"start", "read"},
           NEW b \in Seq(Entries), Prompts(a, b),
           \A i \in DOMAIN b : b[i].by \in entered,
           \A i, j \in DOMAIN b : b[i].by = b[j].by => i = j
    PROVE  IInv'
<1> DEFINE c == Append(b, Own(a))
<1>1. /\ book' = [book EXCEPT ![a] = c] /\ pc' = [pc EXCEPT ![a] = "prompt"]
      /\ UNCHANGED <<file, pos, item, cell, entered, full>>
  BY DEF Prompts
<1>2. /\ c \in Seq(Entries) /\ Len(b) \in Nat /\ Len(c) = Len(b) + 1
      /\ DOMAIN b = 1..Len(b) /\ DOMAIN c = 1..(Len(b) + 1)
      /\ \A i \in 1..Len(b) : c[i] = b[i]
      /\ c[Len(b) + 1] = Own(a)
  <2>1. Own(a) \in Entries
    BY Sizes
  <2>2. c \in Seq(Entries) /\ Len(c) = Len(b) + 1
    BY <2>1, AppendProperties
  <2>3. (\A i \in 1..Len(b) : c[i] = b[i]) /\ c[Len(b) + 1] = Own(a)
    BY <2>1, AppendProperties
  <2> QED BY <2>2, <2>3
<1>3. a \notin entered /\ item[a] = 1 /\ cell[a] = 1 /\ Own(a).by = a
  BY Sizes DEF IInv, Fresh
<1> HIDE DEF c
<1>4. book'[a] = c /\ pc'[a] = "prompt" /\ \A d \in Adders : d # a => pc'[d] = pc[d] /\ book'[d] = book[d]
  BY <1>1 DEF IInv, TypeOK
<1>5. TypeOK'
  BY <1>1, <1>2 DEF IInv, TypeOK
<1>6. FileInv'
  BY <1>1, FileStays DEF IInv
<1>7. BookInv(a)' /\ Fresh(a)' /\ Reader(a)' /\ Writer(a)'
  <2>1. \A i \in DOMAIN c : (i \in 1..Len(b) \/ i = Len(b) + 1)
    BY <1>2
  <2>2. \A i \in DOMAIN c : c[i].by \in entered \cup {a}
    BY <1>2, <1>3, <2>1
  <2>3. \A i, j \in DOMAIN c : c[i].by = c[j].by => i = j
    BY <1>2, <1>3, <2>1
  <2>4. BookInv(a)'
    BY <1>1, <1>2, <1>4, <2>2, <2>3 DEF BookInv
  <2> QED BY <1>1, <1>3, <1>4, <2>4 DEF Fresh, Reader, Writer
<1>8. \A d \in Adders \ {a} : BookInv(d)' /\ Fresh(d)' /\ Reader(d)' /\ Writer(d)'
  BY <1>1, <1>4, OthersStay DEF IInv
<1> QED BY <1>5, <1>6, <1>7, <1>8 DEF IInv

LEMMA OpenInv == ASSUME IInv, NEW a \in Adders, Open(a) PROVE IInv'
<1>1. /\ pc[a] = "start" /\ pc' = [pc EXCEPT ![a] = "read"]
      /\ UNCHANGED <<file, book, pos, item, cell, entered, full>>
  BY DEF Open
<1>2. TypeOK' /\ FileInv'
  BY <1>1, FileStays DEF IInv, TypeOK
<1>3. pc'[a] = "read" /\ \A d \in Adders : d # a => pc'[d] = pc[d]
  BY <1>1 DEF IInv, TypeOK
<1>4. BookInv(a)' /\ Fresh(a)' /\ Reader(a)' /\ Writer(a)'
  <2>1. pos[a] = 0 /\ book[a] = <<>> /\ Len(file) \in Nat /\ (Len(file) > 0 => Begins(1))
    BY <1>1, Places DEF IInv, Fresh, FileInv
  <2>2. DOMAIN book[a] = {}
    BY <2>1
  <2> QED BY <1>1, <1>3, <2>1, <2>2 DEF IInv, BookInv, Fresh, Reader, Writer, Begins
<1>5. \A d \in Adders \ {a} : BookInv(d)' /\ Fresh(d)' /\ Reader(d)' /\ Writer(d)'
  BY <1>1, <1>3, OthersStay DEF IInv
<1> QED BY <1>2, <1>4, <1>5 DEF IInv

LEMMA ReadFailsInv == ASSUME IInv, NEW a \in Adders, ReadFails(a) PROVE IInv'
<1>1. <<>> \in Seq(Entries) /\ DOMAIN <<>> = {}
  OBVIOUS
<1> QED BY <1>1, PromptsInv DEF ReadFails

LEMMA ReadEndsInv == ASSUME IInv, NEW a \in Adders, ReadEnds(a) PROVE IInv'
<1>1. pc[a] = "read" /\ Prompts(a, book[a]) /\ book[a] \in Seq(Entries)
  BY DEF ReadEnds, IInv, TypeOK
<1>2. /\ \A i \in DOMAIN book[a] : book[a][i].by \in entered
      /\ \A i, j \in DOMAIN book[a] : book[a][i].by = book[a][j].by => i = j
  BY <1>1 DEF IInv, BookInv
<1> QED BY <1>1, <1>2, PromptsInv

\* A person that is read is added to those a reader has.
With(a, n) == Append(book[a], Entry(file[At(a)].by, n))

LEMMA OneMore ==
    ASSUME IInv, NEW a \in Adders, Reads(a), NEW n \in Nat \ {0}
    PROVE  /\ With(a, n) \in Seq(Entries) /\ Len(With(a, n)) = Len(book[a]) + 1
           /\ DOMAIN With(a, n) = 1..(Len(book[a]) + 1)
           /\ \A i \in DOMAIN book[a] : With(a, n)[i] = book[a][i]
           /\ With(a, n)[Len(book[a]) + 1] = Entry(file[At(a)].by, n)
           /\ \A i \in DOMAIN With(a, n) : i \in DOMAIN book[a] \/ i = Len(book[a]) + 1
           /\ \A i \in DOMAIN With(a, n) : With(a, n)[i].by \in entered
           /\ \A i, j \in DOMAIN With(a, n) : With(a, n)[i].by = With(a, n)[j].by => i = j
<1> DEFINE e == Entry(file[At(a)].by, n)
           s == book[a]
           b == With(a, n)
<1>1. /\ file[At(a)].by \in entered /\ file[At(a)].by \in People
      /\ \A k \in DOMAIN s : s[k].by # file[At(a)].by
  BY ReadsPerson, Places DEF IInv
<1>2. e \in Entries /\ e.by = file[At(a)].by
  BY <1>1, Sizes
<1>3. /\ s \in Seq(Entries) /\ Len(s) \in Nat /\ DOMAIN s = 1..Len(s)
      /\ \A i \in DOMAIN s : s[i].by \in entered
      /\ \A i, j \in DOMAIN s : s[i].by = s[j].by => i = j
  BY Places DEF IInv, TypeOK, BookInv, Reads
<1>4. b = Append(s, e)
  BY DEF With
<1> HIDE DEF e, s, b
<1>5. b \in Seq(Entries) /\ Len(b) = Len(s) + 1
  BY <1>2, <1>3, <1>4, AppendProperties
<1>6. (\A i \in 1..Len(s) : b[i] = s[i]) /\ b[Len(s) + 1] = e
  BY <1>2, <1>3, <1>4, AppendProperties
<1>7. DOMAIN b = 1..(Len(s) + 1)
  BY <1>5
<1>8. \A i \in DOMAIN b : i \in DOMAIN s \/ i = Len(s) + 1
  BY <1>3, <1>7
<1>9. \A i \in DOMAIN b : b[i].by \in entered
  BY <1>1, <1>2, <1>3, <1>6, <1>8
<1>10. \A i, j \in DOMAIN b : b[i].by = b[j].by => i = j
  BY <1>1, <1>2, <1>3, <1>6, <1>8
<1> QED BY <1>3, <1>5, <1>6, <1>7, <1>8, <1>9, <1>10 DEF e, s, b

LEMMA ReadCutInv == ASSUME IInv, NEW a \in Adders, ReadCut(a) PROVE IInv'
<1>1. Reads(a) /\ pc[a] = "read"
  BY DEF ReadCut, Reads
<1>2. PICK k \in 0..(Len(file) - pos[a]) :
        Prompts(a, IF k = 0 THEN book[a] ELSE Append(book[a], Entry(file[At(a)].by, k)))
  BY DEF ReadCut
<1>3. k \in Nat
  BY Places DEF IInv, TypeOK
<1>4. CASE k = 0
  <2>1. /\ book[a] \in Seq(Entries) /\ Prompts(a, book[a])
        /\ \A i \in DOMAIN book[a] : book[a][i].by \in entered
        /\ \A i, j \in DOMAIN book[a] : book[a][i].by = book[a][j].by => i = j
    BY <1>1, <1>2, <1>4 DEF IInv, TypeOK, BookInv
  <2> QED BY <1>1, <2>1, PromptsInv
<1>5. CASE k # 0
  <2>1. Prompts(a, With(a, k)) /\ k \in Nat \ {0}
    BY <1>2, <1>3, <1>5 DEF With
  <2>2. /\ With(a, k) \in Seq(Entries)
        /\ \A i \in DOMAIN With(a, k) : With(a, k)[i].by \in entered
        /\ \A i, j \in DOMAIN With(a, k) : With(a, k)[i].by = With(a, k)[j].by => i = j
    BY <1>1, <2>1, OneMore
  <2> QED BY <1>1, <2>1, <2>2, PromptsInv
<1> QED BY <1>4, <1>5

\* Behind a whole person another one begins, or the file ends.
LEMMA BehindWhole ==
    ASSUME TypeOK, FileInv, NEW p \in DOMAIN file, Whole(p)
    PROVE  /\ p + file[p].of - 1 \in Nat /\ p <= p + file[p].of - 1
           /\ p + file[p].of - 1 <= Len(file)
           /\ p + file[p].of - 1 < Len(file) => Begins(p + file[p].of)
           /\ \A q \in DOMAIN file : q > p /\ q < p + file[p].of => ~Begins(q)
<1> DEFINE n == file[p].of
           q0 == p + n - 1
<1>1. /\ n \in Nat \ {0} /\ p \in Nat \ {0} /\ Len(file) \in Nat /\ DOMAIN file = 1..Len(file)
  BY Places
<1>2. /\ p + n <= Len(file) + 1
      /\ \A q \in p..Len(file) : q < p + n => file[q] = Cell(file[p].by, q - p + 1, n)
  BY DEF Whole, Unspoilt
<1> HIDE DEF n
<1>3. q0 \in DOMAIN file /\ p <= q0 /\ q0 <= Len(file) /\ q0 \in p..Len(file) /\ q0 < p + n
  BY <1>1, <1>2
<1>4. file[q0] = Cell(file[p].by, q0 - p + 1, n)
  BY <1>2, <1>3
<1>5. file[q0].at = n /\ file[q0].of = n
  <2>1. q0 - p + 1 = n
    BY <1>1
  <2> QED BY <1>4, <2>1, Sizes
<1>6. q0 < Len(file) => Begins(q0 + 1)
  BY <1>3, <1>5 DEF FileInv
<1>7. q0 + 1 = p + n
  BY <1>1
<1>8. ASSUME NEW q \in DOMAIN file, q > p, q < p + n PROVE ~Begins(q)
  <2>1. file[q] = Cell(file[p].by, q - p + 1, n) /\ q - p + 1 # 1
    BY <1>1, <1>2, <1>8
  <2>2. file[q].at # 1
    BY <2>1, Sizes
  <2> QED BY <2>2 DEF Begins
<1> QED BY <1>1, <1>3, <1>6, <1>7, <1>8 DEF n

LEMMA ReadPersonInv == ASSUME IInv, NEW a \in Adders, ReadPerson(a) PROVE IInv'
<1> DEFINE p == At(a)
           n == file[p].of
           b == With(a, n)
<1>1. /\ Reads(a) /\ Whole(p) /\ pc[a] = "read"
      /\ book' = [book EXCEPT ![a] = b] /\ pos' = [pos EXCEPT ![a] = @ + n]
      /\ UNCHANGED <<file, pc, item, cell, entered, full>>
  BY DEF ReadPerson, Reads, With
<1>2. /\ p \in DOMAIN file /\ Begins(p) /\ pos[a] \in Nat /\ p = pos[a] + 1
      /\ file[p].by \in entered
  BY <1>1, ReadsPerson DEF At
<1>3. n \in Nat \ {0} /\ Len(file) \in Nat /\ DOMAIN file = 1..Len(file) /\ Len(book[a]) \in Nat
  BY <1>2, Places DEF IInv
<1>4. /\ p + n - 1 <= Len(file)
      /\ p + n - 1 < Len(file) => Begins(p + n)
  BY <1>1, <1>2, BehindWhole DEF IInv
<1>5. /\ b \in Seq(Entries) /\ Len(b) = Len(book[a]) + 1
      /\ \A i \in DOMAIN book[a] : b[i] = book[a][i]
      /\ b[Len(book[a]) + 1] = Entry(file[p].by, n)
      /\ \A i \in DOMAIN b : i \in DOMAIN book[a] \/ i = Len(book[a]) + 1
      /\ \A i \in DOMAIN b : b[i].by \in entered
      /\ \A i, j \in DOMAIN b : b[i].by = b[j].by => i = j
  BY <1>1, <1>3, OneMore
<1>6. Entry(file[p].by, n).by = file[p].by
  BY Sizes
<1> HIDE DEF p, n, b
<1>7. /\ book'[a] = b /\ pos'[a] = pos[a] + n /\ pos'[a] = p + n - 1 /\ pos[a] + n \in Nat
      /\ pos'[a] + 1 = p + n /\ p \in 1..pos'[a] /\ \A q \in 1..pos[a] : q \in 1..pos'[a]
      /\ \A d \in Adders : d # a => book'[d] = book[d] /\ pos'[d] = pos[d]
  <2>1. book'[a] = b /\ \A d \in Adders : d # a => book'[d] = book[d]
    BY <1>1 DEF IInv, TypeOK
  <2>2. pos'[a] = pos[a] + n /\ \A d \in Adders : d # a => pos'[d] = pos[d]
    BY <1>1 DEF IInv, TypeOK
  <2>3. /\ pos[a] + n = p + n - 1 /\ pos[a] + n \in Nat /\ pos[a] + n + 1 = p + n
        /\ p \in 1..(pos[a] + n) /\ \A q \in 1..pos[a] : q \in 1..(pos[a] + n)
    <3> DEFINE m == pos[a]
    <3>1. m \in Nat /\ p = m + 1 /\ n \in Nat \ {0}
      BY <1>2, <1>3
    <3> HIDE DEF m
    <3> QED BY <3>1 DEF m
  <2> QED BY <2>1, <2>2, <2>3
<1>8. TypeOK' /\ FileInv'
  BY <1>1, <1>5, <1>7, FileStays DEF IInv, TypeOK
<1>9. BookInv(a)' /\ Fresh(a)' /\ Writer(a)'
  BY <1>1, <1>5, <1>7 DEF IInv, BookInv, Fresh, Writer
<1>10. Reader(a)'
  <2>1. ASSUME NEW k \in DOMAIN b
        PROVE  \E q \in 1..pos'[a] : Begins(q) /\ file[q].by = b[k].by
    <3>1. CASE k \in DOMAIN book[a]
      <4>1. PICK q \in 1..pos[a] : Begins(q) /\ file[q].by = book[a][k].by
        BY <1>1, <3>1 DEF IInv, Reader
      <4>2. q \in 1..pos'[a] /\ b[k] = book[a][k]
        BY <4>1, <3>1, <1>5, <1>7
      <4> QED BY <4>1, <4>2
    <3>2. CASE k = Len(book[a]) + 1
      BY <3>2, <1>2, <1>5, <1>6, <1>7
    <3> QED BY <3>1, <3>2, <1>5
  <2> QED BY <1>1, <1>4, <1>7, <2>1 DEF Reader, Begins
<1>11. \A d \in Adders \ {a} : BookInv(d)' /\ Fresh(d)' /\ Reader(d)' /\ Writer(d)'
  BY <1>1, <1>7, OthersStay DEF IInv
<1> QED BY <1>8, <1>9, <1>10, <1>11 DEF IInv

-----------------------------------------------------------------------------
(* Writing.                                                                *)

LEMMA TruncateInv == ASSUME IInv, Apart', NEW a \in Adders, Truncate(a) PROVE IInv'
<1>1. /\ pc[a] = "prompt" /\ pc' = [pc EXCEPT ![a] = "write"]
      /\ entered' = entered \cup {a} /\ file' = <<>> /\ pos' = [pos EXCEPT ![a] = 0]
      /\ UNCHANGED <<book, item, cell, full>>
  BY DEF Truncate
<1>2. /\ pc'[a] = "write" /\ pos'[a] = 0 /\ Len(file') = 0 /\ DOMAIN file' = {}
      /\ \A d \in Adders : d # a => pc'[d] = pc[d] /\ pos'[d] = pos[d]
  BY <1>1 DEF IInv, TypeOK
<1>3. TypeOK'
  BY <1>1, Sizes DEF IInv, TypeOK
<1>4. FileInv'
  BY <1>2 DEF FileInv
<1>5. item[a] = 1 /\ cell[a] = 1 /\ Len(book[a]) \in Nat \ {0} /\ book[a][1].size \in Nat \ {0}
  <2>1. item[a] = 1 /\ cell[a] = 1 /\ Len(book[a]) > 0
    BY <1>1 DEF IInv, Fresh, BookInv
  <2>2. Len(book[a]) \in Nat /\ DOMAIN book[a] = 1..Len(book[a])
    BY Places DEF IInv
  <2>3. 1 \in DOMAIN book[a]
    BY <2>1, <2>2
  <2> QED BY <2>1, <2>2, <2>3, Places DEF IInv
<1>6. BookInv(a)' /\ Fresh(a)' /\ Reader(a)' /\ Writer(a)'
  <2>1. BookInv(a)' /\ Fresh(a)' /\ Reader(a)'
    BY <1>1, <1>2 DEF IInv, BookInv, Fresh, Reader
  <2>2. Writer(a)'
    BY <1>1, <1>2, <1>5 DEF Writer
  <2> QED BY <2>1, <2>2
<1>7. \A d \in Adders \ {a} : BookInv(d)' /\ Fresh(d)' /\ Reader(d)' /\ Writer(d)'
  <2> TAKE d \in Adders \ {a}
  <2>1. pc'[d] \notin {"read", "write"}
    BY <1>2 DEF Apart
  <2> QED BY <1>1, <1>2, <2>1, OthersStay DEF IInv
<1> QED BY <1>3, <1>4, <1>6, <1>7 DEF IInv

\* A process comes to its end.
LEMMA EndInv ==
    ASSUME IInv, NEW a \in Adders, NEW s \in {"done", "failed", "killed"},
           pc' = [pc EXCEPT ![a] = s],
           entered' \in {entered, entered \cup {a}},
           UNCHANGED <<file, book, pos, item, cell>>
    PROVE  IInv'
<1>1. pc'[a] = s /\ \A d \in Adders : d # a => pc'[d] = pc[d]
  BY DEF IInv, TypeOK
<1>2. TypeOK' /\ FileInv'
  BY Sizes, FileStays DEF IInv, TypeOK
<1>3. BookInv(a)' /\ Fresh(a)' /\ Reader(a)' /\ Writer(a)'
  BY <1>1 DEF IInv, BookInv, Fresh, Reader, Writer
<1>4. \A d \in Adders \ {a} : BookInv(d)' /\ Fresh(d)' /\ Reader(d)' /\ Writer(d)'
  BY <1>1, OthersStay DEF IInv
<1> QED BY <1>2, <1>3, <1>4 DEF IInv

\* The entry that a is writing, and the cell of it that comes next.
Current(a) == book[a][item[a]]
NextCell(a) == Cell(Current(a).by, cell[a], Current(a).size)

\* A write adds one cell at the end of the file.
LEMMA WriteAppends ==
    ASSUME IInv, NEW a \in Adders, Write(a)
    PROVE  /\ pc[a] = "write" /\ item[a] \in DOMAIN book[a]
           /\ Current(a).by \in People /\ Current(a).by \in entered
           /\ Current(a).size \in Nat \ {0} /\ cell[a] \in Nat \ {0}
           /\ cell[a] <= Current(a).size
           /\ file' \in Seq(Cells) /\ Len(file') = Len(file) + 1
           /\ DOMAIN file' = 1..(Len(file) + 1)
           /\ \A i \in DOMAIN file : i \in DOMAIN file' /\ file'[i] = file[i]
           /\ \A i \in DOMAIN file' : i \in DOMAIN file \/ i = Len(file) + 1
           /\ file'[Len(file) + 1] = NextCell(a)
           /\ NextCell(a).by = Current(a).by /\ NextCell(a).at = cell[a]
           /\ NextCell(a).of = Current(a).size
<1> DEFINE n == Len(file)
           c == NextCell(a)
<1>1. /\ pc[a] = "write" /\ file' = Put(At(a), c)
  BY DEF Write, NextCell, Current
<1>2. /\ pos[a] = n /\ item[a] <= Len(book[a]) /\ cell[a] <= Current(a).size
      /\ item[a] \in Nat \ {0} /\ cell[a] \in Nat \ {0}
  BY <1>1 DEF IInv, Writer, TypeOK, Current
<1>3. item[a] \in DOMAIN book[a] /\ n \in Nat /\ DOMAIN file = 1..n
      /\ \A i \in 1..n : file[i] \in Cells
  <2>1. Len(book[a]) \in Nat /\ DOMAIN book[a] = 1..Len(book[a])
    BY Places DEF IInv
  <2> QED BY <1>2, <2>1, Places DEF IInv
<1>4. Current(a).by \in People /\ Current(a).size \in Nat \ {0}
  BY <1>3, Places DEF IInv, Current
<1>5. a \in entered
  <2>1. pc[a] = "write"
    BY <1>1
  <2> QED BY <2>1 DEF IInv, Writer
<1>6. Current(a).by \in entered
  BY <1>3, <1>5 DEF IInv, BookInv, Current
<1>7. c \in Cells /\ c.by = Current(a).by /\ c.at = cell[a] /\ c.of = Current(a).size
  BY <1>2, <1>4, Sizes DEF NextCell
<1> HIDE DEF c
<1>8. file' = [q \in 1..(n + 1) |-> IF q = n + 1 THEN c ELSE file[q]]
  <2>1. At(a) = n + 1 /\ n + 1 > n
    BY <1>2, <1>3 DEF At
  <2>2. file' = [q \in 1..(n + 1) |-> IF q = n + 1 THEN c ELSE IF q <= n THEN file[q] ELSE Hole]
    BY <1>1, <2>1 DEF Put
  <2>3. \A q \in 1..(n + 1) : q = n + 1 \/ q <= n
    BY <1>3
  <2> QED BY <2>2, <2>3
<1>9. /\ \A q \in 1..(n + 1) : q \in 1..n \/ q = n + 1
      /\ \A q \in 1..n : q \in 1..(n + 1) /\ q # n + 1
      /\ n + 1 \in 1..(n + 1) /\ n + 1 \in Nat
  BY <1>3
<1>10. file' \in [1..(n + 1) -> Cells]
  BY <1>3, <1>7, <1>8, <1>9
<1>11. file' \in Seq(Cells) /\ Len(file') = n + 1
  BY <1>9, <1>10, IsASeq, LenProperties
<1> QED BY <1>1, <1>2, <1>3, <1>4, <1>6, <1>7, <1>8, <1>9, <1>11 DEF c

\* The new cell belongs to the last person of the file, or begins one that is
\* not in it.
LEMMA WriteContinues ==
    ASSUME IInv, NEW a \in Adders, Write(a)
    PROVE  /\ cell[a] > 1 =>
                 /\ Len(file) \in DOMAIN file
                 /\ file[Len(file)].by = Current(a).by
                 /\ file[Len(file)].at = cell[a] - 1
                 /\ file[Len(file)].of = Current(a).size
           /\ cell[a] = 1 =>
                 /\ Len(file) > 0 => file[Len(file)].at = file[Len(file)].of
                 /\ \A p \in DOMAIN file : Begins(p) => file[p].by # Current(a).by
           /\ Len(file) = 0 => cell[a] = 1
<1>1. /\ pc[a] = "write" /\ Writer(a) /\ cell[a] \in Nat \ {0}
      /\ item[a] \in DOMAIN book[a] /\ item[a] \in Nat
  BY WriteAppends DEF IInv, TypeOK
<1>2. Len(file) \in Nat /\ DOMAIN file = 1..Len(file)
  BY Places DEF IInv
<1>3. ASSUME cell[a] > 1
      PROVE  /\ Len(file) \in DOMAIN file
             /\ file[Len(file)] = Cell(Current(a).by, cell[a] - 1, Current(a).size)
  BY <1>1, <1>2, <1>3 DEF Writer, Current
<1>4. ASSUME cell[a] = 1, NEW p \in DOMAIN file, Begins(p), file[p].by = Current(a).by
      PROVE  FALSE
  <2>1. PICK k \in DOMAIN book[a] : Begun(a, k) /\ file[p].by = book[a][k].by
    BY <1>1, <1>4 DEF Writer
  <2>2. k = item[a]
    <3>1. \A i, j \in DOMAIN book[a] : book[a][i].by = book[a][j].by => i = j
      BY DEF IInv, BookInv
    <3> QED BY <1>1, <1>4, <2>1, <3>1 DEF Current
  <2> QED BY <1>1, <1>4, <2>1, <2>2 DEF Begun
<1>5. cell[a] = 1 /\ Len(file) > 0 => file[Len(file)].at = file[Len(file)].of
  BY <1>1 DEF Writer
<1>6. Len(file) = 0 => cell[a] = 1
  BY <1>1, <1>2 DEF Writer
<1> QED BY <1>3, <1>4, <1>5, <1>6, Sizes

\* Where the persons begin once a cell has been added.
LEMMA WriteBegins ==
    ASSUME IInv, NEW a \in Adders, Write(a)
    PROVE  /\ \A p \in DOMAIN file : Begins(p)' <=> Begins(p)
           /\ \A p : p = Len(file) + 1 => (Begins(p)' <=> cell[a] = 1)
           /\ \A p : Begins(p)' => p \in DOMAIN file \/ p = Len(file) + 1
<1>1. /\ \A i \in DOMAIN file : i \in DOMAIN file' /\ file'[i] = file[i]
      /\ \A i \in DOMAIN file' : i \in DOMAIN file \/ i = Len(file) + 1
      /\ Len(file) + 1 \in DOMAIN file' /\ file'[Len(file) + 1].at = cell[a]
  BY WriteAppends, Places DEF IInv
<1> QED BY <1>1 DEF Begins

LEMMA WriteFileInv == ASSUME IInv, NEW a \in Adders, Write(a) PROVE FileInv'
<1> DEFINE n == Len(file)
           x == Current(a).by
           size == Current(a).size
           c == NextCell(a)
<1>1. /\ x \in entered /\ entered' = entered
      /\ size \in Nat \ {0} /\ cell[a] \in Nat \ {0} /\ cell[a] <= size
      /\ Len(file') = n + 1 /\ DOMAIN file' = 1..(n + 1)
      /\ \A i \in DOMAIN file : i \in DOMAIN file' /\ file'[i] = file[i]
      /\ \A i \in DOMAIN file' : i \in DOMAIN file \/ i = n + 1
      /\ file'[n + 1] = c /\ c.by = x /\ c.at = cell[a] /\ c.of = size
  BY WriteAppends DEF Write
<1>2. /\ n \in Nat /\ DOMAIN file = 1..n
      /\ \A i \in DOMAIN file : /\ file[i].at \in Nat \ {0} /\ file[i].of \in Nat \ {0}
                                /\ i \in Nat \ {0} /\ i <= n
  BY Places DEF IInv
<1>3. /\ cell[a] > 1 =>
            /\ n \in DOMAIN file
            /\ file[n].by = x /\ file[n].at = cell[a] - 1 /\ file[n].of = size
      /\ cell[a] = 1 =>
            /\ n > 0 => file[n].at = file[n].of
            /\ \A p \in DOMAIN file : Begins(p) => file[p].by # x
      /\ n = 0 => cell[a] = 1
  BY WriteContinues
<1>4. /\ \A p \in DOMAIN file : Begins(p)' <=> Begins(p)
      /\ \A p : p = n + 1 => (Begins(p)' <=> cell[a] = 1)
      /\ \A p : Begins(p)' => p \in DOMAIN file \/ p = n + 1
  BY WriteBegins
<1>5. c = Cell(x, cell[a], size)
  BY DEF NextCell
<1> HIDE DEF n, x, size, c
<1>6. ASSUME NEW i \in DOMAIN file'
      PROVE  /\ file'[i].by \in entered' /\ file'[i].at <= file'[i].of
             /\ Begins(Start(i))'
             /\ file'[Start(i)'] = Cell(file'[i].by, 1, file'[i].of)
             /\ file'[i].at = file'[i].of /\ i < Len(file') => Begins(i + 1)'
  <2>1. CASE i \in DOMAIN file
    <3>1. /\ file'[i] = file[i] /\ Start(i)' = Start(i)
          /\ file[i].by \in entered /\ file[i].at <= file[i].of /\ Begins(Start(i))
          /\ file[Start(i)] = Cell(file[i].by, 1, file[i].of)
          /\ file[i].at = file[i].of /\ i < n => Begins(i + 1)
      BY <1>1, <2>1 DEF IInv, FileInv, Start, n
    <3>2. Start(i) \in DOMAIN file
      BY <3>1 DEF Begins
    <3>3. Begins(Start(i))' /\ file'[Start(i)] = file[Start(i)]
      BY <1>1, <1>4, <3>1, <3>2
    <3>4. ASSUME file[i].at = file[i].of, i < n + 1 PROVE Begins(i + 1)'
      <4>1. CASE i < n
        BY <1>1, <1>2, <1>4, <2>1, <3>1, <3>4, <4>1 DEF Begins
      <4>2. CASE i = n
        <5>1. cell[a] = 1
          BY <1>1, <1>3, <3>4, <4>2
        <5> QED BY <1>4, <4>2, <5>1
      <4> QED BY <1>2, <2>1, <3>4, <4>1, <4>2
    <3> QED BY <1>1, <3>1, <3>3, <3>4
  <2>2. CASE i = n + 1
    <3>1. file'[i].by = x /\ file'[i].at = cell[a] /\ file'[i].of = size
      BY <1>1, <2>2
    <3>2. Start(i)' = n + 1 - cell[a] + 1
      BY <1>1, <1>2, <2>2, <3>1 DEF Start
    <3>3. CASE cell[a] = 1
      <4>1. Start(i)' = n + 1
        BY <1>2, <3>2, <3>3
      <4> QED BY <1>1, <1>2, <1>4, <1>5, <2>2, <3>1, <3>3, <4>1
    <3>4. CASE cell[a] > 1
      <4>1. /\ n \in DOMAIN file
            /\ file[n].by = x /\ file[n].at = cell[a] - 1 /\ file[n].of = size
        BY <1>3, <3>4
      <4>2. Start(i)' = Start(n)
        BY <1>1, <1>2, <3>2, <4>1 DEF Start
      <4>3. Begins(Start(n)) /\ file[Start(n)] = Cell(x, 1, size)
        BY <4>1 DEF IInv, FileInv
      <4>4. Start(n) \in DOMAIN file
        BY <4>3 DEF Begins
      <4> QED BY <1>1, <1>2, <1>4, <2>2, <3>1, <4>2, <4>3, <4>4
    <3> QED BY <1>1, <3>3, <3>4
  <2> QED BY <1>1, <2>1, <2>2
<1>7. ASSUME NEW p \in DOMAIN file', Begins(p)' PROVE Unspoilt(p)'
  <2>1. SUFFICES ASSUME NEW q \in p..(n + 1), q < p + file'[p].of
                 PROVE  file'[q] = Cell(file'[p].by, q - p + 1, file'[p].of)
    BY <1>1, <1>7 DEF Unspoilt, Begins
  <2>2. CASE p = n + 1
    <3>1. q = n + 1 /\ cell[a] = 1 /\ q - p + 1 = 1
      BY <1>2, <1>4, <1>7, <2>2
    <3> QED BY <1>1, <1>5, <2>2, <3>1
  <2>3. CASE p \in DOMAIN file
    <3>1. file'[p] = file[p] /\ Begins(p) /\ Unspoilt(p)
      BY <1>1, <1>4, <1>7, <2>3 DEF IInv, FileInv
    <3>2. \A r \in p..n : r < p + file[p].of => file[r] = Cell(file[p].by, r - p + 1, file[p].of)
      BY <3>1 DEF Unspoilt, n
    <3>3. CASE q <= n
      <4>1. q \in p..n /\ q \in DOMAIN file
        BY <1>2, <2>3, <3>3
      <4> QED BY <1>1, <2>1, <3>1, <3>2, <4>1
    <3>4. CASE q = n + 1
      <4>1. /\ n \in p..n /\ n \in DOMAIN file /\ n < p + file[p].of /\ n > 0
            /\ n - p + 1 < file[p].of /\ n - p + 1 \in Nat
        BY <1>2, <2>1, <2>3, <3>1, <3>4
      <4>2. file[n] = Cell(file[p].by, n - p + 1, file[p].of)
        BY <3>2, <4>1
      <4>3. file[n].by = file[p].by /\ file[n].at = n - p + 1 /\ file[n].of = file[p].of
        BY <4>2, Sizes
      <4>4. cell[a] # 1
        BY <1>3, <4>1, <4>3
      <4>5. x = file[p].by /\ size = file[p].of /\ cell[a] = q - p + 1
        BY <1>1, <1>2, <1>3, <2>3, <3>4, <4>3, <4>4
      <4> QED BY <1>1, <1>5, <3>1, <3>4, <4>5
    <3> QED BY <1>2, <2>3, <3>3, <3>4
  <2> QED BY <1>1, <2>2, <2>3
<1>8. ASSUME NEW p \in DOMAIN file', NEW q \in DOMAIN file',
             Begins(p)', Begins(q)', file'[p].by = file'[q].by
      PROVE  p = q
  <2>1. CASE p \in DOMAIN file /\ q \in DOMAIN file
    BY <1>1, <1>4, <1>8, <2>1 DEF IInv, FileInv
  <2>2. CASE p = n + 1 /\ q \in DOMAIN file
    BY <1>1, <1>3, <1>4, <1>8, <2>2
  <2>3. CASE q = n + 1 /\ p \in DOMAIN file
    BY <1>1, <1>3, <1>4, <1>8, <2>3
  <2> QED BY <1>1, <2>1, <2>2, <2>3
<1>9. Begins(1)'
  <2>1. CASE n = 0
    BY <1>2, <1>3, <1>4, <2>1
  <2>2. CASE n > 0
    BY <1>2, <1>4, <2>2 DEF IInv, FileInv, n
  <2> QED BY <1>2, <2>1, <2>2
<1> QED BY <1>6, <1>7, <1>8, <1>9 DEF FileInv

\* Where a writer goes on.
LEMMA WriteMoves ==
    ASSUME IInv, NEW a \in Adders, Write(a)
    PROVE  /\ UNCHANGED <<book, entered, full>> /\ pos'[a] = pos[a] + 1
           /\ \A d \in Adders : d # a =>
                 /\ pc'[d] = pc[d] /\ pos'[d] = pos[d]
                 /\ item'[d] = item[d] /\ cell'[d] = cell[d]
           /\ pc'[a] = IF Written(a) THEN "done" ELSE "write"
           /\ item[a] \in Nat \ {0} /\ item[a] <= Len(book[a])
           /\ Len(book[a]) \in Nat /\ DOMAIN book[a] = 1..Len(book[a])
           /\ Written(a) <=> item[a] = Len(book[a]) /\ cell[a] = Current(a).size
           /\ cell[a] = Current(a).size /\ ~Written(a) =>
                 item'[a] = item[a] + 1 /\ item'[a] <= Len(book[a]) /\ cell'[a] = 1
           /\ cell[a] # Current(a).size =>
                 item'[a] = item[a] /\ cell'[a] = cell[a] + 1 /\ cell'[a] <= Current(a).size
           /\ \A k \in DOMAIN book[a] : ~Written(a) =>
                 (Begun(a, k)' <=> Begun(a, k) \/ k = item[a])
           /\ TypeOK'
<1> DEFINE size == Current(a).size
           last == cell[a] = size
           done == Written(a)
<1>1. /\ pc[a] = "write" /\ pos' = [pos EXCEPT ![a] = @ + 1]
      /\ item' = [item EXCEPT ![a] = IF last /\ ~done THEN @ + 1 ELSE @]
      /\ cell' = [cell EXCEPT ![a] = IF last THEN 1 ELSE @ + 1]
      /\ pc' = [pc EXCEPT ![a] = IF done THEN "done" ELSE @]
      /\ UNCHANGED <<book, entered, full>>
      /\ done <=> item[a] = Len(book[a]) /\ last
  BY DEF Write, Written, LastCell, Current
<1>2. /\ item[a] \in DOMAIN book[a] /\ Len(book[a]) \in Nat
      /\ DOMAIN book[a] = 1..Len(book[a]) /\ file' \in Seq(Cells)
      /\ size \in Nat \ {0} /\ cell[a] \in Nat \ {0} /\ cell[a] <= size
  BY WriteAppends, Places DEF IInv
<1> HIDE DEF done, size
<1>3. /\ pos'[a] = pos[a] + 1
      /\ item'[a] = IF last /\ ~done THEN item[a] + 1 ELSE item[a]
      /\ cell'[a] = IF last THEN 1 ELSE cell[a] + 1
      /\ pc'[a] = IF done THEN "done" ELSE "write"
      /\ \A d \in Adders : d # a =>
            /\ pc'[d] = pc[d] /\ pos'[d] = pos[d]
            /\ item'[d] = item[d] /\ cell'[d] = cell[d]
  BY <1>1 DEF IInv, TypeOK
<1>4. item[a] \in Nat \ {0} /\ item[a] <= Len(book[a])
  BY <1>2
<1>5. last /\ ~done => item'[a] = item[a] + 1 /\ item'[a] <= Len(book[a]) /\ cell'[a] = 1
  BY <1>1, <1>2, <1>3, <1>4
<1>6. ~last => item'[a] = item[a] /\ cell'[a] = cell[a] + 1 /\ cell'[a] <= size
  BY <1>2, <1>3
<1>7. ASSUME NEW k \in DOMAIN book[a], ~done
      PROVE  Begun(a, k)' <=> Begun(a, k) \/ k = item[a]
  <2>1. k \in Nat /\ item[a] \in Nat
    BY <1>2, <1>4
  <2>2. CASE last
    BY <1>5, <1>7, <2>1, <2>2 DEF Begun
  <2>3. CASE ~last
    BY <1>2, <1>6, <2>1, <2>3 DEF Begun
  <2> QED BY <2>2, <2>3
<1>8. TypeOK'
  <2>1. /\ pos[a] + 1 \in Nat /\ item'[a] \in Nat \ {0} /\ cell'[a] \in Nat \ {0}
    BY <1>2, <1>3, <1>4 DEF IInv, TypeOK
  <2>2. /\ pos' \in [Adders -> Nat]
        /\ pc' \in [Adders -> {"start", "read", "prompt", "write", "done", "failed", "killed"}]
    BY <1>1, <2>1 DEF IInv, TypeOK
  <2>3. item' \in [Adders -> Nat \ {0}] /\ cell' \in [Adders -> Nat \ {0}]
    <3>1. /\ item \in [Adders -> Nat \ {0}] /\ cell \in [Adders -> Nat \ {0}]
          /\ item' = [item EXCEPT ![a] = item'[a]] /\ cell' = [cell EXCEPT ![a] = cell'[a]]
      BY <1>1, <1>3 DEF IInv, TypeOK
    <3> QED BY <2>1, <3>1
  <2> QED BY <1>1, <1>2, <2>2, <2>3 DEF IInv, TypeOK
<1> QED BY <1>1, <1>2, <1>3, <1>4, <1>5, <1>6, <1>7, <1>8 DEF done, size

LEMMA WriteWriter ==
    ASSUME IInv, NEW a \in Adders, Write(a), ~Written(a)
    PROVE  Writer(a)'
<1> DEFINE n == Len(file)
           size == Current(a).size
<1>1. /\ book' = book /\ entered' = entered /\ pos'[a] = pos[a] + 1
      /\ item[a] \in DOMAIN book[a]
      /\ Len(book[a]) \in Nat /\ DOMAIN book[a] = 1..Len(book[a])
      /\ item[a] <= Len(book[a]) /\ item[a] \in Nat
      /\ cell[a] = size => item'[a] = item[a] + 1 /\ item'[a] <= Len(book[a]) /\ cell'[a] = 1
      /\ cell[a] # size =>
            item'[a] = item[a] /\ cell'[a] = cell[a] + 1 /\ cell'[a] <= size
      /\ \A k \in DOMAIN book[a] : Begun(a, k)' <=> Begun(a, k) \/ k = item[a]
  BY WriteMoves, WriteAppends
<1>2. /\ Writer(a) /\ a \in entered /\ pos[a] = n
  BY WriteAppends DEF IInv, Writer
<1>3. /\ size \in Nat \ {0} /\ cell[a] \in Nat \ {0} /\ n \in Nat
      /\ Len(file') = n + 1
      /\ \A i \in DOMAIN file : file'[i] = file[i]
      /\ \A i \in DOMAIN file' : i \in DOMAIN file \/ i = n + 1
      /\ file'[n + 1] = NextCell(a)
      /\ NextCell(a).by = Current(a).by /\ NextCell(a).at = cell[a] /\ NextCell(a).of = size
      /\ NextCell(a) = Cell(Current(a).by, cell[a], size)
  BY WriteAppends, Places DEF IInv, NextCell
<1> HIDE DEF n, size
<1>4. cell'[a] <= (book'[a][item'[a]]).size
  <2>1. CASE cell[a] = size
    <3>1. item'[a] \in DOMAIN book[a] /\ cell'[a] = 1
      BY <1>1, <2>1
    <3> QED BY <1>1, <3>1, Places DEF IInv
  <2>2. CASE cell[a] # size
    BY <1>1, <2>2 DEF Current, size
  <2> QED BY <2>1, <2>2
<1>5. ASSUME NEW p \in DOMAIN file', Begins(p)'
      PROVE  \E k \in DOMAIN book'[a] : Begun(a, k)' /\ file'[p].by = book'[a][k].by
  <2>1. CASE p \in DOMAIN file
    <3>1. Begins(p) /\ file'[p] = file[p]
      BY <1>3, <1>5, <2>1, WriteBegins
    <3>2. PICK k \in DOMAIN book[a] : Begun(a, k) /\ file[p].by = book[a][k].by
      BY <1>2, <2>1, <3>1, WriteAppends DEF Writer
    <3> QED BY <1>1, <3>1, <3>2
  <2>2. CASE p = n + 1
    <3>1. file'[p].by = book[a][item[a]].by
      BY <1>3, <2>2 DEF Current
    <3> QED BY <1>1, <3>1
  <2> QED BY <1>3, <2>1, <2>2
<1>6. cell'[a] > 1 =>
        /\ Len(file') > 0
        /\ file'[Len(file')] =
              Cell(book'[a][item'[a]].by, cell'[a] - 1, book'[a][item'[a]].size)
  <2>1. CASE cell[a] = size
    BY <1>1, <2>1
  <2>2. CASE cell[a] # size
    <3>1. cell'[a] - 1 = cell[a] /\ n + 1 > 0
      BY <1>1, <1>3, <2>2
    <3> QED BY <1>1, <1>3, <2>2, <3>1 DEF Current, size
  <2> QED BY <2>1, <2>2
<1>7. cell'[a] = 1 => file'[Len(file')].at = file'[Len(file')].of
  <2>1. CASE cell[a] = size
    BY <1>3, <2>1
  <2>2. CASE cell[a] # size
    BY <1>1, <1>3, <2>2
  <2> QED BY <2>1, <2>2
<1>8. item'[a] <= Len(book'[a])
  BY <1>1
<1>9. pos'[a] = Len(file')
  BY <1>1, <1>2, <1>3
<1> QED BY <1>1, <1>2, <1>4, <1>5, <1>6, <1>7, <1>8, <1>9 DEF Writer

LEMMA WriteInv == ASSUME IInv, Apart, NEW a \in Adders, Write(a) PROVE IInv'
<1>1. /\ UNCHANGED <<book, entered, full>> /\ TypeOK'
      /\ \A d \in Adders : d # a =>
            /\ pc'[d] = pc[d] /\ pos'[d] = pos[d]
            /\ item'[d] = item[d] /\ cell'[d] = cell[d]
      /\ pc'[a] = IF Written(a) THEN "done" ELSE "write"
  BY WriteMoves
<1>2. pc[a] = "write"
  BY WriteAppends
<1>3. FileInv'
  BY WriteFileInv
<1>4. BookInv(a)' /\ Fresh(a)' /\ Reader(a)'
  BY <1>1, <1>2 DEF IInv, BookInv, Fresh, Reader
<1>5. Writer(a)'
  <2>1. CASE Written(a)
    BY <1>1, <2>1 DEF Writer
  <2>2. CASE ~Written(a)
    BY <2>2, WriteWriter
  <2> QED BY <2>1, <2>2
<1>6. \A d \in Adders \ {a} : BookInv(d)' /\ Fresh(d)' /\ Reader(d)' /\ Writer(d)'
  <2> TAKE d \in Adders \ {a}
  <2>1. pc[d] \notin {"read", "write"}
    BY <1>2 DEF Apart
  <2> QED BY <1>1, <2>1, OthersStay DEF IInv
<1> QED BY <1>1, <1>3, <1>4, <1>5, <1>6 DEF IInv

-----------------------------------------------------------------------------
LEMMA StepInv == IInv /\ Apart /\ Apart' /\ [Next]_vars => IInv'
<1> SUFFICES ASSUME IInv, Apart, Apart', [Next]_vars PROVE IInv'
  OBVIOUS
<1>1. CASE UNCHANGED vars
  <2>1. TypeOK' /\ FileInv'
    BY <1>1, FileStays DEF vars, IInv, TypeOK
  <2>2. \A d \in Adders : BookInv(d)' /\ Fresh(d)' /\ Reader(d)' /\ Writer(d)'
    BY <1>1, OthersStay DEF vars, IInv
  <2> QED BY <2>1, <2>2 DEF IInv
<1>2. ASSUME NEW a \in Adders, ReadGarbled(a) PROVE FALSE
  BY <1>2, ReadsPerson DEF ReadGarbled
<1>3. ASSUME NEW a \in Adders, OpenFails(a) PROVE IInv'
  BY <1>3, EndInv DEF OpenFails
<1>4. ASSUME NEW a \in Adders, WriteFails(a) PROVE IInv'
  BY <1>4, EndInv DEF WriteFails
<1>5. ASSUME NEW a \in Adders, Killed(a) PROVE IInv'
  BY <1>5, EndInv DEF Killed
<1> QED
  BY <1>1, <1>2, <1>3, <1>4, <1>5, OpenInv, ReadFailsInv, ReadPersonInv, ReadCutInv,
     ReadEndsInv, TruncateInv, WriteInv
  DEF Next, ParseBook, WriteBook

LEMMA Invariant == Spec /\ []Apart => []IInv
BY InitInv, StepInv, PTL DEF Spec

\* As long as no process writes while another one reads or writes, a process
\* has nobody in its book twice, and nobody whose data was not entered, wherever
\* one of them is killed or finds no space, and however long the persons are:
\* what it reads of a book that ends anywhere are persons of that book.
THEOREM NobodyTwice == Spec => ApartNothingTwice
<1>1. IInv => NothingTwice
  BY DEF IInv, BookInv, NothingTwice
<1> QED BY <1>1, Invariant, PTL DEF ApartNothingTwice

-----------------------------------------------------------------------------
(* One process after another.                                              *)

Kept(x) == x = Old \/ (x \in Adders /\ pc[x] = "done")
InBook(a, x) == \E k \in DOMAIN book[a] : book[a][k] = Entry(x, Size[x])
BeginsAt(p, x, n) == file[p] = Cell(x, 1, n)
Ended == Len(file) > 0 => file[Len(file)].at = file[Len(file)].of

\* Everybody is in the file, or in the book of the process that is at it.
InFile ==
    (\A a \in Adders : pc[a] # "write") =>
        /\ Ended
        /\ \A x \in People : Kept(x) => \E p \in DOMAIN file : BeginsAt(p, x, Size[x])
HasRead(a) ==
    pc[a] = "read" =>
        \A x \in People : Kept(x) =>
            \/ InBook(a, x)
            \/ \E p \in DOMAIN file : p > pos[a] /\ BeginsAt(p, x, Size[x])
HasAll(a) ==
    pc[a] \in {"prompt", "write"} =>
        InBook(a, a) /\ \A x \in People : Kept(x) => InBook(a, x)
HasWritten(a) ==
    pc[a] = "write" =>
        \A k \in DOMAIN book[a] : Begun(a, k) =>
            \E p \in DOMAIN file : BeginsAt(p, book[a][k].by, book[a][k].size)

Handed == InFile /\ \A a \in Adders : HasRead(a) /\ HasAll(a) /\ HasWritten(a)

LEMMA HandedInit == Init => Handed
<1> SUFFICES ASSUME Init PROVE Handed
  OBVIOUS
<1> DEFINE n == Size[Old]
<1>1. /\ n \in Nat \ {0}
      /\ file = [j \in 1..n |-> Cell(Old, j, n)]
  BY Sizes DEF Init
<1>2. \A a \in Adders : pc[a] = "start"
  BY DEF Init
<1>3. Len(file) = n /\ DOMAIN file = 1..n /\ n \in 1..n /\ 1 \in 1..n
  <2>1. file \in [1..n -> {Cell(Old, j, n) : j \in 1..n}]
    BY <1>1
  <2> QED BY <1>1, <2>1, LenProperties, IsASeq
<1>4. Ended
  BY <1>1, <1>3, Sizes DEF Ended
<1>5. \A x \in People : Kept(x) => x = Old
  BY <1>2 DEF Kept
<1>6. BeginsAt(1, Old, Size[Old])
  BY <1>1, <1>3 DEF BeginsAt
<1> QED BY <1>2, <1>3, <1>4, <1>5, <1>6 DEF Handed, InFile, HasRead, HasAll, HasWritten

\* Nobody else is busy while a process is.
LEMMA Alone ==
    ASSUME IInv, OneByOne, OneByOne', NEW a \in Adders,
           NEW s, pc' = [pc EXCEPT ![a] = s], Busy(a) \/ Busy(a)'
    PROVE  /\ pc'[a] = s
           /\ \A b \in Adders : b # a => pc'[b] = pc[b] /\ ~Busy(b) /\ ~Busy(b)'
<1>1. pc'[a] = s /\ \A b \in Adders : b # a => pc'[b] = pc[b]
  BY DEF IInv, TypeOK
<1>2. ASSUME NEW b \in Adders, b # a, Busy(b) PROVE FALSE
  <2>1. Busy(b)'
    BY <1>1, <1>2 DEF Busy
  <2> QED BY <1>2, <2>1 DEF OneByOne
<1> QED BY <1>1, <1>2 DEF Busy

LEMMA HandedOpen ==
    ASSUME IInv, Handed, OneByOne, OneByOne', NEW a \in Adders, Open(a)
    PROVE  Handed'
<1>1. /\ pc[a] = "start" /\ pc' = [pc EXCEPT ![a] = "read"]
      /\ UNCHANGED <<file, book, pos, item, cell, entered, full>>
  BY DEF Open
<1>2. pc'[a] = "read"
  BY <1>1 DEF IInv, TypeOK
<1>3. \A b \in Adders : b # a => pc'[b] = pc[b] /\ ~Busy(b) /\ ~Busy(b)'
  BY <1>1, <1>2, Alone DEF Busy
<1>4. \A b \in Adders : pc[b] # "write" /\ pc'[b] # "write"
  BY <1>1, <1>2, <1>3 DEF Busy
<1>5. \A x : Kept(x)' => Kept(x)
  BY <1>2, <1>3 DEF Kept
<1>6. Ended /\ \A x \in People : Kept(x) => \E p \in DOMAIN file : BeginsAt(p, x, Size[x])
  BY <1>4 DEF Handed, InFile
<1>7. InFile'
  BY <1>1, <1>5, <1>6 DEF InFile, Ended, BeginsAt
<1>8. pos[a] = 0 /\ \A p \in DOMAIN file : p > 0
  BY <1>1, Places DEF IInv, Fresh
<1>9. HasRead(a)' /\ HasAll(a)' /\ HasWritten(a)'
  BY <1>1, <1>2, <1>5, <1>6, <1>8 DEF HasRead, HasAll, HasWritten, BeginsAt
<1>10. \A b \in Adders : b # a => HasRead(b)' /\ HasAll(b)' /\ HasWritten(b)'
  BY <1>3 DEF Busy, HasRead, HasAll, HasWritten
<1> QED BY <1>7, <1>9, <1>10 DEF Handed

\* A reader whose book has everybody goes on to its prompt.
LEMMA HandedPrompts ==
    ASSUME IInv, Handed, OneByOne, OneByOne', NEW a \in Adders, pc[a] = "read",
           Prompts(a, book[a]), \A p \in DOMAIN file : p <= pos[a]
    PROVE  Handed'
<1>1. /\ book' = [book EXCEPT ![a] = Append(book[a], Own(a))]
      /\ pc' = [pc EXCEPT ![a] = "prompt"]
      /\ UNCHANGED <<file, pos, item, cell, entered, full>>
  BY DEF Prompts
<1>2. pc'[a] = "prompt" /\ \A b \in Adders : b # a => pc'[b] = pc[b] /\ ~Busy(b) /\ ~Busy(b)'
  BY <1>1, Alone DEF Busy
<1>3. \A b \in Adders : pc[b] # "write" /\ pc'[b] # "write"
  BY <1>2 DEF Busy
<1>4. \A x : Kept(x)' => Kept(x)
  BY <1>2 DEF Kept
<1>5. InFile'
  BY <1>1, <1>3, <1>4 DEF Handed, InFile, Ended, BeginsAt
<1>6. ASSUME NEW x \in People, Kept(x) PROVE InBook(a, x)
  <2>1. ASSUME NEW p \in DOMAIN file, p > pos[a] PROVE FALSE
    <3>1. p <= pos[a] /\ p \in Nat /\ pos[a] \in Nat
      BY Places DEF IInv, TypeOK
    <3> QED BY <2>1, <3>1
  <2> QED BY <1>6, <2>1 DEF Handed, HasRead
<1>7. /\ book'[a] = Append(book[a], Own(a))
      /\ book[a] \in Seq(Entries) /\ Own(a) \in Entries /\ Own(a) = Entry(a, Size[a])
  BY <1>1, Sizes DEF IInv, TypeOK, Own
<1>8. /\ \A k \in DOMAIN book[a] : k \in DOMAIN book'[a] /\ book'[a][k] = book[a][k]
      /\ Len(book[a]) + 1 \in DOMAIN book'[a] /\ book'[a][Len(book[a]) + 1] = Own(a)
  <2>1. Len(book[a]) \in Nat /\ DOMAIN book[a] = 1..Len(book[a])
    BY Places DEF IInv
  <2>2. /\ Len(book'[a]) = Len(book[a]) + 1 /\ book'[a] \in Seq(Entries)
        /\ \A k \in 1..Len(book[a]) : book'[a][k] = book[a][k]
        /\ book'[a][Len(book[a]) + 1] = Own(a)
    BY <1>7, AppendProperties
  <2>3. DOMAIN book'[a] = 1..(Len(book[a]) + 1)
    BY <2>2
  <2> QED BY <2>1, <2>2, <2>3
<1>9. HasRead(a)' /\ HasAll(a)' /\ HasWritten(a)'
  <2>1. InBook(a, a)' /\ \A x \in People : Kept(x)' => InBook(a, x)'
    BY <1>4, <1>6, <1>7, <1>8 DEF InBook
  <2> QED BY <1>2, <2>1 DEF HasRead, HasAll, HasWritten
<1>10. \A b \in Adders : b # a => HasRead(b)' /\ HasAll(b)' /\ HasWritten(b)'
  BY <1>2 DEF Busy, HasRead, HasAll, HasWritten
<1> QED BY <1>5, <1>9, <1>10 DEF Handed

LEMMA HandedReadEnds ==
    ASSUME IInv, Handed, OneByOne, OneByOne', NEW a \in Adders, ReadEnds(a)
    PROVE  Handed'
<1>1. pc[a] = "read" /\ Prompts(a, book[a]) /\ (Reads(a) => file[At(a)] = Hole)
  BY DEF ReadEnds
<1>2. ~Reads(a)
  BY <1>1, ReadsPerson
<1>3. pos[a] \in Nat /\ Len(file) \in Nat /\ DOMAIN file = 1..Len(file)
  BY Places DEF IInv, TypeOK
<1>4. \A p \in DOMAIN file : p <= pos[a]
  BY <1>1, <1>2, <1>3 DEF Reads, At
<1> QED BY <1>1, <1>4, HandedPrompts

\* Nobody writes while a process reads: the file ends with a whole person.
LEMMA AllWhole ==
    ASSUME TypeOK, FileInv, Ended, NEW p \in DOMAIN file, Begins(p)
    PROVE  Whole(p) /\ ~Cut(p)
<1> DEFINE n == Len(file)
<1>1. /\ n \in Nat /\ p \in Nat /\ p <= n /\ file[p].of \in Nat \ {0} /\ n \in p..n
  BY Places
<1>2. Unspoilt(p)
  BY DEF FileInv
<1>3. ASSUME p + file[p].of > n + 1 PROVE FALSE
  <2>1. n < p + file[p].of
    BY <1>1, <1>3
  <2>2. file[n] = Cell(file[p].by, n - p + 1, file[p].of)
    BY <1>1, <1>2, <2>1 DEF Unspoilt
  <2>3. file[n].at = n - p + 1 /\ file[n].of = file[p].of
    BY <2>2, Sizes
  <2>4. n > 0
    BY <1>1, Places
  <2> QED BY <1>1, <1>3, <2>3, <2>4 DEF Ended
<1> QED BY <1>1, <1>2, <1>3 DEF Whole, Cut

LEMMA HandedReadPerson ==
    ASSUME IInv, Handed, OneByOne, OneByOne', NEW a \in Adders, ReadPerson(a)
    PROVE  Handed'
<1> DEFINE p == At(a)
           n == file[p].of
           b == With(a, n)
<1>1. /\ Reads(a) /\ Whole(p) /\ pc[a] = "read"
      /\ book' = [book EXCEPT ![a] = b] /\ pos' = [pos EXCEPT ![a] = @ + n]
      /\ UNCHANGED <<file, pc, item, cell, entered, full>>
  BY DEF ReadPerson, Reads, With
<1>2. /\ p \in DOMAIN file /\ pos[a] \in Nat /\ p = pos[a] + 1 /\ Begins(p)
  BY <1>1, ReadsPerson DEF At
<1>3. n \in Nat \ {0} /\ Len(book[a]) \in Nat /\ DOMAIN book[a] = 1..Len(book[a])
  BY <1>2, Places DEF IInv
<1>4. \A q \in DOMAIN file : q > p /\ q < p + n => ~Begins(q)
  BY <1>1, <1>2, BehindWhole DEF IInv
<1>5. /\ DOMAIN b = 1..(Len(book[a]) + 1)
      /\ \A i \in DOMAIN book[a] : b[i] = book[a][i]
      /\ b[Len(book[a]) + 1] = Entry(file[p].by, n)
  BY <1>1, <1>3, OneMore
<1> HIDE DEF p, n, b
<1>6. book'[a] = b /\ pos'[a] = pos[a] + n
  BY <1>1 DEF IInv, TypeOK
<1>7. \A d \in Adders : d # a => pc[d] \notin {"read", "prompt", "write"}
  BY <1>1 DEF OneByOne, Busy
<1>8. InFile' /\ \A x : Kept(x)' <=> Kept(x)
  BY <1>1 DEF Handed, InFile, Ended, Kept, BeginsAt
<1>9. \A x : InBook(a, x) => InBook(a, x)'
  <2>1. \A k \in DOMAIN book[a] : k \in DOMAIN b
    BY <1>3, <1>5
  <2> QED BY <1>5, <1>6, <2>1 DEF InBook
<1>10. ASSUME NEW x \in People, Kept(x)
       PROVE  InBook(a, x)' \/ \E q \in DOMAIN file' : q > pos'[a] /\ BeginsAt(q, x, Size[x])'
  <2>1. CASE InBook(a, x)
    BY <1>9, <2>1
  <2>2. ASSUME NEW q \in DOMAIN file, q > pos[a], BeginsAt(q, x, Size[x])
        PROVE  InBook(a, x)' \/ (q > pos'[a] /\ BeginsAt(q, x, Size[x])')
    <3>1. file[q].by = x /\ file[q].at = 1 /\ file[q].of = Size[x] /\ q \in Nat
      BY <2>2, Sizes, Places DEF BeginsAt, IInv
    <3>2. CASE q = p
      <4>1. b[Len(book[a]) + 1] = Entry(x, Size[x]) /\ Len(book[a]) + 1 \in DOMAIN b
        BY <1>3, <1>5, <3>1, <3>2 DEF n
      <4> QED BY <1>6, <4>1 DEF InBook
    <3>3. CASE q # p
      <4>1. q > p /\ Begins(q)
        BY <1>2, <2>2, <3>1, <3>3 DEF Begins
      <4>2. ~(q < p + n)
        BY <1>4, <4>1
      <4>3. q > pos[a] + n
        <5> DEFINE m == pos[a]
        <5>1. m \in Nat /\ p = m + 1 /\ n \in Nat
          BY <1>2, <1>3
        <5> HIDE DEF m
        <5>2. q > m + n
          BY <3>1, <4>2, <5>1
        <5> QED BY <5>2 DEF m
      <4> QED BY <1>1, <1>6, <2>2, <4>3 DEF BeginsAt
    <3> QED BY <3>2, <3>3
  <2> QED BY <1>1, <1>10, <2>1, <2>2 DEF Handed, HasRead
<1>11. HasRead(a)' /\ HasAll(a)' /\ HasWritten(a)'
  BY <1>1, <1>8, <1>10 DEF HasRead, HasAll, HasWritten
<1>12. \A d \in Adders : d # a => HasRead(d)' /\ HasAll(d)' /\ HasWritten(d)'
  BY <1>1, <1>7 DEF HasRead, HasAll, HasWritten
<1> QED BY <1>8, <1>11, <1>12 DEF Handed

LEMMA HandedTruncate ==
    ASSUME IInv, Handed, OneByOne, OneByOne', NEW a \in Adders, Truncate(a)
    PROVE  Handed'
<1>1. /\ pc[a] = "prompt" /\ pc' = [pc EXCEPT ![a] = "write"]
      /\ UNCHANGED <<book, item, cell>>
  BY DEF Truncate
<1>2. pc'[a] = "write" /\ \A b \in Adders : b # a => pc'[b] = pc[b] /\ ~Busy(b) /\ ~Busy(b)'
  BY <1>1, Alone DEF Busy
<1>3. \A x : Kept(x)' => Kept(x)
  BY <1>2 DEF Kept
<1>4. item[a] = 1 /\ cell[a] = 1 /\ \A k \in DOMAIN book[a] : ~Begun(a, k)
  <2>1. item[a] = 1 /\ cell[a] = 1
    BY <1>1 DEF IInv, Fresh
  <2> QED BY <2>1, Places DEF IInv, Begun
<1>5. InBook(a, a) /\ \A x \in People : Kept(x) => InBook(a, x)
  BY <1>1 DEF Handed, HasAll
<1>6. InFile'
  BY <1>2 DEF InFile
<1>7. HasRead(a)' /\ HasAll(a)' /\ HasWritten(a)'
  BY <1>1, <1>2, <1>3, <1>4, <1>5 DEF HasRead, HasAll, HasWritten, InBook, Begun
<1>8. \A b \in Adders : b # a => HasRead(b)' /\ HasAll(b)' /\ HasWritten(b)'
  BY <1>2 DEF Busy, HasRead, HasAll, HasWritten
<1> QED BY <1>6, <1>7, <1>8 DEF Handed

LEMMA HandedOpenFails ==
    ASSUME IInv, Handed, OneByOne, OneByOne', NEW a \in Adders, OpenFails(a)
    PROVE  Handed'
<1>1. pc[a] = "prompt" /\ pc' = [pc EXCEPT ![a] = "failed"] /\ file' = file
  BY DEF OpenFails
<1>2. pc'[a] = "failed" /\ \A b \in Adders : b # a => pc'[b] = pc[b] /\ ~Busy(b) /\ ~Busy(b)'
  BY <1>1, Alone DEF Busy
<1>3. \A x : Kept(x)' => Kept(x)
  BY <1>2 DEF Kept
<1>4. \A b \in Adders : pc[b] # "write"
  BY <1>1, <1>2 DEF Busy
<1>5. InFile'
  BY <1>1, <1>3, <1>4 DEF Handed, InFile, Ended, BeginsAt
<1>6. \A b \in Adders : HasRead(b)' /\ HasAll(b)' /\ HasWritten(b)'
  BY <1>2 DEF Busy, HasRead, HasAll, HasWritten
<1> QED BY <1>5, <1>6 DEF Handed

LEMMA HandedWrite ==
    ASSUME IInv, Handed, OneByOne, OneByOne', NEW a \in Adders, Write(a)
    PROVE  Handed'
<1> DEFINE n == Len(file)
<1>1. /\ book' = book
      /\ \A d \in Adders : d # a => pc'[d] = pc[d]
      /\ pc'[a] = IF Written(a) THEN "done" ELSE "write"
      /\ item[a] \in Nat \ {0} /\ item[a] \in DOMAIN book[a]
      /\ Len(book[a]) \in Nat /\ DOMAIN book[a] = 1..Len(book[a])
      /\ Written(a) <=> item[a] = Len(book[a]) /\ cell[a] = Current(a).size
      /\ \A k \in DOMAIN book[a] : ~Written(a) => (Begun(a, k)' <=> Begun(a, k) \/ k = item[a])
  BY WriteMoves, WriteAppends
<1>2. pc[a] = "write" /\ \A d \in Adders : d # a => ~Busy(d) /\ ~Busy(d)'
  <2>1. pc[a] = "write"
    BY WriteAppends
  <2> QED BY <1>1, <2>1 DEF OneByOne, Busy
<1>3. /\ n \in Nat /\ n + 1 \in DOMAIN file' /\ Len(file') = n + 1
      /\ \A i \in DOMAIN file : i \in DOMAIN file' /\ file'[i] = file[i]
      /\ file'[n + 1] = NextCell(a)
      /\ NextCell(a).at = cell[a] /\ NextCell(a).of = Current(a).size
      /\ cell[a] \in Nat \ {0}
  BY WriteAppends, Places DEF IInv
<1>4. \A k \in DOMAIN book[a] : Begun(a, k) =>
        \E p \in DOMAIN file : BeginsAt(p, book[a][k].by, book[a][k].size)
  BY <1>2 DEF Handed, HasWritten
<1>5. ASSUME NEW k \in DOMAIN book[a], Begun(a, k) \/ k = item[a]
      PROVE  \E p \in DOMAIN file' : file'[p] = Cell(book[a][k].by, 1, book[a][k].size)
  <2>1. CASE Begun(a, k)
    BY <1>3, <1>4, <2>1 DEF BeginsAt
  <2>2. CASE k = item[a] /\ ~Begun(a, k)
    <3>1. cell[a] = 1
      BY <1>3, <2>2 DEF Begun
    <3> QED BY <1>3, <2>2, <3>1 DEF NextCell, Current
  <2> QED BY <1>5, <2>1, <2>2
<1>6. InBook(a, a) /\ \A x \in People : Kept(x) => InBook(a, x)
  BY <1>2 DEF Handed, HasAll
<1>7. \A x : Kept(x)' => Kept(x) \/ x = a
  BY <1>1 DEF Kept
<1>8. \A x \in People : Kept(x)' => InBook(a, x)
  BY <1>6, <1>7
<1>9. InFile'
  <2>1. CASE ~Written(a)
    BY <1>1, <2>1 DEF InFile
  <2>2. CASE Written(a)
    <3>1. Ended'
      BY <1>1, <1>3, <2>2 DEF Ended
    <3>2. ASSUME NEW x \in People, Kept(x)'
          PROVE  \E p \in DOMAIN file' : BeginsAt(p, x, Size[x])'
      <4>1. PICK k \in DOMAIN book[a] : book[a][k] = Entry(x, Size[x])
        BY <1>8, <3>2 DEF InBook
      <4>2. Begun(a, k) \/ k = item[a]
        BY <1>1, <2>2 DEF Begun
      <4>3. \E p \in DOMAIN file' : file'[p] = Cell(x, 1, Size[x])
        BY <1>5, <4>1, <4>2, Sizes
      <4> QED BY <4>3 DEF BeginsAt
    <3> QED BY <3>1, <3>2 DEF InFile
  <2> QED BY <2>1, <2>2
<1>10. HasRead(a)' /\ HasAll(a)' /\ HasWritten(a)'
  <2>1. CASE Written(a)
    BY <1>1, <2>1 DEF HasRead, HasAll, HasWritten
  <2>2. CASE ~Written(a)
    <3>1. HasAll(a)'
      BY <1>1, <1>6, <1>8 DEF HasAll, InBook
    <3>2. HasWritten(a)'
      BY <1>1, <1>5, <2>2 DEF HasWritten, BeginsAt
    <3> QED BY <1>1, <2>2, <3>1, <3>2 DEF HasRead
  <2> QED BY <2>1, <2>2
<1>11. \A d \in Adders : d # a => HasRead(d)' /\ HasAll(d)' /\ HasWritten(d)'
  BY <1>2 DEF Busy, HasRead, HasAll, HasWritten
<1> QED BY <1>9, <1>10, <1>11 DEF Handed

LEMMA HandedStep ==
    IInv /\ OneByOne /\ OneByOne' /\ Handed /\ [Next]_vars => Handed'
<1> SUFFICES ASSUME IInv, OneByOne, OneByOne', Handed, [Next]_vars PROVE Handed'
  OBVIOUS
<1>1. CASE UNCHANGED vars
  <2>1. InFile'
    BY <1>1 DEF vars, Handed, InFile, Ended, Kept, BeginsAt
  <2>2. \A a \in Adders : HasRead(a)' /\ HasAll(a)' /\ HasWritten(a)'
    BY <1>1 DEF vars, Handed, HasRead, HasAll, HasWritten, Kept, InBook, Begun, BeginsAt
  <2> QED BY <2>1, <2>2 DEF Handed
<1>2. ASSUME NEW a \in Adders, Killed(a) PROVE FALSE
  BY <1>2 DEF Killed, OneByOne, IInv, TypeOK
<1>3. ASSUME NEW a \in Adders, WriteFails(a) PROVE FALSE
  BY <1>3 DEF WriteFails, OneByOne
<1>4. ASSUME NEW a \in Adders, ReadFails(a) PROVE FALSE
  <2>1. pc' = [pc EXCEPT ![a] = "prompt"] /\ book' = [book EXCEPT ![a] = Append(<<>>, Own(a))]
    BY <1>4 DEF ReadFails, Prompts
  <2>2. pc'[a] = "prompt" /\ book'[a] = <<Own(a)>>
    BY <2>1 DEF IInv, TypeOK
  <2>3. Len(book'[a]) = 1
    BY <2>2
  <2>4. CouldRead(a)'
    BY DEF OneByOne
  <2>5. Len(book'[a]) > 1
    BY <2>2, <2>4 DEF CouldRead
  <2> QED BY <2>3, <2>5
<1>5. ASSUME NEW a \in Adders, ReadGarbled(a) PROVE FALSE
  BY <1>5, ReadsPerson DEF ReadGarbled
<1>6. ASSUME NEW a \in Adders, ReadCut(a) PROVE FALSE
  <2>1. Reads(a) /\ Cut(At(a)) /\ pc[a] = "read"
    BY <1>6 DEF ReadCut, Reads
  <2>2. \A b \in Adders : pc[b] # "write"
    BY <2>1 DEF OneByOne, Busy
  <2>3. Ended
    BY <2>2 DEF Handed, InFile
  <2> QED BY <2>1, <2>3, ReadsPerson, AllWhole DEF IInv
<1> QED
  BY <1>1, <1>2, <1>3, <1>4, <1>5, <1>6, HandedOpen, HandedReadPerson, HandedReadEnds,
     HandedTruncate, HandedOpenFails, HandedWrite
  DEF Next, ParseBook, WriteBook

\* Every cell of a file that nobody writes belongs to a whole person.
LEMMA AllListed ==
    ASSUME TypeOK, FileInv, Ended, NEW i \in DOMAIN file
    PROVE  Listed(i)
<1> DEFINE q == Start(i)
<1>1. Begins(q) /\ file[q] = Cell(file[i].by, 1, file[i].of) /\ file[i].at <= file[i].of
  BY DEF FileInv
<1>2. /\ i \in Nat /\ file[i].at \in Nat \ {0} /\ file[i].of \in Nat
      /\ q = i - file[i].at + 1 /\ file[q].of = file[i].of
  BY <1>1, Places, Sizes DEF Start
<1>3. q \in DOMAIN file /\ q \in Nat \ {0}
  BY <1>1, Places DEF Begins
<1>4. Whole(q)
  BY <1>1, <1>3, AllWhole
<1> HIDE DEF q
<1>5. q \in 1..i /\ i < q + file[q].of
  BY <1>1, <1>2, <1>3
<1> QED BY <1>4, <1>5 DEF Listed

\* "Reads the entire address book from a file, adds one person based on user
\* input, then writes it back out to the same file": any number of processes
\* that follow one another, can read the file, are not killed and find space
\* for it lose nobody, and leave a file in which the next one finds everybody.
THEOREM NobodyLost == Spec => KeepsEveryone
<1>1. OneByOne => Apart
  BY DEF OneByOne, Busy, Apart
<1>2. Spec /\ []OneByOne => []IInv
  BY <1>1, Invariant, PTL
<1>3. Spec /\ []OneByOne => []Handed
  BY <1>2, HandedInit, HandedStep, PTL DEF Spec
<1>4. IInv /\ Handed => ((\A a \in Adders : ~Busy(a)) => Complete)
  <2> SUFFICES ASSUME IInv, Handed, \A a \in Adders : ~Busy(a),
                      NEW x \in People, x = Old \/ pc[x] = "done"
               PROVE  Found(x)
    BY DEF Complete
  <2>1. Kept(x)
    BY DEF Kept, People
  <2>2. Ended /\ \E p \in DOMAIN file : BeginsAt(p, x, Size[x])
    BY <2>1 DEF Handed, InFile, Busy
  <2>3. PICK p \in DOMAIN file : file[p] = Cell(x, 1, Size[x])
    BY <2>2 DEF BeginsAt
  <2>4. Whole(p)
    BY <2>2, <2>3, AllWhole, Sizes DEF IInv, Begins
  <2>5. \A i \in 1..p : i \in DOMAIN file
    BY <2>3, Places DEF IInv
  <2>6. \A i \in 1..p : Listed(i)
    BY <2>2, <2>5, AllListed DEF IInv
  <2> QED BY <2>3, <2>4, <2>6 DEF Found
<1> QED BY <1>2, <1>3, <1>4, PTL DEF KeepsEveryone

=============================================================================
