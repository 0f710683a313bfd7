---------------------------- MODULE AddressBook ----------------------------
(***************************************************************************)
(* The address book of ProtoBuff: processes of add_person.cc that read the *)
(* book from a file, ask the user for one more person and write the whole  *)
(* book back, with no lock between them, and list_people.cc, which shows   *)
(* what add_person would read.                                             *)
(*                                                                         *)
(* A person is named after the process that entered it and takes Size      *)
(* cells of the file, the first of which is its tag and length.  A cell    *)
(* says whose it is, and which of how many.  Processes overwrite each      *)
(* other's cells, write past the end of a file that was truncated behind   *)
(* them, and may be killed, or find no space, between any two of them.     *)
(*                                                                         *)
(* The tag of a person is that of its name and of its phone numbers, too:  *)
(* bytes that are not where they were written may be read as a person      *)
(* nobody entered, called Nobody here.  A person is read in one step.      *)
(***************************************************************************)
EXTENDS Integers, Sequences

CONSTANTS
    Adders,     \* processes of add_person
    Old,        \* the person in the book at the start
    Nobody,     \* a person that nobody entered
    Size        \* Size[x]: cells the person x takes

People == Adders \cup {Old}

ASSUME AddressBookAssumption ==
    /\ Old \notin Adders
    /\ Nobody \notin People
    /\ Size \in [People -> Nat \ {0}]

VARIABLES
    file,       \* the cells of the file
    pc,         \* pc[a]: "start", "read", "prompt", "write", "done", "failed"
                \* or "killed"
    book,       \* book[a]: address_book of process a
    pos,        \* pos[a]: cells that it has read, or written, of the file
    item,       \* item[a]: the entry of its book that it writes
    cell,       \* cell[a]: the cell of that entry that it writes next
    entered,    \* people whose data was entered completely
    full        \* a write has failed

vars == <<file, pc, book, pos, item, cell, entered, full>>

Cell(x, j, n) == [by |-> x, at |-> j, of |-> n]
Hole == Cell(Nobody, 0, 0)    \* zero bytes before a write beyond the end
Entry(x, n) == [by |-> x, size |-> n]
Own(a) == Entry(a, Size[a])

Init ==
    /\ file = [j \in 1..Size[Old] |-> Cell(Old, j, Size[Old])]
    /\ pc = [a \in Adders |-> "start"]
    /\ book = [a \in Adders |-> <<>>]
    /\ pos = [a \in Adders |-> 0]
    /\ item = [a \in Adders |-> 1]
    /\ cell = [a \in Adders |-> 1]
    /\ entered = {Old}
    /\ full = FALSE

-----------------------------------------------------------------------------
(* ParseFromIstream().                                                     *)

\* Every cell from p on that the file has of the person beginning there.
Unspoilt(p) ==
    /\ file[p].at = 1
    /\ \A q \in p..Len(file) :
          q < p + file[p].of => file[q] = Cell(file[p].by, q - p + 1, file[p].of)

\* A whole person begins at p; one that the end of the file cuts.
Whole(p) == Unspoilt(p) /\ p + file[p].of <= Len(file) + 1
Cut(p) == Unspoilt(p) /\ p + file[p].of > Len(file) + 1

Open(a) ==
    /\ pc[a] = "start"
    /\ pc' = [pc EXCEPT ![a] = "read"]
    /\ UNCHANGED <<file, book, pos, item, cell, entered, full>>

\* The book is read as b: a person is added to it, whom the user is asked for.
Prompts(a, b) ==
    /\ book' = [book EXCEPT ![a] = Append(b, Own(a))]
    /\ pc' = [pc EXCEPT ![a] = "prompt"]
    /\ UNCHANGED <<file, pos, item, cell, entered, full>>

\* The file cannot be opened for reading, which is taken for a file that is not
\* there.
ReadFails(a) ==
    /\ pc[a] = "start"
    /\ Prompts(a, <<>>)

\* The place that is read next, up to the end of the file.
At(a) == pos[a] + 1
Reads(a) == pc[a] = "read" /\ At(a) <= Len(file)

ReadPerson(a) ==
    /\ Reads(a) /\ Whole(At(a))
    /\ LET c == file[At(a)] IN
        /\ book' = [book EXCEPT ![a] = Append(@, Entry(c.by, c.of))]
        /\ pos' = [pos EXCEPT ![a] = @ + c.of]
    /\ UNCHANGED <<file, pc, item, cell, entered, full>>

\* The end of the file comes first.  That is an error, which is not looked at,
\* and the fields read so far stay in the book.
ReadCut(a) ==
    /\ Reads(a) /\ Cut(At(a))
    /\ \E k \in 0..(Len(file) - pos[a]) :
        Prompts(a, IF k = 0 THEN book[a] ELSE Append(book[a], Entry(file[At(a)].by, k)))

\* Cells of several people, or the middle of one.  Some are skipped as fields
\* nobody knows, or read as a person, the one that begins here or Nobody, of k
\* cells; then an error ends it, or reading goes on behind.
ReadGarbled(a) ==
    /\ Reads(a) /\ ~Unspoilt(At(a)) /\ file[At(a)] # Hole
    /\ \E m \in 1..(Len(file) - pos[a]), k \in 0..Len(file),
          x \in {Nobody} \cup {y \in {file[At(a)].by} : file[At(a)].at = 1} :
        /\ k <= m
        /\ LET b == IF k = 0 THEN book[a] ELSE Append(book[a], Entry(x, k)) IN
           \/ Prompts(a, b)
           \/ /\ book' = [book EXCEPT ![a] = b]
              /\ pos' = [pos EXCEPT ![a] = @ + m]
              /\ UNCHANGED <<file, pc, item, cell, entered, full>>

\* The end of the file, or a zero byte, which is an error.
ReadEnds(a) ==
    /\ pc[a] = "read"
    /\ Reads(a) => file[At(a)] = Hole
    /\ Prompts(a, book[a])

-----------------------------------------------------------------------------
(* Writing it back.                                                        *)

\* MUTANT of Truncate: the file is opened without ios::trunc.
TruncateKeeps(a) ==
    /\ pc[a] = "prompt"
    /\ entered' = entered \cup {a}
    /\ pos' = [pos EXCEPT ![a] = 0]
    /\ pc' = [pc EXCEPT ![a] = "write"]
    /\ UNCHANGED <<file, book, item, cell, full>>

\* PromptForAddress returns, and the file is opened with ios::trunc.
Truncate(a) ==
    /\ pc[a] = "prompt"
    /\ entered' = entered \cup {a}
    /\ file' = <<>>
    /\ pos' = [pos EXCEPT ![a] = 0]
    /\ pc' = [pc EXCEPT ![a] = "write"]
    /\ UNCHANGED <<book, item, cell, full>>

\* The file cannot be opened for writing.
OpenFails(a) ==
    /\ pc[a] = "prompt"
    /\ entered' = entered \cup {a}
    /\ pc' = [pc EXCEPT ![a] = "failed"]
    /\ UNCHANGED <<file, book, pos, item, cell, full>>

\* The file with cell c at place p.
Put(p, c) ==
    [q \in 1..(IF p > Len(file) THEN p ELSE Len(file)) |->
        IF q = p THEN c ELSE IF q <= Len(file) THEN file[q] ELSE Hole]

LastCell(a) == cell[a] = book[a][item[a]].size

\* MUTANT of Written: the first write is taken for all of them.
WrittenAtOnce(a) == LastCell(a)

\* The cell is the last one of the book.
Written(a) == item[a] = Len(book[a]) /\ LastCell(a)

\* One cell goes to the file: write() of the stream's buffer takes any number
\* of them.
Write(a) ==
    /\ pc[a] = "write"
    /\ LET e == book[a][item[a]] IN file' = Put(At(a), Cell(e.by, cell[a], e.size))
    /\ pos' = [pos EXCEPT ![a] = @ + 1]
    /\ item' = [item EXCEPT ![a] = IF LastCell(a) /\ ~Written(a) THEN @ + 1 ELSE @]
    /\ cell' = [cell EXCEPT ![a] = IF LastCell(a) THEN 1 ELSE @ + 1]
    /\ pc' = [pc EXCEPT ![a] = IF Written(a) THEN "done" ELSE @]
    /\ UNCHANGED <<book, entered, full>>

\* A write fails, for want of space.  If SerializeToOstream had to make it the
\* process fails; the writes of the stream's destructor, which are all of them
\* for a small book, are looked at by nobody.
WriteFails(a) ==
    /\ pc[a] = "write"
    /\ full' = TRUE
    /\ \E s \in {"failed", "done"} : pc' = [pc EXCEPT ![a] = s]
    /\ UNCHANGED <<file, book, pos, item, cell, entered>>

\* The user or the system ends the process.
Killed(a) ==
    /\ pc[a] \in {"read", "prompt", "write"}
    /\ pc' = [pc EXCEPT ![a] = "killed"]
    /\ UNCHANGED <<file, book, pos, item, cell, entered, full>>

ParseBook(a) == Open(a) \/ ReadFails(a) \/ ReadPerson(a) \/ ReadCut(a) \/ ReadGarbled(a) \/ ReadEnds(a)
WriteBook(a) == Truncate(a) \/ OpenFails(a) \/ Write(a) \/ WriteFails(a)

Next == \E a \in Adders : ParseBook(a) \/ WriteBook(a) \/ Killed(a)

Spec == Init /\ [][Next]_vars

-----------------------------------------------------------------------------
\* No process writes while another one reads or writes.  Prompts may overlap.
Apart ==
    \A a, b \in Adders : a # b /\ pc[a] = "write" => pc[b] \notin {"read", "write"}

\* As long as writing does not overlap with anything else, and wherever
\* processes are killed or find no space, a process has nobody in its book
\* twice, and nobody whose data was not entered.
NothingTwice ==
    \A a \in Adders : \A i, j \in DOMAIN book[a] :
        /\ book[a][i].by \in entered \cup {a}
        /\ book[a][i].by = book[a][j].by => i = j
ApartNothingTwice == []Apart => []NothingTwice

\* "Reads the entire address book from a file, adds one person based on user
\* input, then writes it back": as long as one process follows another, each of
\* them can read the file, none is killed and no write fails, everybody that
\* one of them wrote is in the book between them, where the next one finds him.
Busy(a) == pc[a] \in {"read", "prompt", "write"}
CouldRead(a) == pc[a] \in {"prompt", "write", "done"} => Len(book[a]) > 1
OneByOne ==
    /\ ~full
    /\ \A a \in Adders :
        /\ pc[a] # "killed" /\ CouldRead(a)
        /\ Busy(a) => \A b \in Adders : Busy(b) => a = b
Listed(i) == \E q \in 1..i : Whole(q) /\ i < q + file[q].of
Found(x) ==
    \E p \in DOMAIN file :
        /\ file[p] = Cell(x, 1, Size[x]) /\ Whole(p)
        /\ \A i \in 1..p : Listed(i)
Complete == \A x \in People : x = Old \/ pc[x] = "done" => Found(x)
KeepsEveryone == []OneByOne => []((\A a \in Adders : ~Busy(a)) => Complete)
=============================================================================
