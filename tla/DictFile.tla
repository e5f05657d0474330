------------------------------ MODULE DictFile ------------------------------
(***************************************************************************)
(* The dictionary file.  SAVE-FORTH and TURNKEY write the dictionary of a  *)
(* running program as an IFF file (ffSaveForth); a program that starts     *)
(* reads it (pfLoadDictionary, pfDoForth).  Opening and writing may fail   *)
(* at every place, what is written waits in the buffer of the C library,   *)
(* and the program may be killed at every step; later programs, of other   *)
(* builds too, start with the file that is left.                           *)
(*                                                                         *)
(* A file is a sequence of 32-bit units and sizes count units, not bytes.  *)
(* src/csrc/pf_save.c:318-757, src/csrc/pf_core.c:276-360, 600-690          *)
(***************************************************************************)
EXTENDS Integers, Sequences, SequencesExt

CONSTANTS Builds,      \* the programs: [version, cell, big, float, prims]
          OtherFiles,  \* what the file may be before it is first written
          Sizes,       \* the NameSize and CodeSize a program asks for
          NameMargin,  \* 1024 bytes: room for names beyond the saved ones
          CodeMargin,  \* 2048 bytes
          Wrap,        \* 2^32: the range of a unit, and of BytesLeft
          MaxSaves,    \* bound: calls of (SAVE-FORTH)
          MaxDefs,     \* bound: words defined
          MaxStarts    \* bound: starts of a program

VARIABLES
  file,    \* the file under the C library, see below
  todo,    \* what ffSaveForth has still to write before the FORM size
  pc,      \* what the program is doing, "down" when there is none
  build,   \* the program that runs, or ran last
  dic,     \* gCurrentDictionary, with the entry point of the program
  at,      \* units pfLoadDictionary has read
  left,    \* BytesLeft
  result,  \* history: how the last start went
  saved,   \* history: what the last save wrote, and if it wrote the FORM size
  lost,    \* history: of that save some units never left the C library
  threw,   \* history: an AUTO.TERM or AUTO.INIT of a save threw, unnoticed
  saves, defs, starts

history == <<saved, lost, threw>>
counts == <<saves, defs, starts>>
vars == <<file, todo, pc, build, dic, at, left, result, history, counts>>

\* A file consists of 32-bit units.  Read as numbers the four-character IDs, and
\* what pfCreateDictionary fills the memory of a dictionary with, are larger than
\* any size.
Unit == 0 .. Wrap - 1
FORM == Wrap - 1
P4TH == Wrap - 2
P4DI == Wrap - 3
P4NM == Wrap - 4
P4CD == Wrap - 5
BADF == Wrap - 6
Filler == Wrap - 7
Size == 0 .. Filler - 1

\* What is in memory has a size that a file can state, and so has the file
\* itself (22 units are its headers and what a dictionary has from the start).
\* A file of other origin has no P4DI: it is no dictionary.
ASSUME DictFileAssumption ==
  /\ {NameMargin, CodeMargin, MaxSaves, MaxDefs, MaxStarts, Wrap} \subseteq Nat
  /\ Builds \subseteq [version : Size, cell : Size, big : {0, 1}, float : Size, prims : Size]
  /\ OtherFiles \subseteq Seq(Unit \ {P4DI}) /\ Sizes \subseteq Size
  /\ {1 + MaxDefs + NameMargin, 2 + MaxDefs + CodeMargin, 22 + 2 * MaxDefs} \subseteq Size

NULL == [null |-> TRUE]

LargerOf(a, b) == IF a > b THEN a ELSE b

(* A dictionary in memory: nameSize 0 is NAME_BASE = NULL.  A word is one  *)
(* unit of names and one of code; the first unit of code is the data cell  *)
(* that counts how often AUTO.INIT ran without an AUTO.TERM.               *)
HasNames(d) == d.nameSize > 0

pfExecIfDefined(d, change) ==
  IF HasNames(d) THEN [d EXCEPT !.code[1] = (@ + change) % Wrap] ELSE d

Init ==
  /\ file \in {[disk |-> f, base |-> 0, held |-> <<>>] : f \in OtherFiles}
  /\ todo = <<>> /\ pc = "idle" /\ build \in Builds
  /\ dic = [names |-> <<0>>, code |-> <<1, 0>>, nameSize |-> 1 + NameMargin,
            codeSize |-> 2 + CodeMargin, prims |-> build.prims, entry |-> 0]
  /\ at = 0 /\ left = 0 /\ result = "built"
  /\ saved = NULL /\ lost = FALSE /\ threw = FALSE
  /\ saves = 0 /\ defs = 0 /\ starts = 0

\* A word is defined, as far as there is room.
Define ==
  /\ pc = "idle" /\ defs < MaxDefs
  /\ Len(dic.names) < dic.nameSize /\ Len(dic.code) < dic.codeSize
  /\ defs' = defs + 1
  /\ dic' = [dic EXCEPT !.names = Append(@, defs'), !.code = Append(@, defs')]
  /\ UNCHANGED <<file, todo, pc, build, at, left, result, history, saves, starts>>

-----------------------------------------------------------------------------
(* The file as the operating system has it (disk), and the units the C     *)
(* library holds back for the place after the first base units.  They go   *)
(* out in order, all of them at a seek or a close, unless that fails.      *)
Overlay(units, new, base) ==
  [i \in 1 .. LargerOf(Len(units), base + Len(new)) |->
     IF i > base /\ i <= base + Len(new) THEN new[i - base] ELSE units[i]]

\* n of the units held have gone out.
Out(f, n) ==
  [disk |-> Overlay(f.disk, SubSeq(f.held, 1, n), f.base),
   base |-> f.base + n, held |-> SubSeq(f.held, n + 1, Len(f.held))]
SomeOut(f) == {Out(f, n) : n \in 0 .. Len(f.held)}
AllOut(f) == Out(f, Len(f.held))

sdWriteFile(f, u) == [f EXCEPT !.held = Append(@, u)]
sdTellFile(f) == f.base + Len(f.held)
\* When what is held cannot be written, the position stays as it is.
Sought(f, position) == [AllOut(f) EXCEPT !.base = position]
sdSeekFile(f, position) == {Sought(f, position)} \cup SomeOut(f)
\* A close that fails, or a program that is killed, loses what is held.
Closed(f) == [disk |-> f.disk, base |-> 0, held |-> <<>>]

-----------------------------------------------------------------------------
(* ffSaveForth                                                             *)
WriteChunkToFile(id, data) == <<id, Len(data)>> \o data

\* The fields of DictionaryInfoChunk by which a load goes.
InfoFields == <<"version", "headerPtr", "codePtr", "entry", "nameSize", "codeSize",
                "prims", "big", "float", "cell">>
convertDictionaryInfoWrite(sd) == [i \in 1 .. Len(InfoFields) |-> sd[InfoFields[i]]]
\* Behind a chunk that is too short there is other memory.
convertDictionaryInfoRead(data) ==
  [f \in Range(InfoFields) |->
     LET i == CHOOSE n \in 1 .. Len(InfoFields) : InfoFields[n] = f IN
     IF i <= Len(data) THEN data[i] ELSE Filler]

\* The code in use, relative to the code segment.
RelCodePtr(d) == Len(d.code)

\* Mutant of Room: the size asked for.
RoomAsked(asked, needed) == asked
\* The MAX of the size asked for and what is needed.
Room(asked, needed) == LargerOf(asked, needed)

\* NameSize 0 saves no names; else there is room for more than there are.
Info(d, entry, nameSize, codeSize) ==
  [version |-> build.version, entry |-> entry,
   headerPtr |-> IF nameSize = 0 THEN 0 ELSE Len(d.names),
   codePtr |-> RelCodePtr(d),
   nameSize |-> IF nameSize = 0 THEN 0 ELSE Room(nameSize, Len(d.names) + NameMargin),
   codeSize |-> Room(codeSize, Len(d.code) + CodeMargin),
   prims |-> d.prims, big |-> build.big, float |-> build.float, cell |-> build.cell]

Form(sd, d) ==
  <<FORM, 0, P4TH>> \o WriteChunkToFile(P4DI, convertDictionaryInfoWrite(sd))
    \o (IF sd.nameSize > 0 THEN WriteChunkToFile(P4NM, d.names) ELSE <<>>)
    \o WriteChunkToFile(P4CD, d.code)

\* "wb" empties the file.  When it cannot be opened nothing happens.
SaveOpen ==
  /\ pc = "idle" /\ saves < MaxSaves
  /\ saves' = saves + 1
  /\ \/ UNCHANGED <<file, pc, saved, lost>>
     \/ /\ file' = [disk |-> <<>>, base |-> 0, held |-> <<>>]
        /\ pc' = "term" /\ saved' = NULL /\ lost' = FALSE
  /\ UNCHANGED <<todo, build, dic, at, left, result, threw, defs, starts>>

\* AUTO.TERM ("Save in uninitialized form"), and the fields of the file.
SaveTerm(entry, nameSize, codeSize) ==
  /\ pc = "term" /\ pc' = "write"
  /\ \E d \in {dic, pfExecIfDefined(dic, -1)} :
       /\ dic' = d
       /\ threw' = (threw \/ d # pfExecIfDefined(dic, -1))
       /\ todo' = Form(Info(d, entry, nameSize, codeSize), d)
       /\ saved' = [build |-> build, whole |-> FALSE, nameless |-> nameSize > 0 /\ d.names = <<>>,
                    dic |-> [d EXCEPT !.entry = entry,
                                      !.names = IF nameSize = 0 THEN <<>> ELSE @]]
  /\ UNCHANGED <<file, build, at, left, result, lost, counts>>

Write ==
  /\ pc = "write" /\ todo # <<>>
  /\ \/ /\ file' = sdWriteFile(file, Head(todo))
        /\ todo' = Tail(todo)
        /\ UNCHANGED pc
     \/ /\ pc' = "error" /\ todo' = <<>>
        /\ UNCHANGED file
  /\ UNCHANGED <<build, dic, at, left, result, history, counts>>

\* The FORM size goes where the header left it 0; whether the seek failed is
\* not looked at.
WriteFormSize ==
  /\ pc = "write" /\ todo = <<>>
  /\ \E f \in sdSeekFile(file, 1) :
       /\ lost' = (lost \/ f # Sought(file, 1))
       /\ \/ /\ file' = sdWriteFile(f, sdTellFile(file) - 2) /\ pc' = "close"
             /\ saved' = [saved EXCEPT !.whole = TRUE]
          \/ file' = f /\ pc' = "error" /\ UNCHANGED saved
  /\ UNCHANGED <<todo, build, dic, at, left, result, threw, counts>>

\* Mutant of SaveError: it returns at once.
SaveErrorReturns ==
  /\ pc = "error" /\ pc' = "idle"
  /\ file' = Closed(Sought(file, 0))
  /\ UNCHANGED <<todo, build, dic, at, left, result, history, counts>>

\* Mark the file as bad, if that can still be written.
SaveError ==
  /\ pc = "error" /\ pc' = "close"
  /\ \E f \in sdSeekFile(file, 0) : file' \in {f, sdWriteFile(f, BADF)}
  /\ UNCHANGED <<todo, build, dic, at, left, result, history, counts>>

\* The result of the close is not looked at.
SaveClose ==
  /\ pc = "close" /\ pc' = "init"
  /\ \E f \in SomeOut(file) : file' = Closed(f) /\ lost' = (lost \/ f # AllOut(file))
  /\ UNCHANGED <<todo, build, dic, at, left, result, saved, threw, counts>>

\* "Restore initialization", after an error as well.
SaveInit ==
  /\ pc = "init" /\ pc' = "idle"
  /\ dic' \in {dic, pfExecIfDefined(dic, 1)}
  /\ threw' = (threw \/ dic' # pfExecIfDefined(dic, 1))
  /\ UNCHANGED <<file, todo, build, at, left, result, saved, lost, counts>>

\* The program ends or is killed, with some of the units held written.
Ends ==
  /\ pc # "down" /\ pc' = "down"
  /\ \E f \in SomeOut(file) : file' = Closed(f) /\ lost' = (lost \/ f # AllOut(file))
  /\ todo' = <<>> /\ dic' = NULL /\ at' = 0 /\ left' = 0 /\ result' = "ended"
  /\ UNCHANGED <<build, saved, threw, counts>>

-----------------------------------------------------------------------------
(* pfLoadDictionary and the start of a program in pfDoForth.  Every error  *)
(* closes the file and ends the program.                                   *)
disk == file.disk

\* BytesLeft is unsigned.  Mutant: signed.
LessSigned(n, m) == n - m
Less(n, m) == (n - m) % Wrap

\* One way or another the start fails.
Stops(how) ==
  /\ pc' = "down" /\ result' = how /\ dic' = NULL /\ at' = 0 /\ left' = 0
  /\ UNCHANGED <<file, todo, build, history, counts>>

Start(b) ==
  /\ pc = "down" /\ starts < MaxStarts
  /\ pc' = "header" /\ build' = b /\ result' = "started" /\ starts' = starts + 1
  /\ UNCHANGED <<file, todo, dic, at, left, history, saves, defs>>

\* The file cannot be opened or read, or there is no memory.
StartFails == pc \in {"header", "chunks"} /\ Stops("failed")

HeaderOK == Len(disk) >= 3 /\ disk[1] = FORM /\ disk[3] = P4TH

LoadHeader ==
  /\ pc = "header" /\ HeaderOK
  /\ pc' = "chunks" /\ at' = 3 /\ left' = Less(disk[2], 1)
  /\ UNCHANGED <<file, todo, build, dic, result, history, counts>>

\* The chunk that comes next, when its ID, its size and its data are there.
ChunkID == disk[at + 1]
ChunkSize == disk[at + 2]
Data == SubSeq(disk, at + 3, at + 2 + ChunkSize)
IsChunk(id) == left > 0 /\ at + 2 <= Len(disk) /\ ChunkID = id
Whole == at + 2 + ChunkSize <= Len(disk)

ReadChunk ==
  /\ at' = at + 2 + ChunkSize /\ left' = Less(left, 2 + ChunkSize)
  /\ UNCHANGED <<file, todo, pc, build, result, history, counts>>

\* The versions from version - 1 on (PF_EARLIEST_FILE_VERSION) are read.
Compatible(sd, b) ==
  /\ sd.version \in b.version - 1 .. b.version
  /\ sd.cell = b.cell /\ sd.prims <= b.prims
  /\ sd.big = b.big /\ sd.float = b.float

pfCreateDictionary(sd) ==
  [names |-> [i \in 1 .. sd.headerPtr |-> Filler], code |-> [i \in 1 .. sd.codePtr |-> Filler],
   nameSize |-> sd.nameSize, codeSize |-> sd.codeSize, prims |-> sd.prims, entry |-> sd.entry]

\* A chunk read into memory that is in use up to a pointer.
Filled(memory, data) ==
  [i \in 1 .. Len(memory) |-> IF i <= Len(data) THEN data[i] ELSE memory[i]]

InfoOK == Whole /\ Compatible(convertDictionaryInfoRead(Data), build)
NamesOK == dic # NULL /\ HasNames(dic) /\ ChunkSize <= dic.nameSize /\ Whole
CodeOK == dic # NULL /\ ChunkSize <= dic.codeSize /\ Whole

LoadInfo ==
  /\ pc = "chunks" /\ IsChunk(P4DI) /\ InfoOK
  /\ dic' = pfCreateDictionary(convertDictionaryInfoRead(Data))
  /\ ReadChunk

LoadNames ==
  /\ pc = "chunks" /\ IsChunk(P4NM) /\ NamesOK
  /\ dic' = [dic EXCEPT !.names = Filled(@, Data)]
  /\ ReadChunk

LoadCode ==
  /\ pc = "chunks" /\ IsChunk(P4CD) /\ CodeOK
  /\ dic' = [dic EXCEPT !.code = Filled(@, Data)]
  /\ ReadChunk

\* An unknown chunk is skipped, but not taken off BytesLeft.
Unknown == left > 0 /\ at + 2 <= Len(disk) /\ ChunkID \notin {P4DI, P4NM, P4CD}

SkipChunk ==
  /\ pc = "chunks" /\ Unknown
  /\ at' = at + 2 + ChunkSize /\ left' = Less(left, 2)
  /\ UNCHANGED <<file, todo, pc, build, dic, result, history, counts>>

\* FindSpecialXTs looks for three words of the kernel by their names.
Loaded == left = 0 /\ dic # NULL
SpecialXTs == HasNames(dic) => dic.names # <<>> /\ Filler \notin Range(dic.names)

LoadDone ==
  /\ pc = "chunks" /\ Loaded /\ SpecialXTs
  /\ pc' = "boot"
  /\ UNCHANGED <<file, todo, build, dic, at, left, result, history, counts>>

Readable ==
  \/ pc = "header" /\ HeaderOK
  \/ /\ pc = "chunks"
     /\ \/ IsChunk(P4DI) /\ InfoOK
        \/ IsChunk(P4NM) /\ NamesOK
        \/ IsChunk(P4CD) /\ CodeOK
        \/ Unknown
        \/ Loaded /\ SpecialXTs

\* Whatever else the file has.  (Names before P4DI, or a FORM without it, make
\* the code read through a NULL gCurrentDictionary: the program ends there.)
Refuse == pc \in {"header", "chunks"} /\ ~Readable /\ Stops("refused")

\* pfDoForth: an AUTO.INIT that throws ends the program.
AutoInit ==
  /\ pc = "boot" /\ pc' = "idle" /\ result' = "loaded"
  /\ dic' = pfExecIfDefined(dic, 1)
  /\ UNCHANGED <<file, todo, build, at, left, history, counts>>

AutoInitThrows == pc = "boot" /\ Stops("failed")

-----------------------------------------------------------------------------
Next ==
  \/ Define \/ SaveOpen \/ Write \/ WriteFormSize \/ SaveClose \/ SaveError \/ SaveInit
  \/ \E entry \in {0, 1}, n \in Sizes, c \in Sizes : SaveTerm(entry, n, c)
  \/ Ends
  \/ \E b \in Builds : Start(b)
  \/ StartFails \/ LoadHeader \/ LoadInfo \/ LoadNames \/ LoadCode \/ SkipChunk
  \/ LoadDone \/ Refuse \/ AutoInit \/ AutoInitThrows

Spec == Init /\ [][Next]_vars

-----------------------------------------------------------------------------
\* Types.  Memory that is in use lies within its area, and BytesLeft never
\* leaves the range of an unsigned number however sizes are taken off it.
TypeOK ==
  /\ file.disk \in Seq(Unit) /\ file.held \in Seq(Unit) /\ file.base \in Nat
  /\ todo \in Seq(Unit) /\ build \in Builds
  /\ pc \in {"idle", "term", "write", "error", "close", "init", "down", "header", "chunks", "boot"}
  /\ dic # NULL =>
       /\ dic.names \in Seq(Unit) /\ Len(dic.names) <= dic.nameSize
       /\ dic.code \in Seq(Unit) /\ Len(dic.code) <= dic.codeSize
  /\ left \in Unit /\ at \in Nat /\ lost \in BOOLEAN /\ threw \in BOOLEAN
  /\ result \in {"built", "started", "loaded", "refused", "failed", "ended"}

\* What the last save came from: a program, with the primitives its dictionary
\* was built with, which are those of an older program if it was loaded.
savedBy == [saved.build EXCEPT !.prims = saved.dic.prims]

\* A program starts only with all that the last save was to write, names and
\* code as they were after AUTO.TERM, if that save came to write the FORM size
\* and was made by a program with the same cells, byte order and floats, from a
\* dictionary with no more primitives: whatever writes, seeks and closes failed
\* in that and older saves, and wherever programs were killed (pf_save.c:383-757).
loadsOnlySaved ==
  pc = "boot" =>
    /\ saved # NULL /\ saved.whole
    /\ Compatible(savedBy, build)
    /\ dic.names = saved.dic.names /\ dic.code = saved.dic.code
    /\ dic.prims = saved.dic.prims /\ dic.entry = saved.dic.entry

\* What a save wrote without an error, noticed or not, a compatible program is
\* not refused, however names and code have grown since they were loaded.  (But
\* for a program without names that asks for a NameSize, pf_save.c:450-469.)
savedLoads ==
  result = "refused" /\ saved # NULL /\ saved.whole /\ ~lost
    => ~Compatible(savedBy, build) \/ saved.nameless

\* A program starts with the last whole save or is refused, and is refused only
\* for a reason (pf_save.c:383-757).
LoadsWhatWasSaved == loadsOnlySaved /\ savedLoads

\* Between saves and after a start AUTO.INIT has run once more than AUTO.TERM,
\* if there are names to find them by, else not at all: neither the exits of
\* ffSaveForth nor saving and loading again lose or repeat one
\* (pf_save.c:400, 501, 510, pf_core.c:634).
InitializedOnce ==
  pc = "idle" /\ ~threw => dic.code[1] = IF HasNames(dic) THEN 1 ELSE 0
=============================================================================
