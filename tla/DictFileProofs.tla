--------------------------- MODULE DictFileProofs ---------------------------
(***************************************************************************)
(* Proofs about DictFile for any builds, sizes and margins.  What a save   *)
(* can leave is the form it was to write with its size in place, or a      *)
(* beginning of it without; and pfLoadDictionary takes the first only.     *)
(***************************************************************************)
EXTENDS DictFile, SequenceTheorems, TLAPS

Dictionaries == [names : Seq(Size), code : Seq(Unit), nameSize : Nat, codeSize : Nat,
                 prims : Size, entry : {0, 1}]
Fits(d) == Len(d.names) <= d.nameSize /\ Len(d.code) <= d.codeSize
\* As many words as were defined, and those a dictionary has from the start.
Grown(d) == Len(d.names) <= 1 + defs /\ Len(d.code) \in 1 .. 2 + defs

Saves == [build : Builds, whole : BOOLEAN, nameless : BOOLEAN, dic : Dictionaries]

\* The sizes that ffSaveForth may have given a save, and the units it wrote.
InfoOf(s, nameSize, codeSize) ==
  [version |-> s.build.version, headerPtr |-> Len(s.dic.names), codePtr |-> Len(s.dic.code),
   entry |-> s.dic.entry, nameSize |-> nameSize, codeSize |-> codeSize, prims |-> s.dic.prims,
   big |-> s.build.big, float |-> s.build.float, cell |-> s.build.cell]
Sized(s, nameSize, codeSize) ==
  /\ Len(s.dic.names) <= nameSize /\ Len(s.dic.code) <= codeSize
  /\ s.nameless <=> nameSize > 0 /\ s.dic.names = <<>>
Forms(s) ==
  {Form(InfoOf(s, a[1], a[2]), s.dic) : a \in {a \in Size \X Size : Sized(s, a[1], a[2])}}

\* Files that a save of the form w may leave: one that is finished, and one that
\* is not, of which the FORM size is 0 or that of a failed attempt to mark it.
Finished(d, w) ==
  /\ Len(d) = Len(w) /\ d[2] = Len(w) - 2
  /\ \A i \in 1 .. Len(w) : i # 2 => d[i] = w[i]
Broken(d, w) ==
  /\ Len(d) <= Len(w) + 1
  /\ Len(d) >= 3 => d[2] \in {0, BADF}
  /\ \A i \in 3 .. Len(d) - 1 : d[i] = w[i]
  /\ Len(d) \in 3 .. Len(w) => d[Len(d)] \in {w[Len(d)], BADF}

MayBeLeft(d) ==
  IF saved = NULL THEN P4DI \notin Range(d)
  ELSE \E w \in Forms(saved) : Broken(d, w) \/ (saved.whole /\ Finished(d, w))

(***************************************************************************)
(* The inductive invariant.                                                *)
(***************************************************************************)
Buffered == [disk : Seq(Unit), base : Nat, held : Seq(Unit)]
Types ==
  /\ file \in Buffered /\ file.base <= Len(file.disk)
  /\ todo \in Seq(Unit) /\ build \in Builds
  /\ pc \in {"idle", "term", "write", "error", "close", "init", "down", "header", "chunks", "boot"}
  /\ left \in Unit /\ at \in Nat /\ lost \in BOOLEAN /\ threw \in BOOLEAN
  /\ result \in {"built", "started", "loaded", "refused", "failed", "ended"}
  /\ defs \in 0 .. MaxDefs

Working == pc \in {"idle", "term", "write", "error", "close", "init", "boot"}

InMemory ==
  /\ Working => dic \in Dictionaries /\ Fits(dic) /\ Grown(dic)
  /\ pc \in {"down", "header"} => dic = NULL
  /\ saved # NULL => saved \in Saves /\ Grown(saved.dic)

\* However it ends, the program leaves a file that may be loaded or not.
Recoverable ==
  /\ \A f \in SomeOut(file) : MayBeLeft(f.disk)
  /\ saved # NULL /\ saved.whole /\ ~lost =>
       \E w \in Forms(saved) : Finished(AllOut(file).disk, w)

Opened == file.disk = <<>> /\ file.base = 0

\* Where a save is.  What was written is what the form begins with, in disk and
\* buffer, or all of it is on the disk and the position is at the FORM size.
Saving ==
  /\ pc # "write" => todo = <<>>
  /\ pc = "term" => Opened /\ file.held = <<>> /\ saved = NULL /\ ~lost
  /\ pc = "write" =>
       Opened /\ saved # NULL /\ ~saved.whole /\ ~lost /\ file.held \o todo \in Forms(saved)
  /\ pc = "error" =>
       /\ saved # NULL /\ ~saved.whole
       /\ \E w \in Forms(saved) :
            \/ /\ file.base = Len(file.disk)
               /\ \E n \in 0 .. Len(w) : file.disk \o file.held = SubSeq(w, 1, n)
            \/ file.disk = w /\ file.base = 1 /\ file.held = <<>>
  /\ pc = "close" => saved # NULL
  /\ pc \notin {"term", "write", "error", "close"} => file.base = 0 /\ file.held = <<>>

\* What BytesLeft is when n units were read.
BytesLeft(d, w, n) ==
  IF Finished(d, w) THEN Len(w) - n
  ELSE IF d[2] = 0 THEN Wrap + 2 - n ELSE Wrap - 4 - n

\* The chunks of a form, in their order: P4DI, names if there are, and code.
CodeAt(s, nameSize) == IF nameSize = 0 THEN 15 ELSE 17 + Len(s.dic.names)

\* What was read of the file of a save.
Read(w) ==
  /\ Broken(disk, w) \/ (saved.whole /\ Finished(disk, w))
  /\ saved.whole /\ ~lost => Finished(disk, w)
  /\ at <= Len(disk) /\ at \in {3, 15, CodeAt(saved, w[10]), Len(w)}
  /\ left = BytesLeft(disk, w, at)
  /\ at = 3 => dic = NULL
  /\ at # 3 =>
       /\ Compatible(savedBy, build)
       /\ dic \in [names : Seq(Unit), code : Seq(Unit), nameSize : {w[10]}, codeSize : {w[11]},
                   prims : {saved.dic.prims}, entry : {saved.dic.entry}]
       /\ Len(dic.names) = Len(saved.dic.names) /\ Len(dic.code) = Len(saved.dic.code)
       /\ Finished(disk, w) /\ at >= CodeAt(saved, w[10]) => dic.names = saved.dic.names
       /\ Finished(disk, w) /\ at = Len(w) => dic.code = saved.dic.code

Reading ==
  pc = "chunks" => IF saved = NULL THEN dic = NULL ELSE \E w \in Forms(saved) : Read(w)

\* AUTO.INITs that were not undone, in memory and in the file.
Initialized ==
  ~threw =>
    /\ pc \in {"idle", "term"} => dic.code[1] = IF HasNames(dic) THEN 1 ELSE 0
    /\ pc \in {"write", "error", "close", "init", "boot"} => dic.code[1] = 0
    /\ saved # NULL => saved.dic.code[1] = 0

Refused == result = "refused" => pc = "down"

IInv == /\ Types /\ InMemory /\ Recoverable /\ Saving /\ Reading /\ Initialized
        /\ Refused /\ LoadsWhatWasSaved

-----------------------------------------------------------------------------
(* Numbers and sequences.                                                  *)

LEMMA Numbers ==
  /\ Filler \in Nat /\ Filler > 22 + 2 * MaxDefs /\ Wrap \in Nat /\ Wrap = Filler + 7
  /\ MaxDefs \in Nat /\ NameMargin \in Nat /\ CodeMargin \in Nat
  /\ Size \subseteq Nat /\ Size \subseteq Unit /\ Unit \subseteq Nat
  /\ \A i \in Nat : i < Filler <=> i \in Size
  /\ {FORM, P4TH, P4DI, P4NM, P4CD, BADF, Filler} \subseteq Unit \ Size
  <1>1. /\ Wrap \in Nat /\ MaxDefs \in Nat /\ NameMargin \in Nat /\ CodeMargin \in Nat
        /\ 22 + 2 * MaxDefs \in Size
    BY DictFileAssumption
  <1>2. Size = 0 .. Wrap - 8 /\ Unit = 0 .. Wrap - 1 /\ Filler = Wrap - 7
    BY <1>1 DEF Size, Unit, Filler
  <1>3. /\ Filler \in Nat /\ Filler > 22 + 2 * MaxDefs /\ Wrap = Filler + 7
        /\ Size \subseteq Nat /\ Size \subseteq Unit /\ Unit \subseteq Nat
        /\ \A i \in Nat : i < Filler <=> i \in Size
    BY <1>1, <1>2
  <1>4. {FORM, P4TH, P4DI, P4NM, P4CD, BADF, Filler} \subseteq Unit \ Size
    BY <1>1, <1>2, <1>3 DEF FORM, P4TH, P4DI, P4NM, P4CD, BADF
  <1> QED BY <1>1, <1>3, <1>4

\* Unsigned arithmetic, at most once around.
LEMMA Modulo ==
  ASSUME NEW x \in Int
  PROVE  /\ x % Wrap \in Unit
         /\ x \in Unit => x % Wrap = x
         /\ x < 0 /\ x + Wrap >= 0 => x % Wrap = x + Wrap
  <1>1. Wrap \in Nat /\ Wrap > 0
    BY Numbers
  <1>2. x % Wrap \in Unit
    BY <1>1 DEF Unit
  <1>3. x \in Unit => x % Wrap = x
    BY <1>1 DEF Unit
  <1>4. x < 0 /\ x + Wrap >= 0 => x % Wrap = x + Wrap
    BY <1>1
  <1> QED BY <1>2, <1>3, <1>4

LEMMA Larger ==
  ASSUME NEW a \in Nat, NEW b \in Nat
  PROVE  /\ LargerOf(a, b) \in Nat /\ LargerOf(a, b) >= a /\ LargerOf(a, b) >= b
         /\ LargerOf(a, b) \in {a, b}
  BY DEF LargerOf

\* One sequence behind another.
LEMMA Joined ==
  ASSUME NEW S, NEW s \in Seq(S), NEW t \in Seq(S)
  PROVE  /\ s \o t \in Seq(S) /\ Len(s \o t) = Len(s) + Len(t)
         /\ \A i \in 1 .. Len(s) : (s \o t)[i] = s[i]
         /\ \A i \in 1 .. Len(t) : (s \o t)[Len(s) + i] = t[i]
  OBVIOUS

LEMMA JoinedAt ==
  ASSUME NEW S, NEW s \in Seq(S), NEW t \in Seq(S), NEW i \in 1 .. Len(t)
  PROVE  (s \o t)[Len(s) + i] = t[i]
  OBVIOUS

\* What a sequence begins with.
LEMMA Beginning ==
  ASSUME NEW S, NEW s \in Seq(S), NEW n \in 0 .. Len(s)
  PROVE  /\ SubSeq(s, 1, n) \in Seq(S) /\ Len(SubSeq(s, 1, n)) = n
         /\ \A i \in 1 .. n : SubSeq(s, 1, n)[i] = s[i]
  OBVIOUS

-----------------------------------------------------------------------------
(* The form of a save.                                                     *)

LEMMA Chunk ==
  ASSUME NEW id \in Unit, NEW data \in Seq(Unit), Len(data) \in Unit
  PROVE  LET c == WriteChunkToFile(id, data) IN
         /\ c \in Seq(Unit) /\ Len(c) = 2 + Len(data) /\ c[1] = id /\ c[2] = Len(data)
         /\ \A i \in 1 .. Len(data) : c[2 + i] = data[i]
  <1> DEFINE h == <<id, Len(data)>>
             c == h \o data
  <1>1. h \in Seq(Unit) /\ Len(h) = 2 /\ h[1] = id /\ h[2] = Len(data)
    OBVIOUS
  <1> HIDE DEF h
  <1>2. /\ c \in Seq(Unit) /\ Len(c) = 2 + Len(data)
        /\ \A i \in 1 .. 2 : c[i] = h[i]
        /\ \A i \in 1 .. Len(data) : c[2 + i] = data[i]
    <2>1. h \o data \in Seq(Unit) /\ Len(h \o data) = Len(h) + Len(data)
      BY <1>1, Joined
    <2>2. \A i \in 1 .. Len(h) : (h \o data)[i] = h[i]
      BY <1>1, Joined
    <2>3. \A i \in 1 .. Len(data) : (h \o data)[Len(h) + i] = data[i]
      <3>1. h \in Seq(Unit)
        BY <1>1
      <3> QED BY <3>1, Joined
    <2> QED BY <1>1, <2>1, <2>2, <2>3
  <1>3. c[1] = id /\ c[2] = Len(data)
    <2> HIDE DEF c
    <2>1. 1 \in 1 .. 2 /\ 2 \in 1 .. 2 OBVIOUS
    <2> QED BY <1>1, <1>2, <2>1
  <1> QED BY <1>2, <1>3 DEF WriteChunkToFile, h

\* P4DI is the fields in their order, and a load finds them again.
LEMMA InfoWritten ==
  ASSUME NEW sd
  PROVE  LET d == convertDictionaryInfoWrite(sd) IN
         /\ Len(d) = 10 /\ DOMAIN d = 1 .. 10
         /\ d[1] = sd.version /\ d[2] = sd.headerPtr /\ d[3] = sd.codePtr /\ d[4] = sd.entry
         /\ d[5] = sd.nameSize /\ d[6] = sd.codeSize /\ d[7] = sd.prims /\ d[8] = sd.big
         /\ d[9] = sd.float /\ d[10] = sd.cell
  <1> DEFINE d == convertDictionaryInfoWrite(sd)
  <1>1. Len(InfoFields) = 10
    BY DEF InfoFields
  <1>2. d = [i \in 1 .. 10 |-> sd[InfoFields[i]]]
    BY <1>1 DEF convertDictionaryInfoWrite
  <1>3. /\ InfoFields[1] = "version" /\ InfoFields[2] = "headerPtr" /\ InfoFields[3] = "codePtr"
        /\ InfoFields[4] = "entry" /\ InfoFields[5] = "nameSize" /\ InfoFields[6] = "codeSize"
        /\ InfoFields[7] = "prims" /\ InfoFields[8] = "big" /\ InfoFields[9] = "float"
        /\ InfoFields[10] = "cell"
    BY DEF InfoFields
  <1>4. /\ d[1] = sd.version /\ d[2] = sd.headerPtr /\ d[3] = sd.codePtr /\ d[4] = sd.entry
        /\ d[5] = sd.nameSize /\ d[6] = sd.codeSize /\ d[7] = sd.prims /\ d[8] = sd.big
        /\ d[9] = sd.float /\ d[10] = sd.cell
    BY <1>2, <1>3
  <1>5. Len(d) = 10 /\ DOMAIN d = 1 .. 10
    BY <1>2
  <1> QED BY <1>4, <1>5

LEMMA InfoFound ==
  ASSUME NEW data \in Seq(Unit), Len(data) = 10
  PROVE  LET sd == convertDictionaryInfoRead(data) IN
         /\ sd.version = data[1] /\ sd.headerPtr = data[2] /\ sd.codePtr = data[3]
         /\ sd.entry = data[4] /\ sd.nameSize = data[5] /\ sd.codeSize = data[6]
         /\ sd.prims = data[7] /\ sd.big = data[8] /\ sd.float = data[9] /\ sd.cell = data[10]
  <1>1. Len(InfoFields) = 10 /\ DOMAIN InfoFields = 1 .. 10
    BY DEF InfoFields
  <1>2. /\ InfoFields[1] = "version" /\ InfoFields[2] = "headerPtr" /\ InfoFields[3] = "codePtr"
        /\ InfoFields[4] = "entry" /\ InfoFields[5] = "nameSize" /\ InfoFields[6] = "codeSize"
        /\ InfoFields[7] = "prims" /\ InfoFields[8] = "big" /\ InfoFields[9] = "float"
        /\ InfoFields[10] = "cell"
    BY DEF InfoFields
  <1>3. ASSUME NEW i \in 1 .. 10
        PROVE  convertDictionaryInfoRead(data)[InfoFields[i]] = data[i]
    <2>1. \A n \in 1 .. 10 : InfoFields[n] = InfoFields[i] => n = i
      BY DEF InfoFields
    <2>2. (CHOOSE n \in 1 .. Len(InfoFields) : InfoFields[n] = InfoFields[i]) = i
      BY <1>1, <2>1
    <2>3. InfoFields[i] \in Range(InfoFields)
      BY <1>1 DEF Range
    <2>4. i <= Len(data)
      OBVIOUS
    <2> DEFINE At(f) == CHOOSE n \in 1 .. Len(InfoFields) : InfoFields[n] = f
    <2>5. convertDictionaryInfoRead(data) =
            [f \in Range(InfoFields) |-> IF At(f) <= Len(data) THEN data[At(f)] ELSE Filler]
      BY DEF convertDictionaryInfoRead
    <2>6. At(InfoFields[i]) = i
      BY <2>2
    <2> HIDE DEF At
    <2> QED BY <2>3, <2>4, <2>5, <2>6
  <1> QED BY <1>2, <1>3

\* Where the units of a form are.
Layout(w, s) ==
  /\ w \in Seq(Unit) /\ Len(w) = CodeAt(s, w[10]) + 2 + Len(s.dic.code)
  /\ w[1] = FORM /\ w[2] = 0 /\ w[3] = P4TH /\ w[4] = P4DI /\ w[5] = 10
  /\ w[6] = s.build.version /\ w[7] = Len(s.dic.names) /\ w[8] = Len(s.dic.code)
  /\ w[9] = s.dic.entry /\ w[10] \in Size /\ w[11] \in Size /\ w[12] = s.dic.prims
  /\ w[13] = s.build.big /\ w[14] = s.build.float /\ w[15] = s.build.cell
  /\ Sized(s, w[10], w[11])
  /\ w[10] # 0 =>
       /\ w[16] = P4NM /\ w[17] = Len(s.dic.names)
       /\ \A i \in 1 .. Len(s.dic.names) : w[17 + i] = s.dic.names[i]
  /\ w[CodeAt(s, w[10]) + 1] = P4CD /\ w[CodeAt(s, w[10]) + 2] = Len(s.dic.code)
  /\ \A i \in 1 .. Len(s.dic.code) : w[CodeAt(s, w[10]) + 2 + i] = s.dic.code[i]

\* The lengths of what a save writes are small.
LEMMA Small ==
  ASSUME Types, NEW s \in Saves, Grown(s.dic)
  PROVE  /\ s.dic.names \in Seq(Unit) /\ s.dic.code \in Seq(Unit)
         /\ Len(s.dic.names) \in Size /\ Len(s.dic.code) \in Size /\ Len(s.dic.code) >= 1
         /\ 19 + Len(s.dic.names) + Len(s.dic.code) < Filler
         /\ s.build \in Builds /\ s.build.version \in Size /\ s.build.cell \in Size
         /\ s.build.float \in Size /\ s.build.big \in {0, 1} /\ s.dic.prims \in Size
         /\ s.dic.entry \in {0, 1} /\ s.dic \in Dictionaries
  <1>1. s.dic \in Dictionaries /\ s.build \in Builds
    BY DEF Saves
  <1>2. s.dic.names \in Seq(Size) /\ s.dic.code \in Seq(Unit) /\ s.dic.prims \in Size
        /\ s.dic.entry \in {0, 1}
    BY <1>1 DEF Dictionaries
  <1>3. s.build \in [version : Size, cell : Size, big : {0, 1}, float : Size, prims : Size]
    BY <1>1, DictFileAssumption
  <1>4. s.dic.names \in Seq(Unit) /\ s.dic.code \in Seq(Unit)
    <2>1. Size \subseteq Unit
      BY Numbers
    <2> QED BY <1>2, <2>1, SeqMonotonic
  <1>5. Len(s.dic.names) \in Nat /\ Len(s.dic.code) \in Nat /\ defs \in 0 .. MaxDefs
    BY <1>2 DEF Types
  <1>6. /\ Len(s.dic.names) <= 1 + defs /\ Len(s.dic.code) <= 2 + defs /\ Len(s.dic.code) >= 1
        /\ Len(s.dic.names) < Filler /\ Len(s.dic.code) < Filler
        /\ 19 + Len(s.dic.names) + Len(s.dic.code) < Filler
    <2>1. Len(s.dic.names) <= 1 + defs /\ Len(s.dic.code) <= 2 + defs /\ Len(s.dic.code) >= 1
      BY <1>5 DEF Grown
    <2>2. defs <= MaxDefs /\ defs \in Nat /\ MaxDefs \in Nat /\ Filler \in Nat /\ Filler > 22 + 2 * MaxDefs
      BY <1>5, Numbers
    <2> DEFINE n == Len(s.dic.names)
               c == Len(s.dic.code)
    <2>3. n \in Nat /\ c \in Nat
      BY <1>5
    <2>4. n <= 1 + defs /\ c <= 2 + defs /\ c >= 1
      BY <2>1
    <2> HIDE DEF n, c
    <2>5. n < Filler /\ c < Filler /\ 19 + n + c < Filler
      BY <2>2, <2>3, <2>4
    <2> QED BY <2>1, <2>5 DEF n, c
  <1>7. Len(s.dic.names) \in Size /\ Len(s.dic.code) \in Size
    BY <1>5, <1>6, Numbers
  <1> QED BY <1>1, <1>2, <1>3, <1>4, <1>6, <1>7

LEMMA FormLayout ==
  ASSUME Types, NEW s \in Saves, Grown(s.dic), NEW w \in Forms(s)
  PROVE  Layout(w, s) /\ Len(w) < Filler
  <1>1. PICK a \in Size \X Size :
          Sized(s, a[1], a[2]) /\ w = Form(InfoOf(s, a[1], a[2]), s.dic)
    BY DEF Forms
  <1> DEFINE sd == InfoOf(s, a[1], a[2])
             d == convertDictionaryInfoWrite(sd)
             h == <<FORM, 0, P4TH>>
             info == WriteChunkToFile(P4DI, d)
             nm == IF sd.nameSize > 0 THEN WriteChunkToFile(P4NM, s.dic.names) ELSE <<>>
             cd == WriteChunkToFile(P4CD, s.dic.code)
             n == Len(s.dic.names)
             c == Len(s.dic.code)
             k == CodeAt(s, a[1])
  <1>2. a[1] \in Size /\ a[2] \in Size
    BY <1>1
  <1>3. /\ n \in Size /\ c \in Size /\ 19 + n + c < Filler
        /\ s.dic.names \in Seq(Unit) /\ s.dic.code \in Seq(Unit)
    BY Small
  <1>4. /\ Len(d) = 10 /\ d[1] = s.build.version /\ d[2] = n /\ d[3] = c /\ d[4] = s.dic.entry
        /\ d[5] = a[1] /\ d[6] = a[2] /\ d[7] = s.dic.prims /\ d[8] = s.build.big
        /\ d[9] = s.build.float /\ d[10] = s.build.cell
    BY InfoWritten DEF InfoOf
  <1>5. d \in Seq(Unit)
    <2>1. \A i \in 1 .. 10 : d[i] \in Unit
      <3>1. /\ s.build.version \in Unit /\ n \in Unit /\ c \in Unit /\ s.dic.entry \in Unit
            /\ a[1] \in Unit /\ a[2] \in Unit /\ s.dic.prims \in Unit /\ s.build.big \in Unit
            /\ s.build.float \in Unit /\ s.build.cell \in Unit
        <4>1. /\ s.build.version \in Size /\ s.dic.entry \in {0, 1} /\ s.dic.prims \in Size
              /\ s.build.big \in {0, 1} /\ s.build.float \in Size /\ s.build.cell \in Size
          BY Small
        <4>2. 0 \in Size /\ 1 \in Size /\ Size \subseteq Unit
          BY Numbers
        <4> HIDE DEF n, c
        <4> QED BY <1>2, <1>3, <4>1, <4>2
      <3> HIDE DEF d, n, c
      <3> QED BY <1>4, <3>1
    <2>2. d = [i \in 1 .. 10 |-> sd[InfoFields[i]]]
      BY DEF convertDictionaryInfoWrite, InfoFields
    <2>3. d \in [1 .. 10 -> Unit]
      <3>1. d = [i \in 1 .. 10 |-> d[i]]
        BY <2>2
      <3> HIDE DEF d
      <3> QED BY <2>1, <3>1
    <2> HIDE DEF d
    <2>4. [1 .. 10 -> Unit] \in {[1 .. m -> Unit] : m \in Nat}
      OBVIOUS
    <2>5. d \in UNION {[1 .. m -> Unit] : m \in Nat}
      BY <2>3, <2>4
    <2>6. Seq(Unit) = UNION {[1 .. m -> Unit] : m \in Nat}
      BY SeqDef
    <2> QED BY <2>5, <2>6
  <1>6. h \in Seq(Unit) /\ Len(h) = 3 /\ h[1] = FORM /\ h[2] = 0 /\ h[3] = P4TH
    <2>1. FORM \in Unit /\ P4TH \in Unit /\ 0 \in Unit
      BY Numbers
    <2> QED BY <2>1
  <1>7. /\ info \in Seq(Unit) /\ Len(info) = 12 /\ info[1] = P4DI /\ info[2] = 10
        /\ \A i \in 1 .. 10 : info[2 + i] = d[i]
    <2>1. P4DI \in Unit /\ 10 \in Unit
      BY Numbers
    <2> HIDE DEF d
    <2>2. Len(d) = 10 /\ d \in Seq(Unit)
      BY <1>4, <1>5
    <2>3. /\ info \in Seq(Unit) /\ Len(info) = 2 + Len(d) /\ info[1] = P4DI /\ info[2] = Len(d)
          /\ \A i \in 1 .. Len(d) : info[2 + i] = d[i]
      <3>1. Len(d) \in Unit
        BY <2>1, <2>2
      <3> QED BY <2>1, <2>2, <3>1, Chunk
    <2> HIDE DEF info
    <2> QED BY <2>2, <2>3
  <1>8. /\ nm \in Seq(Unit) /\ 15 + Len(nm) = k
        /\ a[1] # 0 => /\ nm[1] = P4NM /\ nm[2] = n
                       /\ \A i \in 1 .. n : nm[2 + i] = s.dic.names[i]
    <2>1. sd.nameSize = a[1] /\ a[1] \in Nat
      BY <1>2, Numbers DEF InfoOf
    <2>2. CASE a[1] = 0
      BY <2>1, <2>2 DEF CodeAt
    <2>3. CASE a[1] # 0
      <3>1. nm = WriteChunkToFile(P4NM, s.dic.names)
        BY <2>1, <2>3
      <3>2. P4NM \in Unit /\ n \in Unit
        BY <1>3, Numbers
      <3>3. /\ nm \in Seq(Unit) /\ Len(nm) = 2 + n /\ nm[1] = P4NM /\ nm[2] = n
            /\ \A i \in 1 .. n : nm[2 + i] = s.dic.names[i]
        <4> HIDE DEF nm
        <4>1. s.dic.names \in Seq(Unit) /\ Len(s.dic.names) \in Unit
          BY <1>3, <3>2
        <4> QED BY <3>1, <3>2, <4>1, Chunk
      <3>4. k = 17 + n /\ n \in Nat
        BY <1>3, <2>3, Numbers DEF CodeAt
      <3> HIDE DEF nm, n, k
      <3> QED BY <3>3, <3>4
    <2> QED BY <2>2, <2>3
  <1>9. /\ cd \in Seq(Unit) /\ Len(cd) = 2 + c /\ cd[1] = P4CD /\ cd[2] = c
        /\ \A i \in 1 .. c : cd[2 + i] = s.dic.code[i]
    <2>1. P4CD \in Unit /\ c \in Unit
      BY <1>3, Numbers
    <2> QED BY <1>3, <2>1, Chunk
  <1>10. w = h \o info \o nm \o cd
    BY <1>1 DEF Form
  <1> HIDE DEF d, h, info, nm, cd
  <1> DEFINE x == h \o info
             y == x \o nm
  <1>11. x \in Seq(Unit) /\ Len(x) = 15
    <2>1. h \in Seq(Unit) /\ info \in Seq(Unit)
      BY <1>6, <1>7
    <2>2. x \in Seq(Unit) /\ Len(x) = Len(h) + Len(info)
      BY <2>1, Joined
    <2> QED BY <1>6, <1>7, <2>2
  <1>12. \A i \in 1 .. 3 : x[i] = h[i]
    <2>1. h \in Seq(Unit) /\ info \in Seq(Unit)
      BY <1>6, <1>7
    <2>2. \A i \in 1 .. Len(h) : x[i] = h[i]
      BY <2>1, Joined
    <2> QED BY <1>6, <2>2
  <1>13. \A i \in 1 .. 12 : x[3 + i] = info[i]
    <2>1. h \in Seq(Unit) /\ info \in Seq(Unit)
      BY <1>6, <1>7
    <2>2. \A i \in 1 .. Len(info) : x[Len(h) + i] = info[i]
      BY <2>1, Joined
    <2> QED BY <1>6, <1>7, <2>2
  <1> HIDE DEF x
  <1>14. y \in Seq(Unit) /\ Len(y) = k /\ \A i \in 1 .. 15 : y[i] = x[i]
    <2>1. x \in Seq(Unit) /\ nm \in Seq(Unit)
      BY <1>8, <1>11
    <2>2. y \in Seq(Unit) /\ Len(y) = Len(x) + Len(nm) /\ \A i \in 1 .. Len(x) : y[i] = x[i]
      BY <2>1, Joined
    <2> HIDE DEF k
    <2> QED BY <1>8, <1>11, <2>2
  <1>15. \A i \in 1 .. Len(nm) : y[15 + i] = nm[i]
    <2>1. x \in Seq(Unit) /\ nm \in Seq(Unit)
      BY <1>8, <1>11
    <2>2. \A i \in 1 .. Len(nm) : y[Len(x) + i] = nm[i]
      BY <2>1, Joined
    <2> QED BY <1>11, <2>2
  <1> HIDE DEF y
  <1>16. w = y \o cd
    BY <1>10 DEF x, y
  <1>17. w \in Seq(Unit) /\ Len(w) = k + 2 + c /\ \A i \in 1 .. k : w[i] = y[i]
    <2>3. y \in Seq(Unit) /\ cd \in Seq(Unit)
      BY <1>9, <1>14
    <2>1. w \in Seq(Unit) /\ Len(w) = Len(y) + Len(cd) /\ \A i \in 1 .. Len(y) : w[i] = y[i]
      BY <1>16, <2>3, Joined
    <2>2. k \in Nat /\ c \in Nat
      BY <1>3, <1>14, Numbers
    <2> HIDE DEF k, c
    <2> QED BY <1>9, <1>14, <2>1, <2>2
  <1>18. \A i \in 1 .. 2 + c : w[k + i] = cd[i]
    <2>1. y \in Seq(Unit) /\ cd \in Seq(Unit)
      BY <1>9, <1>14
    <2>2. \A i \in 1 .. Len(cd) : w[Len(y) + i] = cd[i]
      BY <1>16, <2>1, Joined
    <2>3. Len(y) = k /\ Len(cd) = 2 + c
      BY <1>9, <1>14
    <2> HIDE DEF k, c
    <2> QED BY <2>2, <2>3
  <1>19. n \in Nat /\ c \in Nat /\ k \in Nat /\ k >= 15 /\ a[1] \in Nat
    <2>1. n \in Nat /\ c \in Nat /\ a[1] \in Nat
      BY <1>2, <1>3, Numbers
    <2>2. k = IF a[1] = 0 THEN 15 ELSE 17 + n
      BY DEF CodeAt
    <2> HIDE DEF n, c, k
    <2> QED BY <2>1, <2>2
  <1>20. \A i \in 1 .. 15 : w[i] = x[i]
    <2>1. \A i \in 1 .. 15 : i \in 1 .. k
      BY <1>19
    <2> HIDE DEF k
    <2> QED BY <1>14, <1>17, <2>1
  <1>21. w[1] = FORM /\ w[2] = 0 /\ w[3] = P4TH
    <2>1. w[1] = x[1] /\ w[2] = x[2] /\ w[3] = x[3]
      BY <1>20
    <2> QED BY <1>6, <1>12, <2>1
  <1>22. w[4] = info[1] /\ w[5] = info[2] /\ \A i \in 1 .. 10 : w[5 + i] = d[i]
    <2>1. \A i \in 1 .. 12 : w[3 + i] = info[i]
      <3>1. \A i \in 1 .. 12 : 3 + i \in 1 .. 15
        OBVIOUS
      <3> QED BY <1>13, <1>20, <3>1
    <2>2. w[4] = info[1] /\ w[5] = info[2]
      BY <2>1
    <2>3. ASSUME NEW i \in 1 .. 10 PROVE w[5 + i] = d[i]
      <3>1. 2 + i \in 1 .. 12 /\ 3 + (2 + i) = 5 + i
        OBVIOUS
      <3> QED BY <1>7, <2>1, <3>1
    <2> QED BY <2>2, <2>3
  <1>23. /\ w[6] = s.build.version /\ w[7] = n /\ w[8] = c /\ w[9] = s.dic.entry
         /\ w[10] = a[1] /\ w[11] = a[2] /\ w[12] = s.dic.prims /\ w[13] = s.build.big
         /\ w[14] = s.build.float /\ w[15] = s.build.cell
    <2>1. /\ w[6] = d[1] /\ w[7] = d[2] /\ w[8] = d[3] /\ w[9] = d[4] /\ w[10] = d[5]
          /\ w[11] = d[6] /\ w[12] = d[7] /\ w[13] = d[8] /\ w[14] = d[9] /\ w[15] = d[10]
      BY <1>22
    <2> QED BY <1>4, <2>1
  <1>24. a[1] # 0 =>
           /\ w[16] = P4NM /\ w[17] = n
           /\ \A i \in 1 .. n : w[17 + i] = s.dic.names[i]
    <2> SUFFICES ASSUME a[1] # 0
                 PROVE  /\ w[16] = P4NM /\ w[17] = n
                        /\ \A i \in 1 .. n : w[17 + i] = s.dic.names[i]
      OBVIOUS
    <2>1. k = 17 + n /\ Len(nm) = 2 + n
      BY <1>8, <1>19 DEF CodeAt
    <2>2. \A i \in 1 .. 2 + n : w[15 + i] = nm[i]
      <3>1. \A i \in 1 .. 2 + n : 15 + i \in 1 .. k
        BY <1>19, <2>1
      <3> HIDE DEF n, k
      <3> QED BY <1>15, <1>17, <2>1, <3>1
    <2>3. w[16] = nm[1] /\ w[17] = nm[2]
      BY <1>19, <2>2
    <2>4. ASSUME NEW i \in 1 .. n PROVE w[17 + i] = s.dic.names[i]
      <3>1. 2 + i \in 1 .. 2 + n /\ 15 + (2 + i) = 17 + i
        BY <1>19
      <3> QED BY <1>8, <2>2, <3>1
    <2> QED BY <1>8, <2>3, <2>4
  <1>25. /\ w[k + 1] = P4CD /\ w[k + 2] = c
         /\ \A i \in 1 .. c : w[k + 2 + i] = s.dic.code[i]
    <2>1. w[k + 1] = cd[1] /\ w[k + 2] = cd[2]
      <3> HIDE DEF k
      <3> QED BY <1>18, <1>19
    <2>2. ASSUME NEW i \in 1 .. c PROVE w[k + 2 + i] = s.dic.code[i]
      <3>1. 2 + i \in 1 .. 2 + c /\ k + (2 + i) = k + 2 + i
        BY <1>19
      <3> HIDE DEF k, c
      <3> QED BY <1>9, <1>18, <2>2, <3>1
    <2> QED BY <1>9, <2>1, <2>2
  <1>26. Len(w) < Filler
    <2>1. k <= 17 + n
      BY <1>19 DEF CodeAt
    <2> HIDE DEF k, n, c
    <2> QED BY <1>3, <1>17, <1>19, <2>1, Numbers
  <1>27. /\ w \in Seq(Unit) /\ Len(w) = k + 2 + c /\ w[4] = P4DI /\ w[5] = 10
    BY <1>7, <1>17, <1>22
  <1> QED BY <1>1, <1>2, <1>21, <1>23, <1>24, <1>25, <1>26, <1>27 DEF Layout

-----------------------------------------------------------------------------
(* The file under the C library.                                           *)

LEMMA Overlaid ==
  ASSUME NEW u \in Seq(Unit), NEW v \in Seq(Unit), NEW base \in 0 .. Len(u)
  PROVE  LET o == Overlay(u, v, base) IN
         /\ o \in Seq(Unit) /\ Len(o) = LargerOf(Len(u), base + Len(v))
         /\ \A i \in 1 .. Len(o) :
              o[i] = IF i > base /\ i <= base + Len(v) THEN v[i - base] ELSE u[i]
  <1> DEFINE m == LargerOf(Len(u), base + Len(v))
             o == [i \in 1 .. m |-> IF i > base /\ i <= base + Len(v) THEN v[i - base] ELSE u[i]]
  <1>1. m \in Nat /\ m >= Len(u) /\ m >= base + Len(v) /\ m \in {Len(u), base + Len(v)}
    BY DEF LargerOf
  <1>2. ASSUME NEW i \in 1 .. m
        PROVE  (IF i > base /\ i <= base + Len(v) THEN v[i - base] ELSE u[i]) \in Unit
    <2>1. CASE i > base /\ i <= base + Len(v)
      <3>1. i - base \in 1 .. Len(v)
        BY <2>1
      <3> QED BY <2>1, <3>1
    <2>2. CASE ~(i > base /\ i <= base + Len(v))
      <3>1. i \in 1 .. Len(u)
        BY <1>1, <2>2
      <3> QED BY <2>2, <3>1
    <2> QED BY <2>1, <2>2
  <1> HIDE DEF m
  <1>3. o \in [1 .. m -> Unit]
    BY <1>2
  <1>4. o \in Seq(Unit) /\ Len(o) = m
    <2>1. [1 .. m -> Unit] \in {[1 .. k -> Unit] : k \in Nat}
      BY <1>1
    <2>2. o \in UNION {[1 .. k -> Unit] : k \in Nat}
      BY <1>3, <2>1
    <2>3. Seq(Unit) = UNION {[1 .. k -> Unit] : k \in Nat}
      BY SeqDef
    <2>4. o \in Seq(Unit) /\ DOMAIN o = 1 .. m
      BY <2>2, <2>3
    <2> HIDE DEF o
    <2> QED BY <1>1, <2>4, LenProperties
  <1>5. Overlay(u, v, base) = o
    BY DEF Overlay, m
  <1>6. \A i \in 1 .. m : o[i] = IF i > base /\ i <= base + Len(v) THEN v[i - base] ELSE u[i]
    OBVIOUS
  <1> HIDE DEF o
  <1> QED BY <1>4, <1>5, <1>6 DEF m

\* Some of what is held goes out.
LEMMA OutTypes ==
  ASSUME NEW f \in Buffered, f.base <= Len(f.disk), NEW n \in 0 .. Len(f.held)
  PROVE  LET g == Out(f, n) IN
         /\ g \in Buffered /\ g.base = f.base + n /\ g.base <= Len(g.disk)
         /\ g.held = SubSeq(f.held, n + 1, Len(f.held))
         /\ g.disk = Overlay(f.disk, SubSeq(f.held, 1, n), f.base)
         /\ Len(g.disk) = LargerOf(Len(f.disk), f.base + n)
         /\ \A i \in 1 .. Len(g.disk) :
              g.disk[i] = IF i > f.base /\ i <= f.base + n THEN f.held[i - f.base] ELSE f.disk[i]
  <1> DEFINE d == Overlay(f.disk, SubSeq(f.held, 1, n), f.base)
  <1>1. f.disk \in Seq(Unit) /\ f.held \in Seq(Unit) /\ f.base \in 0 .. Len(f.disk)
    BY DEF Buffered
  <1>2. /\ SubSeq(f.held, 1, n) \in Seq(Unit) /\ Len(SubSeq(f.held, 1, n)) = n
        /\ \A i \in 1 .. n : SubSeq(f.held, 1, n)[i] = f.held[i]
    BY <1>1, Beginning
  <1>3. SubSeq(f.held, n + 1, Len(f.held)) \in Seq(Unit)
    BY <1>1
  <1>4. /\ d \in Seq(Unit) /\ Len(d) = LargerOf(Len(f.disk), f.base + n)
        /\ \A i \in 1 .. Len(d) :
             d[i] = IF i > f.base /\ i <= f.base + n THEN SubSeq(f.held, 1, n)[i - f.base] ELSE f.disk[i]
    <2> DEFINE v == SubSeq(f.held, 1, n)
    <2>1. v \in Seq(Unit)
      BY <1>2
    <2>2. Len(v) = n
      BY <1>2
    <2> HIDE DEF v
    <2>3. LET o == Overlay(f.disk, v, f.base) IN
          /\ o \in Seq(Unit) /\ Len(o) = LargerOf(Len(f.disk), f.base + Len(v))
          /\ \A i \in 1 .. Len(o) :
               o[i] = IF i > f.base /\ i <= f.base + Len(v) THEN v[i - f.base] ELSE f.disk[i]
      BY <1>1, <2>1, Overlaid
    <2> QED BY <2>2, <2>3 DEF v
  <1>5. \A i \in 1 .. Len(d) :
          d[i] = IF i > f.base /\ i <= f.base + n THEN f.held[i - f.base] ELSE f.disk[i]
    <2> TAKE i \in 1 .. Len(d)
    <2>1. i > f.base /\ i <= f.base + n => i - f.base \in 1 .. n
      BY <1>1, <1>4
    <2> HIDE DEF d
    <2> QED BY <1>2, <1>4, <2>1
  <1>6. Len(d) >= f.base + n
    <2> HIDE DEF d
    <2> QED BY <1>1, <1>4 DEF LargerOf
  <1> HIDE DEF d
  <1> QED BY <1>1, <1>3, <1>4, <1>5, <1>6 DEF Out, Buffered, d

\* A file of which nothing is held.
LEMMA Settled ==
  ASSUME NEW f \in Buffered, f.base <= Len(f.disk), f.held = <<>>
  PROVE  SomeOut(f) = {f} /\ AllOut(f) = f
  <1>1. f.disk \in Seq(Unit) /\ Len(f.held) = 0 /\ f.base \in Nat
    BY DEF Buffered
  <1>2. /\ Out(f, 0) \in Buffered /\ Out(f, 0).base = f.base + 0
        /\ Out(f, 0).held = SubSeq(f.held, 1, 0)
        /\ Len(Out(f, 0).disk) = LargerOf(Len(f.disk), f.base + 0)
        /\ \A i \in 1 .. Len(Out(f, 0).disk) :
             Out(f, 0).disk[i] = IF i > f.base /\ i <= f.base + 0 THEN f.held[i - f.base] ELSE f.disk[i]
    BY <1>1, OutTypes
  <1>3. Len(Out(f, 0).disk) = Len(f.disk)
    <2>1. LargerOf(Len(f.disk), f.base + 0) = Len(f.disk)
      BY <1>1 DEF LargerOf
    <2> QED BY <1>2, <2>1
  <1>4. \A i \in 1 .. Len(f.disk) : Out(f, 0).disk[i] = f.disk[i]
    <2> TAKE i \in 1 .. Len(f.disk)
    <2>1. ~(i > f.base /\ i <= f.base + 0)
      BY <1>1
    <2>2. i \in 1 .. Len(Out(f, 0).disk)
      BY <1>3
    <2> QED BY <1>2, <2>1, <2>2
  <1>5. Out(f, 0).disk = f.disk
    <2>1. Out(f, 0).disk \in Seq(Unit)
      BY <1>2 DEF Buffered
    <2> QED BY <1>1, <1>3, <1>4, <2>1, SeqEqual
  <1>6. SubSeq(f.held, 1, 0) = <<>>
    BY SubSeqEmpty
  <1>7. Out(f, 0) = f
    <2>1. Out(f, 0).base = f.base
      BY <1>1, <1>2
    <2> QED BY <1>2, <1>5, <1>6, <2>1 DEF Buffered
  <1>8. 0 .. Len(f.held) = {0}
    BY <1>1
  <1> QED BY <1>1, <1>7, <1>8 DEF SomeOut, AllOut

\* While the library adds to the end, what goes out is a beginning of it all.
LEMMA Straight ==
  ASSUME NEW f \in Buffered, f.base = Len(f.disk), NEW n \in 0 .. Len(f.held)
  PROVE  /\ f.disk \o f.held \in Seq(Unit) /\ Len(f.disk \o f.held) = Len(f.disk) + Len(f.held)
         /\ Out(f, n).disk = SubSeq(f.disk \o f.held, 1, f.base + n)
         /\ Out(f, n).base = Len(Out(f, n).disk)
         /\ Out(f, n).disk \o Out(f, n).held = f.disk \o f.held
  <1> DEFINE x == f.disk \o f.held
             g == Out(f, n)
             p == Len(f.disk)
             q == Len(f.held)
  <1>1. f.disk \in Seq(Unit) /\ f.held \in Seq(Unit) /\ f.base <= Len(f.disk)
    BY DEF Buffered
  <1>0. p \in Nat /\ q \in Nat /\ n \in Nat /\ n <= q /\ f.base = p
    BY <1>1
  <1>2. /\ x \in Seq(Unit) /\ Len(x) = Len(f.disk) + Len(f.held)
        /\ \A i \in 1 .. Len(f.disk) : x[i] = f.disk[i]
        /\ \A i \in 1 .. Len(f.held) : x[Len(f.disk) + i] = f.held[i]
    <2>1. f.disk \in Seq(Unit) /\ f.held \in Seq(Unit)
      BY <1>1
    <2>2. x \in Seq(Unit) /\ Len(x) = Len(f.disk) + Len(f.held)
      BY <2>1, Joined
    <2>3. \A i \in 1 .. Len(f.disk) : x[i] = f.disk[i]
      BY <2>1, Joined
    <2>4. \A i \in 1 .. Len(f.held) : x[Len(f.disk) + i] = f.held[i]
      BY <2>1, JoinedAt
    <2> HIDE DEF x, p, q
    <2> QED BY <2>2, <2>3, <2>4
  <1>3. /\ g \in Buffered /\ g.base = f.base + n
        /\ g.held = SubSeq(f.held, n + 1, Len(f.held))
        /\ Len(g.disk) = LargerOf(Len(f.disk), f.base + n)
        /\ \A i \in 1 .. Len(g.disk) :
             g.disk[i] = IF i > f.base /\ i <= f.base + n THEN f.held[i - f.base] ELSE f.disk[i]
    BY <1>1, OutTypes
  <1> HIDE DEF x, g, p, q
  <1>4. Len(g.disk) = p + n /\ g.disk \in Seq(Unit) /\ g.held \in Seq(Unit)
    <2>1. Len(g.disk) = LargerOf(p, p + n)
      BY <1>0, <1>3 DEF p
    <2>2. LargerOf(p, p + n) = p + n
      BY <1>0 DEF LargerOf
    <2> QED BY <1>3, <2>1, <2>2 DEF Buffered
  <1>9. Len(x) = p + q
    BY <1>2 DEF p, q
  <1>5. \A i \in 1 .. p + n : g.disk[i] = x[i]
    <2> TAKE i \in 1 .. p + n
    <2>0. i \in 1 .. Len(g.disk)
      BY <1>4
    <2>1. CASE i > p
      <3>1. i - p \in 1 .. q /\ p + (i - p) = i
        BY <1>0, <2>1
      <3>2. g.disk[i] = f.held[i - p]
        BY <1>0, <1>3, <2>0, <2>1
      <3>3. x[p + (i - p)] = f.held[i - p]
        BY <1>2, <3>1 DEF p, q
      <3> QED BY <3>1, <3>2, <3>3
    <2>2. CASE i <= p
      <3>1. i \in 1 .. Len(f.disk)
        BY <2>2 DEF p
      <3>2. ~(i > f.base)
        BY <1>0, <2>2
      <3>3. g.disk[i] = f.disk[i]
        BY <1>3, <2>0, <3>2
      <3> QED BY <1>2, <3>1, <3>3
    <2> QED BY <1>0, <2>1, <2>2
  <1>6. p + n \in 0 .. Len(x)
    BY <1>0, <1>9
  <1>7. g.disk = SubSeq(x, 1, f.base + n)
    <2>1. /\ SubSeq(x, 1, p + n) \in Seq(Unit) /\ Len(SubSeq(x, 1, p + n)) = p + n
          /\ \A i \in 1 .. p + n : SubSeq(x, 1, p + n)[i] = x[i]
      BY <1>2, <1>6, Beginning
    <2> QED BY <1>0, <1>4, <1>5, <2>1, SeqEqual
  <1>8. g.disk \o g.held = x
    <2> DEFINE y == g.disk \o g.held
    <2>1. /\ y \in Seq(Unit) /\ Len(y) = Len(g.disk) + Len(g.held)
          /\ \A i \in 1 .. Len(g.disk) : y[i] = g.disk[i]
          /\ \A i \in 1 .. Len(g.held) : y[Len(g.disk) + i] = g.held[i]
      <3>1. g.disk \in Seq(Unit) /\ g.held \in Seq(Unit)
        BY <1>4
      <3>2. y \in Seq(Unit) /\ Len(y) = Len(g.disk) + Len(g.held)
        BY <3>1, Joined
      <3>3. \A i \in 1 .. Len(g.disk) : y[i] = g.disk[i]
        BY <3>1, Joined
      <3>4. \A i \in 1 .. Len(g.held) : y[Len(g.disk) + i] = g.held[i]
        BY <3>1, JoinedAt
      <3> HIDE DEF y
      <3> QED BY <3>2, <3>3, <3>4
    <2> HIDE DEF y
    <2>2. Len(g.held) = q - n /\ \A i \in 1 .. q - n : g.held[i] = f.held[n + i]
      <3>1. \A i \in n + 1 .. q : f.held[i] \in Unit
        BY <1>0, <1>1 DEF q
      <3>2. n + 1 \in Int /\ q \in Int
        BY <1>0
      <3>3. /\ Len(g.held) = IF n + 1 <= q THEN q - (n + 1) + 1 ELSE 0
            /\ \A i \in 1 .. q - (n + 1) + 1 : g.held[i] = f.held[(n + 1) + i - 1]
        BY <1>3, <3>1, <3>2, SubSeqProperties DEF q
      <3>4. \A i \in 1 .. q - n : i \in 1 .. q - (n + 1) + 1 /\ (n + 1) + i - 1 = n + i
        BY <1>0
      <3>5. Len(g.held) = q - n
        BY <1>0, <3>3
      <3> QED BY <3>3, <3>4, <3>5
    <2>3. Len(y) = p + q
      BY <1>0, <1>4, <2>1, <2>2
    <2>4. ASSUME NEW i \in 1 .. p + q PROVE y[i] = x[i]
      <3>1. CASE i <= p + n
        <4>1. i \in 1 .. Len(g.disk) /\ i \in 1 .. p + n
          BY <1>0, <1>4, <3>1
        <4> QED BY <1>5, <2>1, <4>1
      <3>2. CASE i > p + n
        <4> DEFINE j == i - (p + n)
        <4>1. j \in 1 .. q - n /\ i = (p + n) + j /\ i = p + (n + j) /\ n + j \in 1 .. q
          BY <1>0, <3>2
        <4> HIDE DEF j
        <4>2. y[i] = g.held[j]
          <5>1. j \in 1 .. Len(g.held) /\ Len(g.disk) + j = i
            BY <1>4, <2>2, <4>1
          <5> QED BY <2>1, <5>1
        <4>3. x[i] = f.held[n + j]
          <5>1. n + j \in 1 .. Len(f.held) /\ Len(f.disk) + (n + j) = i
            BY <4>1 DEF p, q
          <5> QED BY <1>2, <5>1
        <4> QED BY <2>2, <4>1, <4>2, <4>3
      <3> QED BY <1>0, <3>1, <3>2
    <2>5. y = x
      BY <1>2, <1>9, <2>1, <2>3, <2>4, SeqEqual
    <2> QED BY <2>5 DEF y
  <1>10. g.base = Len(g.disk)
    BY <1>0, <1>3, <1>4
  <1> QED BY <1>2, <1>7, <1>8, <1>10 DEF x, g

-----------------------------------------------------------------------------
(* What a save leaves.                                                     *)

\* Units that are those of w up to a place, with at most one behind: the mark of
\* a bad file, or what was to be the FORM size, behind all of w.
Starts(x, w) ==
  \E n \in 0 .. Len(w) :
    /\ Len(x) <= n + 1
    /\ \A i \in 1 .. n : i <= Len(x) => x[i] = w[i]
    /\ Len(x) = n + 1 => x[n + 1] = BADF \/ n = Len(w)

LEMMA StartsBroken ==
  ASSUME NEW w \in Seq(Unit), w[2] = 0, NEW x \in Seq(Unit), Starts(x, w)
  PROVE  Broken(x, w)
  <1>1. PICK n \in 0 .. Len(w) :
          /\ Len(x) <= n + 1
          /\ \A i \in 1 .. n : i <= Len(x) => x[i] = w[i]
          /\ Len(x) = n + 1 => x[n + 1] = BADF \/ n = Len(w)
    BY DEF Starts
  <1> DEFINE lx == Len(x)
             lw == Len(w)
  <1>2. lx \in Nat /\ lw \in Nat /\ n \in Nat /\ n <= lw /\ lx <= n + 1
    BY <1>1
  <1>3. \A i \in 1 .. n : i <= lx => x[i] = w[i]
    BY <1>1
  <1>4. lx = n + 1 => x[lx] = BADF \/ n = lw
    BY <1>1
  <1> HIDE DEF lx, lw
  <1>5. lx <= lw + 1
    BY <1>2
  <1>6. lx >= 3 => x[2] \in {0, BADF}
    BY <1>2, <1>3
  <1>7. \A i \in 3 .. lx - 1 : x[i] = w[i]
    BY <1>2, <1>3
  <1>8. lx \in 3 .. lw => x[lx] \in {w[lx], BADF}
    <2> SUFFICES ASSUME lx \in 3 .. lw PROVE x[lx] \in {w[lx], BADF}
      OBVIOUS
    <2>1. CASE lx <= n
      BY <1>2, <1>3, <2>1
    <2>2. CASE lx = n + 1
      BY <1>2, <1>4, <2>2
    <2> QED BY <1>2, <2>1, <2>2
  <1> QED BY <1>5, <1>6, <1>7, <1>8 DEF Broken, lx, lw

LEMMA StartsBeginning ==
  ASSUME NEW w \in Seq(Unit), NEW x \in Seq(Unit), Starts(x, w), NEW m \in 0 .. Len(x)
  PROVE  Starts(SubSeq(x, 1, m), w)
  <1>1. PICK n \in 0 .. Len(w) :
          /\ Len(x) <= n + 1
          /\ \A i \in 1 .. n : i <= Len(x) => x[i] = w[i]
          /\ Len(x) = n + 1 => x[n + 1] = BADF \/ n = Len(w)
    BY DEF Starts
  <1> DEFINE y == SubSeq(x, 1, m)
             lx == Len(x)
  <1>2. y \in Seq(Unit) /\ Len(y) = m /\ \A i \in 1 .. m : y[i] = x[i]
    BY Beginning
  <1>3. lx \in Nat /\ n \in Nat /\ m \in Nat /\ m <= lx /\ lx <= n + 1
    BY <1>1
  <1>4. (\A i \in 1 .. n : i <= lx => x[i] = w[i]) /\ (lx = n + 1 => x[n + 1] = BADF \/ n = Len(w))
    BY <1>1
  <1> HIDE DEF y, lx
  <1>5. m <= n + 1 /\ \A i \in 1 .. n : i <= m => y[i] = w[i]
    BY <1>2, <1>3, <1>4
  <1>6. m = n + 1 => y[n + 1] = BADF \/ n = Len(w)
    BY <1>2, <1>3, <1>4
  <1>7. Starts(y, w)
    BY <1>2, <1>5, <1>6 DEF Starts
  <1> QED BY <1>7 DEF y

\* A part of w, as it is or marked, and all of w with something behind.
LEMMA StartsPart ==
  ASSUME NEW w \in Seq(Unit), NEW n \in 0 .. Len(w), NEW u \in Unit, u = BADF \/ n = Len(w)
  PROVE  /\ Starts(SubSeq(w, 1, n), w)
         /\ SubSeq(w, 1, n) \o <<u>> \in Seq(Unit) /\ Starts(SubSeq(w, 1, n) \o <<u>>, w)
  <1> DEFINE p == SubSeq(w, 1, n)
             t == <<u>>
             x == p \o t
  <1>1. p \in Seq(Unit) /\ Len(p) = n /\ \A i \in 1 .. n : p[i] = w[i]
    BY Beginning
  <1>2. Starts(p, w)
    <2> HIDE DEF p
    <2>1. n \in Nat /\ n # n + 1 /\ n <= n + 1
      OBVIOUS
    <2> QED BY <1>1, <2>1 DEF Starts
  <1>3. t \in Seq(Unit) /\ Len(t) = 1 /\ t[1] = u
    OBVIOUS
  <1> HIDE DEF p, t
  <1>8. p \in Seq(Unit) /\ t \in Seq(Unit)
    BY <1>1, <1>3
  <1>4. x \in Seq(Unit) /\ Len(x) = n + 1
    <2>1. x \in Seq(Unit) /\ Len(x) = Len(p) + Len(t)
      BY <1>8, Joined
    <2> QED BY <1>1, <1>3, <2>1
  <1>5. \A i \in 1 .. n : x[i] = w[i]
    <2>1. \A i \in 1 .. Len(p) : x[i] = p[i]
      BY <1>1, <1>3, Joined
    <2> QED BY <1>1, <2>1
  <1>6. x[n + 1] = u
    <2>1. 1 \in 1 .. Len(t)
      BY <1>3
    <2>2. x[Len(p) + 1] = t[1]
      BY <1>8, <2>1, JoinedAt
    <2> QED BY <1>1, <1>3, <2>2
  <1> HIDE DEF x
  <1>7. Starts(x, w)
    BY <1>4, <1>5, <1>6 DEF Starts
  <1> QED BY <1>2, <1>4, <1>7 DEF p, t, x

\* The library adds to the end of the file.
LEMMA StraightLeaves ==
  ASSUME NEW w \in Seq(Unit), w[2] = 0, NEW f \in Buffered, f.base = Len(f.disk),
         Starts(f.disk \o f.held, w), NEW g \in SomeOut(f)
  PROVE  /\ g \in Buffered /\ g.base = Len(g.disk) /\ g.disk \o g.held = f.disk \o f.held
         /\ Broken(g.disk, w)
  <1>1. PICK n \in 0 .. Len(f.held) : g = Out(f, n)
    BY DEF SomeOut
  <1>2. f.base <= Len(f.disk) /\ f.base \in Nat /\ Len(f.held) \in Nat
    BY DEF Buffered
  <1>3. g \in Buffered
    BY <1>1, <1>2, OutTypes
  <1>4. /\ f.disk \o f.held \in Seq(Unit) /\ Len(f.disk \o f.held) = Len(f.disk) + Len(f.held)
        /\ g.disk = SubSeq(f.disk \o f.held, 1, f.base + n)
        /\ g.base = Len(g.disk) /\ g.disk \o g.held = f.disk \o f.held
    BY <1>1, Straight
  <1> DEFINE x == f.disk \o f.held
  <1>5. f.base + n \in 0 .. Len(x)
    <2>1. Len(x) = f.base + Len(f.held)
      BY <1>4
    <2> DEFINE q == Len(f.held)
    <2>2. q \in Nat /\ n \in 0 .. q /\ f.base \in Nat
      BY <1>2
    <2>3. Len(x) = f.base + q
      BY <2>1
    <2> HIDE DEF x, q
    <2> QED BY <2>2, <2>3
  <1>6. x \in Seq(Unit) /\ Starts(x, w)
    BY <1>4
  <1> HIDE DEF x
  <1>7. Starts(SubSeq(x, 1, f.base + n), w)
    BY <1>5, <1>6, StartsBeginning
  <1>8. Starts(g.disk, w) /\ g.disk \in Seq(Unit)
    BY <1>3, <1>4, <1>7 DEF x, Buffered
  <1> QED BY <1>3, <1>4, <1>8, StartsBroken

\* The mark of a bad file goes to its first unit or, should the seek fail, to
\* the FORM size.
LEMMA MarkedLeaves ==
  ASSUME NEW w \in Seq(Unit), w[2] = 0, NEW f \in Buffered, NEW n \in 0 .. Len(w),
         f.disk = SubSeq(w, 1, n), f.base \in {0, 1}, f.base = 1 => n >= 2, f.held \in {<<>>, <<BADF>>},
         NEW g \in SomeOut(f)
  PROVE  Broken(g.disk, w)
  <1>1. PICK m \in 0 .. Len(f.held) : g = Out(f, m)
    BY DEF SomeOut
  <1>2. f.disk \in Seq(Unit) /\ Len(f.disk) = n /\ \A i \in 1 .. n : f.disk[i] = w[i]
    BY Beginning
  <1>3. /\ g \in Buffered
        /\ Len(g.disk) = LargerOf(Len(f.disk), f.base + m)
        /\ \A i \in 1 .. Len(g.disk) :
             g.disk[i] = IF i > f.base /\ i <= f.base + m THEN f.held[i - f.base] ELSE f.disk[i]
    <2>1. f.base <= Len(f.disk)
      BY <1>2
    <2> QED BY <1>1, <2>1, OutTypes
  <1>4. m \in {0, 1} /\ (m = 1 => f.held = <<BADF>>)
    <2>1. CASE f.held = <<>>
      BY <2>1
    <2>2. CASE f.held = <<BADF>>
      <3>1. Len(f.held) = 1
        BY <2>2
      <3> QED BY <2>2, <3>1
    <2> QED BY <2>1, <2>2
  <1> DEFINE ld == Len(g.disk)
             lw == Len(w)
  <1>5. n \in Nat /\ lw \in Nat /\ n <= lw
    OBVIOUS
  <1>6. ld = n \/ (n = 0 /\ ld = 1 /\ m = 1)
    <2>1. ld = LargerOf(n, f.base + m)
      BY <1>2, <1>3
    <2> HIDE DEF ld
    <2>2. CASE f.base = 0
      BY <1>4, <1>5, <2>1, <2>2 DEF LargerOf
    <2>3. CASE f.base = 1
      BY <1>4, <1>5, <2>1, <2>3 DEF LargerOf
    <2> QED BY <2>2, <2>3
  <1>7. \A i \in 1 .. ld : g.disk[i] = w[i] \/ (i \in {1, 2} /\ g.disk[i] = BADF)
    <2> TAKE i \in 1 .. ld
    <2>1. CASE i > f.base /\ i <= f.base + m
      <3>1. m = 1 /\ i = f.base + 1 /\ i - f.base = 1
        BY <1>4, <2>1
      <3>2. g.disk[i] = f.held[1] /\ f.held = <<BADF>>
        BY <1>3, <1>4, <2>1, <3>1
      <3> QED BY <3>1, <3>2
    <2>2. CASE ~(i > f.base /\ i <= f.base + m)
      <3>1. i <= n
        <4>1. CASE ld = n
          <5> HIDE DEF ld
          <5> QED BY <1>5, <4>1
        <4>2. CASE n = 0 /\ ld = 1 /\ m = 1
          <5> HIDE DEF ld
          <5> QED BY <2>2, <4>2
        <4> QED BY <1>6, <4>1, <4>2
      <3> QED BY <1>2, <1>3, <1>5, <2>2, <3>1
    <2> QED BY <2>1, <2>2
  <1> HIDE DEF ld, lw
  <1>8. ld <= lw + 1 /\ ld \in Nat
    BY <1>5, <1>6
  <1>9. ld >= 3 => g.disk[2] \in {0, BADF}
    BY <1>7, <1>8
  <1>10. \A i \in 3 .. ld : g.disk[i] = w[i]
    BY <1>7, <1>8
  <1>11. /\ \A i \in 3 .. ld - 1 : g.disk[i] = w[i]
         /\ ld \in 3 .. lw => g.disk[ld] = w[ld]
    BY <1>8, <1>10
  <1> QED BY <1>8, <1>9, <1>11 DEF Broken, ld, lw

\* The FORM size goes to where it belongs.
LEMMA SizedLeaves ==
  ASSUME NEW w \in Seq(Unit), w[2] = 0, Len(w) >= 3, NEW f \in Buffered,
         f.disk = w, f.base = 1, f.held = <<Len(w) - 2>>
  PROVE  /\ \A g \in SomeOut(f) : Broken(g.disk, w) \/ Finished(g.disk, w)
         /\ Finished(AllOut(f).disk, w)
  <1> DEFINE lw == Len(w)
  <1>1. lw \in Nat /\ lw >= 3 /\ f.base <= Len(f.disk) /\ Len(f.held) = 1
    OBVIOUS
  <1>2. ASSUME NEW m \in 0 .. 1
        PROVE  /\ Len(Out(f, m).disk) = lw
               /\ \A i \in 1 .. lw : Out(f, m).disk[i] =
                    IF i > 1 /\ i <= 1 + m THEN f.held[i - 1] ELSE w[i]
    <2>1. /\ Len(Out(f, m).disk) = LargerOf(lw, 1 + m)
          /\ \A i \in 1 .. Len(Out(f, m).disk) : Out(f, m).disk[i] =
               IF i > 1 /\ i <= 1 + m THEN f.held[i - 1] ELSE w[i]
      <3>1. m \in 0 .. Len(f.held)
        BY <1>1
      <3>2. /\ Len(Out(f, m).disk) = LargerOf(Len(f.disk), f.base + m)
            /\ \A i \in 1 .. Len(Out(f, m).disk) : Out(f, m).disk[i] =
                 IF i > f.base /\ i <= f.base + m THEN f.held[i - f.base] ELSE f.disk[i]
        BY <1>1, <3>1, OutTypes
      <3> QED BY <3>2
    <2>2. LargerOf(lw, 1 + m) = lw
      BY <1>1 DEF LargerOf
    <2> QED BY <2>1, <2>2
  <1>3. Finished(Out(f, 1).disk, w)
    <2>1. /\ Len(Out(f, 1).disk) = lw
          /\ \A i \in 1 .. lw : Out(f, 1).disk[i] =
               IF i > 1 /\ i <= 2 THEN f.held[i - 1] ELSE w[i]
      BY <1>2
    <2>2. Out(f, 1).disk[2] = f.held[1] /\ \A i \in 1 .. lw : i # 2 => Out(f, 1).disk[i] = w[i]
      BY <1>1, <2>1
    <2> QED BY <2>1, <2>2 DEF Finished
  <1>4. Broken(Out(f, 0).disk, w)
    <2>1. Len(Out(f, 0).disk) = lw /\ \A i \in 1 .. lw : Out(f, 0).disk[i] = w[i]
      BY <1>2
    <2>2. Out(f, 0).disk[2] = 0
      BY <1>1, <2>1
    <2> HIDE DEF lw
    <2>3. lw <= lw + 1 /\ \A i \in 3 .. lw - 1 : i \in 1 .. lw
      BY <1>1
    <2>4. lw \in 3 .. lw => lw \in 1 .. lw
      BY <1>1
    <2> QED BY <2>1, <2>2, <2>3, <2>4 DEF Broken, lw
  <1>5. SomeOut(f) = {Out(f, 0), Out(f, 1)} /\ AllOut(f) = Out(f, 1)
    <2>1. 0 .. Len(f.held) = {0, 1}
      BY <1>1
    <2> QED BY <1>1, <2>1 DEF SomeOut, AllOut
  <1> QED BY <1>3, <1>4, <1>5

\* That a save is done changes nothing of its form.
LEMMA FormsWhole ==
  ASSUME NEW s \in Saves
  PROVE  /\ [s EXCEPT !.whole = TRUE] \in Saves
         /\ Forms([s EXCEPT !.whole = TRUE]) = Forms(s)
  <1> DEFINE t == [s EXCEPT !.whole = TRUE]
  <1>1. /\ t \in Saves /\ t.build = s.build /\ t.dic = s.dic /\ t.nameless = s.nameless
    BY DEF Saves
  <1> HIDE DEF t
  <1>2. \A a \in Size \X Size : /\ InfoOf(t, a[1], a[2]) = InfoOf(s, a[1], a[2])
                                /\ Sized(t, a[1], a[2]) <=> Sized(s, a[1], a[2])
    BY <1>1 DEF InfoOf, Sized
  <1>3. Forms(t) = Forms(s)
    BY <1>1, <1>2 DEF Forms
  <1> QED BY <1>1, <1>3 DEF t

-----------------------------------------------------------------------------
(* The steps of a program that runs and saves.                             *)

LEMMA StepOutside ==
  ASSUME Refused, pc # "down", result' = result \/ result' \in {"loaded", "started", "failed", "ended"},
         pc' # "boot"
  PROVE  LoadsWhatWasSaved' /\ Refused'
  BY DEF Refused, LoadsWhatWasSaved, loadsOnlySaved, savedLoads

\* The file and what is known of its save stay as they are.
LEMMA FileStays ==
  ASSUME Recoverable, UNCHANGED <<file, saved, lost>>
  PROVE  Recoverable'
  BY DEF Recoverable, MayBeLeft

LEMMA DefineStep ==
  ASSUME IInv, Define
  PROVE  IInv'
  <1> USE DEF history, counts
  <1>1. /\ pc = "idle" /\ pc' = "idle" /\ defs < MaxDefs /\ defs' = defs + 1
        /\ Len(dic.names) < dic.nameSize /\ Len(dic.code) < dic.codeSize
        /\ dic' = [dic EXCEPT !.names = Append(@, defs'), !.code = Append(@, defs')]
        /\ UNCHANGED <<file, todo, build, at, left, result, saved, lost, threw>>
    BY DEF Define
  <1>2. defs' \in Size /\ defs' \in 0 .. MaxDefs /\ defs \in Nat
    <2>1. defs \in Nat
      BY Numbers DEF IInv, Types
    <2>2. defs' \in Nat /\ defs' <= MaxDefs /\ defs' < Filler
      <3>1. MaxDefs \in Nat /\ Filler \in Nat /\ Filler > 22 + 2 * MaxDefs
        BY Numbers
      <3> QED BY <1>1, <2>1, <3>1
    <2> QED BY <2>1, <2>2, Numbers
  <1>3. /\ dic \in Dictionaries /\ Fits(dic) /\ Grown(dic)
        /\ dic.names \in Seq(Size) /\ dic.code \in Seq(Unit)
    BY <1>1 DEF IInv, InMemory, Working, Dictionaries
  <1>4. /\ dic' \in Dictionaries /\ dic'.names = Append(dic.names, defs')
        /\ dic'.code = Append(dic.code, defs') /\ dic'.nameSize = dic.nameSize
        /\ dic'.codeSize = dic.codeSize
    <2>1. Append(dic.names, defs') \in Seq(Size) /\ Append(dic.code, defs') \in Seq(Unit)
      BY <1>2, <1>3, Numbers
    <2> QED BY <1>1, <1>3, <2>1 DEF Dictionaries
  <1>5. /\ Len(dic'.names) = Len(dic.names) + 1 /\ Len(dic'.code) = Len(dic.code) + 1
        /\ dic'.code[1] = dic.code[1]
    <2>1. Len(dic.code) >= 1
      BY <1>3 DEF Grown
    <2> QED BY <1>3, <1>4, <2>1
  <1>6. InMemory'
    <2>1. Fits(dic)'
      BY <1>1, <1>3, <1>4, <1>5 DEF Fits, Dictionaries
    <2>2. Grown(dic)'
      BY <1>1, <1>2, <1>3, <1>5 DEF Grown
    <2>3. saved # NULL => saved \in Saves /\ Grown(saved.dic)'
      <3> SUFFICES ASSUME saved # NULL PROVE saved \in Saves /\ Grown(saved.dic)'
        OBVIOUS
      <3>1. saved \in Saves /\ Grown(saved.dic)
        BY DEF IInv, InMemory
      <3>2. Len(saved.dic.names) \in Nat /\ Len(saved.dic.code) \in Nat
        BY <3>1 DEF Saves, Dictionaries
      <3> QED BY <1>1, <1>2, <3>1, <3>2 DEF Grown
    <2> QED BY <1>1, <1>4, <2>1, <2>2, <2>3 DEF InMemory, Working
  <1>7. Types'
    BY <1>1, <1>2 DEF IInv, Types
  <1>8. Recoverable'
    BY <1>1, FileStays DEF IInv
  <1>9. Saving' /\ Reading'
    BY <1>1 DEF IInv, Saving, Reading
  <1>10. Initialized'
    <2>1. HasNames(dic)' = HasNames(dic)
      BY <1>4 DEF HasNames
    <2> QED BY <1>1, <1>5, <2>1 DEF IInv, Initialized
  <1>11. LoadsWhatWasSaved' /\ Refused'
    BY <1>1, StepOutside DEF IInv
  <1> QED BY <1>6, <1>7, <1>8, <1>9, <1>10, <1>11 DEF IInv

\* An empty file holds no dictionary.
LEMMA EmptyFile ==
  ASSUME file' = [disk |-> <<>>, base |-> 0, held |-> <<>>], saved' = NULL
  PROVE  file' \in Buffered /\ file'.base <= Len(file'.disk) /\ Recoverable'
  <1>1. file' \in Buffered /\ file'.base <= Len(file'.disk)
    BY DEF Buffered
  <1>2. SomeOut(file') = {file'}
    BY <1>1, Settled
  <1>3. P4DI \notin Range(file'.disk)
    BY DEF Range
  <1> QED BY <1>1, <1>2, <1>3 DEF Recoverable, MayBeLeft

LEMMA SaveOpenStep ==
  ASSUME IInv, SaveOpen
  PROVE  IInv'
  <1> USE DEF counts
  <1>1. /\ pc = "idle" /\ UNCHANGED <<todo, build, dic, at, left, result, threw, defs>>
        /\ \/ UNCHANGED <<file, pc, saved, lost>>
           \/ /\ file' = [disk |-> <<>>, base |-> 0, held |-> <<>>]
              /\ pc' = "term" /\ saved' = NULL /\ lost' = FALSE
    BY DEF SaveOpen
  <1>2. LoadsWhatWasSaved' /\ Refused'
    BY <1>1, StepOutside DEF IInv
  <1>3. CASE UNCHANGED <<file, pc, saved, lost>>
    <2>1. Recoverable'
      BY <1>3, FileStays DEF IInv
    <2>2. Types' /\ InMemory' /\ Saving' /\ Reading' /\ Initialized'
      BY <1>1, <1>3 DEF IInv, Types, InMemory, Saving, Reading, Initialized, Working, Opened, Grown
    <2> QED BY <1>2, <2>1, <2>2 DEF IInv
  <1>4. CASE /\ file' = [disk |-> <<>>, base |-> 0, held |-> <<>>]
             /\ pc' = "term" /\ saved' = NULL /\ lost' = FALSE
    <2>1. file' \in Buffered /\ file'.base <= Len(file'.disk) /\ Recoverable'
      BY <1>4, EmptyFile
    <2>2. Types'
      BY <1>1, <1>4, <2>1 DEF IInv, Types
    <2>3. InMemory' /\ Reading' /\ Initialized'
      BY <1>1, <1>4 DEF IInv, InMemory, Reading, Initialized, Working, Grown
    <2>4. Saving'
      BY <1>1, <1>4 DEF IInv, Saving, Opened
    <2> QED BY <1>2, <2>1, <2>2, <2>3, <2>4 DEF IInv
  <1> QED BY <1>1, <1>3, <1>4

\* AUTO.TERM and AUTO.INIT change the first cell of the code.
LEMMA Executed ==
  ASSUME NEW d \in Dictionaries, Fits(d), Grown(d), NEW change \in {-1, 1}
  PROVE  LET e == pfExecIfDefined(d, change) IN
         /\ e \in Dictionaries /\ Fits(e) /\ Grown(e)
         /\ e.names = d.names /\ e.nameSize = d.nameSize
         /\ e.code[1] = IF HasNames(d) THEN (d.code[1] + change) % Wrap ELSE d.code[1]
  <1> DEFINE e == pfExecIfDefined(d, change)
  <1>1. CASE ~HasNames(d)
    BY <1>1 DEF pfExecIfDefined
  <1>2. CASE HasNames(d)
    <2> DEFINE v == (d.code[1] + change) % Wrap
               c == [d.code EXCEPT ![1] = v]
    <2>1. d.code \in Seq(Unit) /\ 1 \in 1 .. Len(d.code)
      BY DEF Dictionaries, Grown
    <2>2. v \in Unit
      <3>1. d.code[1] + change \in Int
        <4>1. d.code[1] \in Unit
          BY <2>1, ElementOfSeq
        <4>2. d.code[1] \in Nat
          BY <4>1, Numbers
        <4> QED BY <4>2
      <3> QED BY <3>1, Modulo
    <2>3. e = [d EXCEPT !.code = c]
      BY <1>2 DEF pfExecIfDefined
    <2> HIDE DEF v, e
    <2>4. c \in Seq(Unit) /\ Len(c) = Len(d.code) /\ c[1] = v
      BY <2>1, <2>2, ExceptSeq
    <2> HIDE DEF c
    <2>5. /\ e \in Dictionaries /\ e.names = d.names /\ e.nameSize = d.nameSize
          /\ e.codeSize = d.codeSize /\ e.code = c
      BY <2>3, <2>4 DEF Dictionaries
    <2> QED BY <1>2, <2>4, <2>5 DEF Fits, Grown, e, v
  <1> QED BY <1>1, <1>2

\* The sizes of a save: what is asked for, or what is needed.
SavedAs(d, entry, nameSize) ==
  [build |-> build, whole |-> FALSE, nameless |-> nameSize > 0 /\ d.names = <<>>,
   dic |-> [d EXCEPT !.entry = entry, !.names = IF nameSize = 0 THEN <<>> ELSE @]]

LEMMA SavedForm ==
  ASSUME Types, NEW d \in Dictionaries, Fits(d), Grown(d),
         NEW entry \in {0, 1}, NEW nameSize \in Sizes, NEW codeSize \in Sizes
  PROVE  LET s == SavedAs(d, entry, nameSize) IN
         /\ s \in Saves /\ Grown(s.dic) /\ s.dic.code = d.code
         /\ Form(Info(d, entry, nameSize, codeSize), d) \in Forms(s)
  <1> DEFINE s == SavedAs(d, entry, nameSize)
             sd == Info(d, entry, nameSize, codeSize)
             n == Len(d.names)
             c == Len(d.code)
             names == IF nameSize = 0 THEN <<>> ELSE d.names
  <1>1. /\ d.names \in Seq(Size) /\ d.code \in Seq(Unit) /\ n \in Nat /\ c \in Nat
        /\ n <= 1 + defs /\ c \in 1 .. 2 + defs /\ defs \in 0 .. MaxDefs
    BY DEF Dictionaries, Grown, Types
  <1>2. names \in Seq(Size) /\ Len(names) <= n /\ Len(names) \in Nat
    BY <1>1
  <1>3. /\ s.build = build /\ s.whole = FALSE /\ (s.nameless <=> nameSize > 0 /\ d.names = <<>>)
        /\ s.dic.names = names /\ s.dic.code = d.code /\ s.dic.entry = entry
        /\ s.dic.prims = d.prims /\ s.dic \in Dictionaries
    BY <1>2 DEF Dictionaries, SavedAs
  <1>4. s \in Saves
    <2>1. s.nameless \in BOOLEAN
      <3>1. s.nameless = (nameSize > 0 /\ d.names = <<>>)
        BY DEF SavedAs
      <3> QED BY <3>1
    <2>2. s.dic \in Dictionaries /\ build \in Builds
      BY <1>3 DEF Types
    <2>3. s = [build |-> build, whole |-> FALSE, nameless |-> s.nameless, dic |-> s.dic]
      BY DEF SavedAs
    <2> HIDE DEF s
    <2>4. ASSUME NEW b \in BOOLEAN, NEW e \in Dictionaries
          PROVE  [build |-> build, whole |-> FALSE, nameless |-> b, dic |-> e] \in Saves
      BY <2>2 DEF Saves
    <2> QED BY <2>1, <2>2, <2>3, <2>4
  <1>5. Grown(s.dic)
    <2> HIDE DEF names, n
    <2> QED BY <1>1, <1>2, <1>3 DEF Grown
  <1>6. /\ nameSize \in Nat /\ codeSize \in Nat /\ nameSize < Filler /\ codeSize < Filler
        /\ 1 + MaxDefs + NameMargin < Filler /\ 2 + MaxDefs + CodeMargin < Filler
    <2>1. /\ nameSize \in Size /\ codeSize \in Size
          /\ 1 + MaxDefs + NameMargin \in Size /\ 2 + MaxDefs + CodeMargin \in Size
      BY DictFileAssumption
    <2>2. Size \subseteq Nat /\ \A i \in Size : i < Filler
      BY Numbers
    <2> QED BY <2>1, <2>2
  <1> HIDE DEF names, n, c, s
  <1>7. /\ sd.nameSize \in Size /\ Len(names) <= sd.nameSize
        /\ sd.nameSize > 0 <=> nameSize > 0
    <2>1. CASE nameSize = 0
      <3>1. sd.nameSize = 0 /\ Len(names) = 0
        BY <2>1 DEF Info, names
      <3> QED BY <2>1, <3>1, Numbers
    <2>2. CASE nameSize # 0
      <3>1. sd.nameSize = LargerOf(nameSize, n + NameMargin)
        BY <2>2 DEF Info, n, Room
      <3>0. /\ n + NameMargin \in Nat /\ n + NameMargin < Filler /\ n + NameMargin >= n
        <4>1. n \in Nat /\ n <= 1 + MaxDefs
          BY <1>1, Numbers
        <4>2. NameMargin \in Nat /\ MaxDefs \in Nat /\ Filler \in Nat
          BY Numbers
        <4> QED BY <1>6, <4>1, <4>2
      <3>2. /\ LargerOf(nameSize, n + NameMargin) \in Nat /\ LargerOf(nameSize, n + NameMargin) < Filler
            /\ LargerOf(nameSize, n + NameMargin) >= n /\ LargerOf(nameSize, n + NameMargin) > 0
        <4> DEFINE m == n + NameMargin
                   x == LargerOf(nameSize, m)
        <4>1. m \in Nat /\ m < Filler /\ m >= n
          BY <3>0
        <4> HIDE DEF m
        <4>2. x \in Nat /\ x >= nameSize /\ x >= m /\ x \in {nameSize, m}
          BY <1>6, <4>1, Larger
        <4> HIDE DEF x
        <4>3. x \in Nat /\ x < Filler /\ x >= n /\ x > 0
          BY <1>1, <1>6, <2>2, <4>1, <4>2
        <4> QED BY <4>3 DEF x, m
      <3> HIDE DEF sd
      <3>3. sd.nameSize \in Nat /\ sd.nameSize < Filler /\ sd.nameSize >= n /\ sd.nameSize > 0
        BY <3>1, <3>2
      <3>4. Len(names) <= sd.nameSize /\ sd.nameSize \in Size
        <4>1. \A i \in Nat : i < Filler => i \in Size
          BY Numbers
        <4> QED BY <1>1, <1>2, <3>3, <4>1
      <3> QED BY <1>6, <2>2, <3>3, <3>4
    <2> QED BY <2>1, <2>2
  <1>8. sd.codeSize \in Size /\ c <= sd.codeSize
    <2>1. sd.codeSize = LargerOf(codeSize, c + CodeMargin)
      BY DEF Info, Room, c
    <2>2. /\ LargerOf(codeSize, c + CodeMargin) \in Nat /\ LargerOf(codeSize, c + CodeMargin) < Filler
          /\ LargerOf(codeSize, c + CodeMargin) >= c
      <3> DEFINE m == c + CodeMargin
                 x == LargerOf(codeSize, m)
      <3>1. c \in Nat /\ c <= 2 + defs /\ defs <= MaxDefs /\ defs \in Nat
        BY <1>1
      <3>2. m \in Nat /\ m < Filler /\ m >= c
        <4>1. CodeMargin \in Nat /\ MaxDefs \in Nat /\ Filler \in Nat
          BY Numbers
        <4> QED BY <1>6, <3>1, <4>1
      <3> HIDE DEF m
      <3>3. x \in Nat /\ x >= codeSize /\ x >= m /\ x \in {codeSize, m}
        BY <1>6, <3>2, Larger
      <3> HIDE DEF x
      <3>4. x \in Nat /\ x < Filler /\ x >= c
        BY <1>6, <3>1, <3>2, <3>3
      <3> QED BY <3>4 DEF x, m
    <2> HIDE DEF sd
    <2> QED BY <2>1, <2>2, Numbers
  <1>9. sd = InfoOf(s, sd.nameSize, sd.codeSize)
    <2>1. Len(s.dic.names) = (IF nameSize = 0 THEN 0 ELSE Len(d.names))
      BY <1>3 DEF names
    <2> QED BY <1>3, <2>1 DEF Info, InfoOf, RelCodePtr
  <1>10. Form(sd, d) = Form(sd, s.dic)
    <2>1. sd.nameSize > 0 => s.dic.names = d.names
      BY <1>3, <1>6, <1>7 DEF names
    <2> HIDE DEF sd
    <2> QED BY <1>3, <2>1 DEF Form
  <1>11. Sized(s, sd.nameSize, sd.codeSize)
    <2>1. nameSize > 0 => s.dic.names = d.names
      BY <1>3, <1>6 DEF names
    <2> HIDE DEF sd
    <2> QED BY <1>3, <1>7, <1>8, <2>1 DEF Sized, c
  <1> HIDE DEF sd
  <1> DEFINE a == <<sd.nameSize, sd.codeSize>>
  <1>12. a \in Size \X Size /\ a[1] = sd.nameSize /\ a[2] = sd.codeSize
    BY <1>7, <1>8
  <1>13. Form(sd, d) \in Forms(s)
    <2>1. Sized(s, a[1], a[2]) /\ Form(sd, d) = Form(InfoOf(s, a[1], a[2]), s.dic)
      BY <1>9, <1>10, <1>11, <1>12
    <2> HIDE DEF a
    <2> QED BY <1>12, <2>1 DEF Forms
  <1> QED BY <1>3, <1>4, <1>5, <1>13 DEF sd, s

LEMMA SaveTermStep ==
  ASSUME IInv, NEW entry \in {0, 1}, NEW nameSize \in Sizes, NEW codeSize \in Sizes,
         SaveTerm(entry, nameSize, codeSize)
  PROVE  IInv'
  <1> USE DEF counts
  <1>1. PICK d \in {dic, pfExecIfDefined(dic, -1)} :
          /\ pc = "term" /\ pc' = "write" /\ dic' = d
          /\ threw' = (threw \/ d # pfExecIfDefined(dic, -1))
          /\ todo' = Form(Info(d, entry, nameSize, codeSize), d)
          /\ saved' = [build |-> build, whole |-> FALSE, nameless |-> nameSize > 0 /\ d.names = <<>>,
                       dic |-> [d EXCEPT !.entry = entry,
                                         !.names = IF nameSize = 0 THEN <<>> ELSE @]]
          /\ UNCHANGED <<file, build, at, left, result, lost, saves, defs, starts>>
    BY DEF SaveTerm
  <1>2. dic \in Dictionaries /\ Fits(dic) /\ Grown(dic)
    BY <1>1 DEF IInv, InMemory, Working
  <1>3. /\ pfExecIfDefined(dic, -1) \in Dictionaries /\ Fits(pfExecIfDefined(dic, -1))
        /\ Grown(pfExecIfDefined(dic, -1))
        /\ pfExecIfDefined(dic, -1).code[1] =
             IF HasNames(dic) THEN (dic.code[1] + (-1)) % Wrap ELSE dic.code[1]
    <2>1. -1 \in {-1, 1}
      OBVIOUS
    <2> QED BY <1>2, <2>1, Executed
  <1>4. d \in Dictionaries /\ Fits(d) /\ Grown(d)
    BY <1>1, <1>2, <1>3
  <1>5. /\ saved' \in Saves /\ Grown(saved'.dic) /\ saved'.dic.code = d.code
        /\ todo' \in Forms(saved')
    <2>1. Types
      BY DEF IInv
    <2>2. /\ SavedAs(d, entry, nameSize) \in Saves /\ Grown(SavedAs(d, entry, nameSize).dic)
          /\ SavedAs(d, entry, nameSize).dic.code = d.code
          /\ Form(Info(d, entry, nameSize, codeSize), d) \in Forms(SavedAs(d, entry, nameSize))
      BY <1>4, <2>1, SavedForm
    <2>5. saved' = SavedAs(d, entry, nameSize)
      BY <1>1 DEF SavedAs
    <2>3. todo' = Form(Info(d, entry, nameSize, codeSize), d)
      BY <1>1
    <2> QED BY <2>2, <2>3, <2>5
  <1>6. saved' # NULL /\ saved'.whole = FALSE
    BY <1>1 DEF NULL
  <1>7. file = [disk |-> <<>>, base |-> 0, held |-> <<>>] /\ file \in Buffered
    BY <1>1 DEF IInv, Types, Saving, Opened, Buffered
  <1>8. Layout(todo', saved') /\ todo' \in Seq(Unit)
    <2>1. Layout(todo', saved')
      BY <1>5, FormLayout DEF IInv
    <2> QED BY <2>1 DEF Layout
  <1>9. Types'
    BY <1>1, <1>8 DEF IInv, Types
  <1>10. InMemory'
    BY <1>1, <1>4, <1>5 DEF InMemory, Working, Grown
  <1>11. Recoverable'
    <2>1. SomeOut(file') = {file}
      BY <1>1, <1>7, Settled
    <2>2. Broken(<<>>, todo')
      BY <1>8 DEF Broken
    <2> QED BY <1>1, <1>5, <1>6, <1>7, <2>1, <2>2 DEF Recoverable, MayBeLeft
  <1>12. Saving'
    <2>1. file'.held \o todo' = todo'
      BY <1>1, <1>7, <1>8, ConcatEmptySeq
    <2>2. lost = FALSE
      BY <1>1 DEF IInv, Saving
    <2> QED BY <1>1, <1>5, <1>6, <1>7, <2>1, <2>2 DEF Saving, Opened
  <1>13. Initialized'
    <2> SUFFICES ASSUME ~threw' PROVE d.code[1] = 0
      BY <1>1, <1>5 DEF Initialized
    <2>1. ~threw /\ d = pfExecIfDefined(dic, -1)
      BY <1>1 DEF IInv, Types
    <2>2. dic.code[1] = IF HasNames(dic) THEN 1 ELSE 0
      BY <1>1, <2>1 DEF IInv, Initialized
    <2>3. 0 \in Unit /\ 1 + (-1) = 0
      BY Numbers
    <2>4. (1 + (-1)) % Wrap = 0
      BY <2>3, Modulo
    <2> QED BY <1>3, <2>1, <2>2, <2>4
  <1>14. Reading' /\ LoadsWhatWasSaved' /\ Refused'
    <2>1. LoadsWhatWasSaved' /\ Refused'
      BY <1>1, StepOutside DEF IInv
    <2> QED BY <1>1, <2>1 DEF Reading
  <1> QED BY <1>9, <1>10, <1>11, <1>12, <1>13, <1>14 DEF IInv

\* What is held and what is still to write make the form.
LEMMA Held ==
  ASSUME NEW h \in Seq(Unit), NEW t \in Seq(Unit)
  PROVE  /\ Starts(h, h \o t) /\ h = SubSeq(h \o t, 1, Len(h)) /\ Len(h) \in 0 .. Len(h \o t)
  <1> DEFINE w == h \o t
             n == Len(h)
  <1>1. w \in Seq(Unit)
    OBVIOUS
  <1>2. Len(w) = n + Len(t) /\ \A i \in 1 .. n : w[i] = h[i]
    BY Joined
  <1>3. n \in Nat /\ Len(t) \in Nat
    OBVIOUS
  <1> HIDE DEF w, n
  <1>4. n \in 0 .. Len(w)
    BY <1>2, <1>3
  <1>5. /\ SubSeq(w, 1, n) \in Seq(Unit) /\ Len(SubSeq(w, 1, n)) = n
        /\ \A i \in 1 .. n : SubSeq(w, 1, n)[i] = w[i]
    BY <1>1, <1>4, Beginning
  <1>6. h = SubSeq(w, 1, n)
    BY <1>2, <1>5, SeqEqual DEF n
  <1>7. Starts(h, w)
    <2>1. n <= n + 1 /\ n # n + 1 /\ \A i \in 1 .. n : i <= n => h[i] = w[i]
      BY <1>2, <1>3
    <2> QED BY <1>4, <2>1 DEF Starts, n
  <1> QED BY <1>4, <1>6, <1>7 DEF w, n

LEMMA WriteStep ==
  ASSUME IInv, Write
  PROVE  IInv'
  <1> USE DEF history, counts
  <1>1. /\ pc = "write" /\ todo # <<>>
        /\ UNCHANGED <<build, dic, at, left, result, saved, lost, threw, defs>>
        /\ \/ file' = sdWriteFile(file, Head(todo)) /\ todo' = Tail(todo) /\ pc' = pc
           \/ pc' = "error" /\ todo' = <<>> /\ file' = file
    BY DEF Write
  <1>2. /\ file \in Buffered /\ file.disk = <<>> /\ file.base = 0
        /\ saved # NULL /\ saved.whole = FALSE /\ lost = FALSE
        /\ file.held \o todo \in Forms(saved) /\ todo \in Seq(Unit) /\ file.held \in Seq(Unit)
    <2>1. file \in Buffered /\ lost \in BOOLEAN /\ todo \in Seq(Unit)
      BY DEF IInv, Types
    <2>2. /\ file.disk = <<>> /\ file.base = 0 /\ saved # NULL /\ ~saved.whole /\ ~lost
          /\ file.held \o todo \in Forms(saved)
      BY <1>1 DEF IInv, Saving, Opened
    <2>3. saved.whole \in BOOLEAN
      BY <2>2 DEF IInv, InMemory, Saves
    <2> QED BY <2>1, <2>2, <2>3 DEF Buffered
  <1> DEFINE w == file.held \o todo
  <1>3. w \in Seq(Unit) /\ w[2] = 0
    <2>1. saved \in Saves /\ Grown(saved.dic) /\ Types
      BY <1>2 DEF IInv, InMemory
    <2> QED BY <1>2, <2>1, FormLayout DEF Layout
  <1>4. LoadsWhatWasSaved' /\ Refused'
    BY <1>1, StepOutside DEF IInv
  <1>5. InMemory' /\ Reading' /\ Initialized'
    BY <1>1 DEF IInv, InMemory, Reading, Initialized, Working, Grown
  <1>6. CASE file' = sdWriteFile(file, Head(todo)) /\ todo' = Tail(todo) /\ pc' = pc
    <2> DEFINE h == Append(file.held, Head(todo))
               t == Tail(todo)
    <2>1. h \in Seq(Unit) /\ t \in Seq(Unit) /\ h \o t = w
      BY <1>1, <1>2
    <2>2. file' \in Buffered /\ file'.disk = <<>> /\ file'.base = 0 /\ file'.held = h /\ todo' = t
      BY <1>2, <1>6, <2>1 DEF sdWriteFile, Buffered
    <2> HIDE DEF h, t, w
    <2>3. Types'
      BY <1>1, <1>6, <2>1, <2>2 DEF IInv, Types
    <2>4. ASSUME NEW g \in SomeOut(file') PROVE Broken(g.disk, w)
      <3>1. file'.disk \o file'.held = h /\ file'.base = Len(file'.disk)
        BY <2>1, <2>2, ConcatEmptySeq
      <3>2. Starts(h, w)
        BY <2>1, Held
      <3> QED BY <1>3, <2>2, <3>1, <3>2, StraightLeaves
    <2>5. Recoverable'
      <3>1. w \in Forms(saved')
        BY <1>1, <1>2 DEF w
      <3> QED BY <1>1, <1>2, <2>4, <3>1 DEF Recoverable, MayBeLeft
    <2>6. Saving'
      <3>1. file'.held \o todo' \in Forms(saved')
        BY <1>1, <1>2, <2>1, <2>2 DEF w
      <3> QED BY <1>1, <1>2, <1>6, <2>2, <3>1 DEF Saving, Opened
    <2> QED BY <1>4, <1>5, <2>3, <2>5, <2>6 DEF IInv
  <1>7. CASE pc' = "error" /\ todo' = <<>> /\ file' = file
    <2>1. Recoverable'
      BY <1>1, <1>7, FileStays DEF IInv
    <2>2. Types'
      BY <1>1, <1>7 DEF IInv, Types
    <2>3. Saving'
      <3>1. file'.base = Len(file'.disk) /\ file'.disk \o file'.held = file.held
        BY <1>2, <1>7, ConcatEmptySeq
      <3>2. file.held = SubSeq(w, 1, Len(file.held)) /\ Len(file.held) \in 0 .. Len(w)
        BY <1>2, Held
      <3>3. w \in Forms(saved')
        BY <1>1, <1>2
      <3> HIDE DEF w
      <3> QED BY <1>1, <1>2, <1>7, <3>1, <3>2, <3>3 DEF Saving
    <2> QED BY <1>4, <1>5, <2>1, <2>2, <2>3 DEF IInv
  <1> QED BY <1>1, <1>6, <1>7

\* When all of the file has been written the FORM size follows, at its place if
\* the seek was good and behind it all if not.
LEMMA WriteFormSizeStep ==
  ASSUME IInv, WriteFormSize
  PROVE  IInv'
  <1> USE DEF counts
  <1> DEFINE w == file.held
             size == Len(w) - 2
             s == [saved EXCEPT !.whole = TRUE]
  <1>1. /\ pc = "write" /\ todo = <<>>
        /\ UNCHANGED <<todo, build, dic, at, left, result, threw, defs>>
    BY DEF WriteFormSize
  <1>2. /\ file \in Buffered /\ file.disk = <<>> /\ file.base = 0
        /\ saved # NULL /\ saved.whole = FALSE /\ lost = FALSE /\ w \in Seq(Unit) /\ w \in Forms(saved)
        /\ saved \in Saves /\ Grown(saved.dic)
    <2>1. file \in Buffered /\ lost \in BOOLEAN
      BY DEF IInv, Types
    <2>2. /\ file.disk = <<>> /\ file.base = 0 /\ saved # NULL /\ ~saved.whole /\ ~lost
          /\ file.held \o <<>> \in Forms(saved)
      BY <1>1 DEF IInv, Saving, Opened
    <2>3. saved \in Saves /\ Grown(saved.dic) /\ saved.whole \in BOOLEAN
      BY <2>2 DEF IInv, InMemory, Saves
    <2>4. file.held \in Seq(Unit)
      BY <2>1 DEF Buffered
    <2> QED BY <2>1, <2>2, <2>3, <2>4, ConcatEmptySeq
  <1>3. w[2] = 0 /\ Len(w) >= 3 /\ Len(w) < Filler /\ Len(w) \in Nat
    <2>1. Layout(w, saved) /\ Len(w) < Filler
      BY <1>2, FormLayout DEF IInv
    <2>2. Len(w) = CodeAt(saved, w[10]) + 2 + Len(saved.dic.code) /\ w[2] = 0
      BY <2>1 DEF Layout
    <2>3. Len(saved.dic.names) \in Nat /\ Len(saved.dic.code) \in Nat
      BY <1>2 DEF Saves, Dictionaries
    <2>4. CodeAt(saved, w[10]) \in Nat /\ CodeAt(saved, w[10]) >= 15
      BY <2>3 DEF CodeAt
    <2> QED BY <2>1, <2>2, <2>3, <2>4
  <1>4. size \in Unit /\ sdTellFile(file) - 2 = size
    <2>1. size \in Nat /\ size < Filler
      BY <1>3, Numbers
    <2>2. sdTellFile(file) - 2 = size
      BY <1>2, <1>3 DEF sdTellFile
    <2> QED BY <2>1, <2>2, Numbers
  <1> HIDE DEF size
  <1>5. PICK f \in sdSeekFile(file, 1) :
          /\ lost' = (lost \/ f # Sought(file, 1))
          /\ \/ file' = sdWriteFile(f, size) /\ pc' = "close" /\ saved' = s
             \/ file' = f /\ pc' = "error" /\ saved' = saved
    BY <1>4 DEF WriteFormSize
  <1>6. s \in Saves /\ s # NULL /\ Grown(s.dic) /\ Forms(s) = Forms(saved) /\ s.whole = TRUE
        /\ s.dic = saved.dic
    <2>1. s \in Saves /\ Forms(s) = Forms(saved)
      BY <1>2, FormsWhole
    <2>2. s.dic = saved.dic /\ s.whole = TRUE
      BY <1>2 DEF Saves
    <2>3. s # NULL
      BY <2>1 DEF NULL, Saves
    <2> QED BY <1>2, <2>1, <2>2, <2>3
  <1>7. /\ lost' \in BOOLEAN /\ saved' \in {saved, s} /\ pc' \in {"close", "error"}
        /\ (f = Sought(file, 1) => lost' = FALSE) /\ (f # Sought(file, 1) => lost' = TRUE)
    BY <1>2, <1>5
  <1> HIDE DEF w, s
  <1>8. LoadsWhatWasSaved' /\ Refused'
    BY <1>1, <1>7, StepOutside DEF IInv
  <1>9. InMemory' /\ Reading' /\ Initialized'
    <2>1. InMemory'
      BY <1>1, <1>2, <1>6, <1>7 DEF IInv, InMemory, Working, Grown
    <2>2. Reading' /\ Initialized'
      BY <1>1, <1>2, <1>6, <1>7 DEF IInv, Reading, Initialized
    <2> QED BY <2>1, <2>2
  <1>10. ASSUME file' \in Buffered, file'.base <= Len(file'.disk) PROVE Types'
    BY <1>1, <1>7, <1>10 DEF IInv, Types
  <1>11. CASE f = Sought(file, 1)
    <2>1. /\ f = [disk |-> w, base |-> 1, held |-> <<>>] /\ f \in Buffered
          /\ f.disk = w /\ f.base = 1 /\ f.held = <<>>
      <3>1. AllOut(file).disk = w
        <4>1. Len(w) \in 0 .. Len(w) /\ file.base = Len(file.disk) /\ file.base + Len(w) = Len(w)
          BY <1>2, <1>3
        <4>2. Out(file, Len(w)).disk = SubSeq(file.disk \o file.held, 1, file.base + Len(w))
          BY <1>2, <4>1, Straight DEF w
        <4>3. file.disk \o file.held = w
          BY <1>2, ConcatEmptySeq DEF w
        <4>4. SubSeq(w, 1, Len(w)) = w
          BY <1>2, SubSeqFull
        <4> QED BY <4>1, <4>2, <4>3, <4>4 DEF AllOut, w
      <3>2. AllOut(file).held = <<>>
        <4>1. AllOut(file).held = SubSeq(w, Len(w) + 1, Len(w))
          BY DEF AllOut, Out, w
        <4>2. SubSeq(w, Len(w) + 1, Len(w)) = <<>>
          BY <1>3, SubSeqEmpty
        <4> QED BY <4>1, <4>2
      <3>3. f = [disk |-> AllOut(file).disk, base |-> 1, held |-> AllOut(file).held]
        BY <1>11 DEF Sought, AllOut, Out
      <3> QED BY <1>2, <3>1, <3>2, <3>3 DEF Buffered
    <2>2. CASE file' = sdWriteFile(f, size) /\ pc' = "close" /\ saved' = s
      <3>1. /\ file' \in Buffered /\ file'.disk = w /\ file'.base = 1 /\ file'.held = <<size>>
            /\ file'.base <= Len(file'.disk)
        <4>1. file' = [disk |-> w, base |-> 1, held |-> <<size>>]
          BY <2>1, <2>2 DEF sdWriteFile
        <4>2. <<size>> \in Seq(Unit)
          BY <1>4
        <4> QED BY <1>2, <1>3, <4>1, <4>2 DEF Buffered
      <3>2. /\ \A g \in SomeOut(file') : Broken(g.disk, w) \/ Finished(g.disk, w)
            /\ Finished(AllOut(file').disk, w)
        BY <1>2, <1>3, <3>1, SizedLeaves DEF size
      <3>3. Recoverable'
        BY <1>2, <1>6, <2>2, <3>2 DEF Recoverable, MayBeLeft
      <3>4. Saving'
        BY <1>1, <1>6, <2>2 DEF Saving
      <3> QED BY <1>8, <1>9, <1>10, <3>1, <3>3, <3>4 DEF IInv
    <2>3. CASE file' = f /\ pc' = "error" /\ saved' = saved
      <3>1. file' \in Buffered /\ file'.base <= Len(file'.disk)
        BY <1>3, <2>1, <2>3
      <3>2. \A g \in SomeOut(file') : Broken(g.disk, w)
        <4>1. Len(w) \in 0 .. Len(w) /\ w = SubSeq(w, 1, Len(w)) /\ Len(w) >= 2
          BY <1>2, <1>3, SubSeqFull
        <4> QED BY <1>2, <1>3, <2>1, <2>3, <4>1, MarkedLeaves
      <3>3. Recoverable'
        BY <1>2, <2>3, <3>2 DEF Recoverable, MayBeLeft
      <3>4. Saving'
        BY <1>1, <1>2, <2>1, <2>3 DEF Saving
      <3> QED BY <1>8, <1>9, <1>10, <3>1, <3>3, <3>4 DEF IInv
    <2> QED BY <1>5, <2>2, <2>3
  <1>12. CASE f # Sought(file, 1)
    <2>1. f \in SomeOut(file)
      BY <1>5, <1>12 DEF sdSeekFile
    <2>2. file.disk \o file.held = w /\ file.base = Len(file.disk)
      BY <1>2, ConcatEmptySeq DEF w
    <2>3. Len(w) \in 0 .. Len(w) /\ SubSeq(w, 1, Len(w)) = w
      BY <1>2, <1>3, SubSeqFull
    <2>4. Starts(w, w) /\ w \o <<size>> \in Seq(Unit) /\ Starts(w \o <<size>>, w)
      <3>1. size = BADF \/ Len(w) = Len(w)
        OBVIOUS
      <3>2. /\ Starts(SubSeq(w, 1, Len(w)), w)
            /\ SubSeq(w, 1, Len(w)) \o <<size>> \in Seq(Unit)
            /\ Starts(SubSeq(w, 1, Len(w)) \o <<size>>, w)
        BY <1>2, <1>4, <2>3, <3>1, StartsPart
      <3> QED BY <2>3, <3>2
    <2>5. f \in Buffered /\ f.base = Len(f.disk) /\ f.disk \o f.held = w
      BY <1>2, <1>3, <2>1, <2>2, <2>4, StraightLeaves
    <2>6. f.disk \in Seq(Unit) /\ f.held \in Seq(Unit)
      BY <2>5 DEF Buffered
    <2>7. CASE file' = sdWriteFile(f, size) /\ pc' = "close" /\ saved' = s
      <3>1. /\ file' \in Buffered /\ file'.base = Len(file'.disk)
            /\ file'.disk \o file'.held = w \o <<size>>
        <4>1. Append(f.held, size) = f.held \o <<size>> /\ Append(f.held, size) \in Seq(Unit)
              /\ <<size>> \in Seq(Unit)
          BY <1>4, <2>6
        <4>2. /\ file' \in Buffered /\ file'.disk = f.disk /\ file'.base = f.base
              /\ file'.held = f.held \o <<size>>
          BY <2>5, <2>7, <4>1 DEF sdWriteFile, Buffered
        <4>3. f.disk \o (f.held \o <<size>>) = (f.disk \o f.held) \o <<size>>
          <5> DEFINE x == f.disk
                     y == f.held
                     z == <<size>>
          <5>1. x \in Seq(Unit) /\ y \in Seq(Unit) /\ z \in Seq(Unit)
            BY <2>6, <4>1
          <5> HIDE DEF x, y, z
          <5>2. (x \o y) \o z = x \o (y \o z)
            BY <5>1, ConcatAssociative
          <5> QED BY <5>2 DEF x, y, z
        <4> QED BY <2>5, <4>2, <4>3
      <3>2. \A g \in SomeOut(file') : Broken(g.disk, w)
        BY <1>2, <1>3, <2>4, <3>1, StraightLeaves
      <3>3. Recoverable'
        BY <1>2, <1>6, <1>7, <1>12, <2>7, <3>2 DEF Recoverable, MayBeLeft
      <3>4. Saving'
        BY <1>1, <1>6, <2>7 DEF Saving
      <3>5. file'.base <= Len(file'.disk)
        BY <3>1 DEF Buffered
      <3> QED BY <1>8, <1>9, <1>10, <3>1, <3>3, <3>4, <3>5 DEF IInv
    <2>8. CASE file' = f /\ pc' = "error" /\ saved' = saved
      <3>1. \A g \in SomeOut(file') : Broken(g.disk, w)
        BY <1>2, <1>3, <2>4, <2>5, <2>8, StraightLeaves
      <3>2. Recoverable'
        BY <1>2, <2>8, <3>1 DEF Recoverable, MayBeLeft
      <3>3. Saving'
        BY <1>1, <1>2, <2>3, <2>5, <2>8 DEF Saving
      <3>4. file'.base <= Len(file'.disk)
        BY <2>5, <2>8 DEF Buffered
      <3> QED BY <1>8, <1>9, <1>10, <2>5, <2>8, <3>2, <3>3, <3>4 DEF IInv
    <2> QED BY <1>5, <2>7, <2>8
  <1> QED BY <1>11, <1>12

\* The file is marked as bad, wherever the position is.
LEMMA SaveErrorStep ==
  ASSUME IInv, SaveError
  PROVE  IInv'
  <1> USE DEF history, counts
  <1>1. /\ pc = "error" /\ pc' = "close"
        /\ UNCHANGED <<todo, build, dic, at, left, result, saved, lost, threw, defs>>
    BY DEF SaveError
  <1>2. PICK f \in sdSeekFile(file, 0) : file' \in {f, sdWriteFile(f, BADF)}
    BY DEF SaveError
  <1>3. /\ saved # NULL /\ ~saved.whole /\ saved \in Saves /\ Grown(saved.dic)
        /\ file \in Buffered /\ file.base <= Len(file.disk)
    <2>1. saved # NULL /\ ~saved.whole
      BY <1>1 DEF IInv, Saving
    <2> QED BY <2>1 DEF IInv, InMemory, Types
  <1>4. PICK w \in Forms(saved) :
          \/ /\ file.base = Len(file.disk)
             /\ \E n \in 0 .. Len(w) : file.disk \o file.held = SubSeq(w, 1, n)
          \/ file.disk = w /\ file.base = 1 /\ file.held = <<>>
    BY <1>1 DEF IInv, Saving
  <1>5. w \in Seq(Unit) /\ w[2] = 0 /\ Len(w) >= 2 /\ Len(w) \in Nat
    <2>1. Layout(w, saved)
      BY <1>3, FormLayout DEF IInv
    <2>2. Len(w) = CodeAt(saved, w[10]) + 2 + Len(saved.dic.code) /\ w[2] = 0 /\ w \in Seq(Unit)
      BY <2>1 DEF Layout
    <2>3. Len(saved.dic.names) \in Nat /\ Len(saved.dic.code) \in Nat
      BY <1>3 DEF Saves, Dictionaries
    <2>4. CodeAt(saved, w[10]) \in Nat /\ CodeAt(saved, w[10]) >= 15
      BY <2>3 DEF CodeAt
    <2> QED BY <2>2, <2>3, <2>4
  <1>6. BADF \in Unit /\ <<BADF>> \in Seq(Unit)
    BY Numbers
  <1>7. LoadsWhatWasSaved' /\ Refused' /\ InMemory' /\ Reading' /\ Initialized'
    <2>1. LoadsWhatWasSaved' /\ Refused'
      BY <1>1, StepOutside DEF IInv
    <2>2. InMemory'
      BY <1>1 DEF IInv, InMemory, Working, Grown
    <2>3. Reading' /\ Initialized'
      BY <1>1 DEF IInv, Reading, Initialized
    <2> QED BY <2>1, <2>2, <2>3
  <1>8. ASSUME file' \in Buffered, file'.base <= Len(file'.disk),
               \A g \in SomeOut(file') : Broken(g.disk, w)
        PROVE  IInv'
    <2>1. Types'
      BY <1>1, <1>8 DEF IInv, Types
    <2>2. Recoverable'
      BY <1>1, <1>3, <1>8 DEF Recoverable, MayBeLeft
    <2>3. Saving'
      BY <1>1, <1>3 DEF IInv, Saving
    <2> QED BY <1>7, <2>1, <2>2, <2>3 DEF IInv
  \* The position is at one of the first two units.
  <1>9. ASSUME NEW n \in 0 .. Len(w), NEW b \in {0, 1}, b = 1 => n >= 2,
               f = [disk |-> SubSeq(w, 1, n), base |-> b, held |-> <<>>]
        PROVE  IInv'
    <2>1. SubSeq(w, 1, n) \in Seq(Unit) /\ Len(SubSeq(w, 1, n)) = n
      BY <1>5, Beginning
    <2>2. /\ file' \in Buffered /\ file'.disk = SubSeq(w, 1, n) /\ file'.base = b
          /\ file'.held \in {<<>>, <<BADF>>}
      <3>1. CASE file' = f
        BY <1>9, <2>1, <3>1 DEF Buffered
      <3>2. CASE file' = sdWriteFile(f, BADF)
        <4>1. file' = [disk |-> SubSeq(w, 1, n), base |-> b, held |-> <<BADF>>]
          <5>1. Append(<<>>, BADF) = <<BADF>>
            OBVIOUS
          <5>2. file' = [f EXCEPT !.held = Append(@, BADF)]
            BY <3>2 DEF sdWriteFile
          <5>3. file' = [disk |-> SubSeq(w, 1, n), base |-> b, held |-> Append(<<>>, BADF)]
            BY <1>9, <5>2
          <5> QED BY <5>1, <5>3
        <4> QED BY <1>6, <2>1, <4>1 DEF Buffered
      <3> QED BY <1>2, <3>1, <3>2
    <2>3. file'.base <= Len(file'.disk)
      BY <1>9, <2>1, <2>2
    <2>4. \A g \in SomeOut(file') : Broken(g.disk, w)
      BY <1>5, <1>9, <2>2, MarkedLeaves
    <2> QED BY <1>8, <2>2, <2>3, <2>4
  <1>10. CASE file.disk = w /\ file.base = 1 /\ file.held = <<>>
    <2>1. SomeOut(file) = {file} /\ AllOut(file) = file
      BY <1>3, <1>10, Settled
    <2>2. SubSeq(w, 1, Len(w)) = w /\ Len(w) \in 0 .. Len(w)
      BY <1>5, SubSeqFull
    <2>3. file = [disk |-> w, base |-> 1, held |-> <<>>]
      BY <1>3, <1>10 DEF Buffered
    <2>4. CASE f = Sought(file, 0)
      <3>1. f = [disk |-> w, base |-> 0, held |-> <<>>]
        BY <2>1, <2>3, <2>4 DEF Sought
      <3> QED BY <1>5, <1>9, <2>2, <3>1
    <2>5. CASE f \in SomeOut(file)
      BY <1>5, <1>9, <2>1, <2>2, <2>3, <2>5
    <2> QED BY <1>2, <2>4, <2>5 DEF sdSeekFile
  <1>11. ASSUME file.base = Len(file.disk),
                NEW n \in 0 .. Len(w), file.disk \o file.held = SubSeq(w, 1, n)
         PROVE  IInv'
    <2>1. file.held \in Seq(Unit) /\ file.disk \in Seq(Unit)
      BY <1>3 DEF Buffered
    <2>2. CASE f = Sought(file, 0)
      <3>1. AllOut(file).disk = SubSeq(w, 1, n)
        <4>1. Len(file.held) \in 0 .. Len(file.held)
          BY <2>1
        <4>2. /\ Len(file.disk \o file.held) = Len(file.disk) + Len(file.held)
              /\ Out(file, Len(file.held)).disk =
                   SubSeq(file.disk \o file.held, 1, file.base + Len(file.held))
          BY <1>3, <1>11, <4>1, Straight
        <4>3. file.disk \o file.held \in Seq(Unit)
          BY <2>1
        <4>4. SubSeq(file.disk \o file.held, 1, Len(file.disk \o file.held)) = file.disk \o file.held
          BY <4>3, SubSeqFull
        <4> QED BY <1>11, <4>2, <4>4 DEF AllOut
      <3>2. AllOut(file).held = <<>>
        <4>1. AllOut(file).held = SubSeq(file.held, Len(file.held) + 1, Len(file.held))
          BY DEF AllOut, Out
        <4>2. Len(file.held) \in Nat
          BY <2>1
        <4>3. SubSeq(file.held, Len(file.held) + 1, Len(file.held)) = <<>>
          BY <4>2, SubSeqEmpty
        <4> QED BY <4>1, <4>3
      <3>3. f = [disk |-> AllOut(file).disk, base |-> 0, held |-> AllOut(file).held]
        BY <2>2 DEF Sought, AllOut, Out
      <3>4. f = [disk |-> SubSeq(w, 1, n), base |-> 0, held |-> <<>>]
        BY <3>1, <3>2, <3>3
      <3>5. 0 \in {0, 1} /\ (0 = 1 => n >= 2)
        OBVIOUS
      <3> QED BY <1>9, <3>4, <3>5
    <2>3. CASE f \in SomeOut(file)
      <3>1. /\ Starts(SubSeq(w, 1, n), w)
            /\ SubSeq(w, 1, n) \o <<BADF>> \in Seq(Unit) /\ Starts(SubSeq(w, 1, n) \o <<BADF>>, w)
        <4>1. BADF = BADF \/ n = Len(w)
          OBVIOUS
        <4> QED BY <1>5, <1>6, <4>1, StartsPart
      <3>2. f \in Buffered /\ f.base = Len(f.disk) /\ f.disk \o f.held = SubSeq(w, 1, n)
        BY <1>3, <1>5, <1>11, <2>3, <3>1, StraightLeaves
      <3>3. CASE file' = f
        <4>1. \A g \in SomeOut(file') : Broken(g.disk, w)
          BY <1>5, <3>1, <3>2, <3>3, StraightLeaves
        <4>2. file'.base <= Len(file'.disk)
          BY <3>2, <3>3 DEF Buffered
        <4> QED BY <1>8, <3>2, <3>3, <4>1, <4>2
      <3>4. CASE file' = sdWriteFile(f, BADF)
        <4> DEFINE x == f.disk
                   y == f.held
                   z == <<BADF>>
        <4>1. x \in Seq(Unit) /\ y \in Seq(Unit) /\ z \in Seq(Unit)
          BY <1>6, <3>2 DEF Buffered
        <4>2. Append(y, BADF) = y \o z /\ Append(y, BADF) \in Seq(Unit)
          BY <1>6, <4>1
        <4>3. file' \in Buffered /\ file'.disk = x /\ file'.base = f.base /\ file'.held = y \o z
          BY <3>2, <3>4, <4>2 DEF sdWriteFile, Buffered
        <4> HIDE DEF x, y, z
        <4>4. (x \o y) \o z = x \o (y \o z)
          BY <4>1, ConcatAssociative
        <4>5. file'.disk \o file'.held = SubSeq(w, 1, n) \o <<BADF>>
          BY <3>2, <4>3, <4>4 DEF x, y, z
        <4>6. file'.base = Len(file'.disk)
          BY <3>2, <4>3 DEF x
        <4>7. \A g \in SomeOut(file') : Broken(g.disk, w)
          BY <1>5, <3>1, <4>3, <4>5, <4>6, StraightLeaves
        <4>8. file'.base <= Len(file'.disk)
          BY <4>3, <4>6 DEF Buffered
        <4> QED BY <1>8, <4>3, <4>7, <4>8
      <3> QED BY <1>2, <3>3, <3>4
    <2> QED BY <1>2, <2>2, <2>3 DEF sdSeekFile
  <1> QED BY <1>4, <1>10, <1>11

\* The library gives up the file.
LEMMA FileClosed ==
  ASSUME IInv, NEW f \in SomeOut(file), file' = Closed(f), lost' = (lost \/ f # AllOut(file)),
         saved' = saved
  PROVE  /\ file' \in Buffered /\ file'.base = 0 /\ file'.held = <<>> /\ file'.base <= Len(file'.disk)
         /\ lost' \in BOOLEAN /\ Recoverable'
  <1>1. file \in Buffered /\ file.base <= Len(file.disk) /\ lost \in BOOLEAN
    BY DEF IInv, Types
  <1>2. PICK n \in 0 .. Len(file.held) : f = Out(file, n)
    BY DEF SomeOut
  <1>3. f \in Buffered
    BY <1>1, <1>2, OutTypes
  <1>4. /\ file' \in Buffered /\ file'.base = 0 /\ file'.held = <<>> /\ file'.disk = f.disk
        /\ f.disk \in Seq(Unit)
    BY <1>3 DEF Closed, Buffered
  <1>5. file'.base <= Len(file'.disk)
    BY <1>4
  <1>6. SomeOut(file') = {file'} /\ AllOut(file') = file'
    BY <1>4, <1>5, Settled
  <1>7. Recoverable'
    <2>1. MayBeLeft(f.disk)
      BY DEF IInv, Recoverable
    <2>2. MayBeLeft(f.disk)'
      BY <2>1 DEF MayBeLeft
    <2>3. \A g \in SomeOut(file') : g.disk = f.disk
      BY <1>4, <1>6
    <2>4. saved # NULL /\ saved.whole /\ ~lost' => \E w \in Forms(saved) : Finished(AllOut(file').disk, w)
      <3> SUFFICES ASSUME saved # NULL, saved.whole, ~lost'
                   PROVE  \E w \in Forms(saved) : Finished(AllOut(file').disk, w)
        OBVIOUS
      <3>1. ~lost /\ f = AllOut(file)
        OBVIOUS
      <3>2. \E w \in Forms(saved) : Finished(AllOut(file).disk, w)
        BY <3>1 DEF IInv, Recoverable
      <3> QED BY <1>4, <1>6, <3>1, <3>2
    <2> QED BY <1>6, <2>2, <2>3, <2>4, <1>4 DEF Recoverable, MayBeLeft
  <1> QED BY <1>1, <1>4, <1>5, <1>7

LEMMA SaveCloseStep ==
  ASSUME IInv, SaveClose
  PROVE  IInv'
  <1> USE DEF counts
  <1>1. /\ pc = "close" /\ pc' = "init"
        /\ UNCHANGED <<todo, build, dic, at, left, result, saved, threw, defs>>
    BY DEF SaveClose
  <1>2. /\ file' \in Buffered /\ file'.base = 0 /\ file'.held = <<>> /\ file'.base <= Len(file'.disk)
        /\ lost' \in BOOLEAN /\ Recoverable'
    BY <1>1, FileClosed DEF SaveClose
  <1>3. LoadsWhatWasSaved' /\ Refused'
    BY <1>1, StepOutside DEF IInv
  <1>4. InMemory'
    BY <1>1 DEF IInv, InMemory, Working, Grown
  <1>5. Types'
    BY <1>1, <1>2 DEF IInv, Types
  <1>6. Saving' /\ Reading' /\ Initialized'
    BY <1>1, <1>2 DEF IInv, Saving, Reading, Initialized
  <1> QED BY <1>2, <1>3, <1>4, <1>5, <1>6 DEF IInv

LEMMA SaveInitStep ==
  ASSUME IInv, SaveInit
  PROVE  IInv'
  <1> USE DEF counts
  <1>1. /\ pc = "init" /\ pc' = "idle" /\ dic' \in {dic, pfExecIfDefined(dic, 1)}
        /\ threw' = (threw \/ dic' # pfExecIfDefined(dic, 1))
        /\ UNCHANGED <<file, todo, build, at, left, result, saved, lost, defs>>
    BY DEF SaveInit
  <1>2. dic \in Dictionaries /\ Fits(dic) /\ Grown(dic)
    BY <1>1 DEF IInv, InMemory, Working
  <1>3. /\ pfExecIfDefined(dic, 1) \in Dictionaries /\ Fits(pfExecIfDefined(dic, 1))
        /\ Grown(pfExecIfDefined(dic, 1)) /\ pfExecIfDefined(dic, 1).nameSize = dic.nameSize
        /\ pfExecIfDefined(dic, 1).code[1] =
             IF HasNames(dic) THEN (dic.code[1] + 1) % Wrap ELSE dic.code[1]
    <2>1. 1 \in {-1, 1}
      OBVIOUS
    <2> QED BY <1>2, <2>1, Executed
  <1>4. InMemory'
    <2>1. dic' \in Dictionaries /\ Fits(dic)' /\ Grown(dic)'
      <3>1. CASE dic' = dic
        BY <1>1, <1>2, <3>1 DEF Fits, Grown
      <3>2. CASE dic' = pfExecIfDefined(dic, 1)
        BY <1>1, <1>3, <3>2 DEF Fits, Grown
      <3> QED BY <1>1, <3>1, <3>2
    <2> QED BY <1>1, <2>1 DEF IInv, InMemory, Working, Grown
  <1>5. Initialized'
    <2> SUFFICES ASSUME ~threw'
                 PROVE  /\ dic'.code[1] = IF dic'.nameSize > 0 THEN 1 ELSE 0
                        /\ saved # NULL => saved.dic.code[1] = 0
      BY <1>1 DEF Initialized, HasNames
    <2>1. ~threw /\ dic' = pfExecIfDefined(dic, 1)
      BY <1>1
    <2>2. dic.code[1] = 0 /\ (saved # NULL => saved.dic.code[1] = 0)
      BY <1>1, <2>1 DEF IInv, Initialized
    <2>3. (0 + 1) % Wrap = 1
      <3>1. 1 \in Unit /\ 0 + 1 = 1
        BY Numbers
      <3> QED BY <3>1, Modulo
    <2> QED BY <1>3, <2>1, <2>2, <2>3 DEF HasNames
  <1>6. Types' /\ Reading'
    BY <1>1 DEF IInv, Types, Reading
  <1>7. Recoverable' /\ Saving'
    <2>1. Recoverable'
      BY <1>1, FileStays DEF IInv
    <2> QED BY <1>1, <2>1 DEF IInv, Saving
  <1>8. LoadsWhatWasSaved' /\ Refused'
    BY <1>1, StepOutside DEF IInv
  <1> QED BY <1>4, <1>5, <1>6, <1>7, <1>8 DEF IInv

LEMMA EndsStep ==
  ASSUME IInv, Ends
  PROVE  IInv'
  <1> USE DEF counts
  <1>1. /\ pc # "down" /\ pc' = "down" /\ todo' = <<>> /\ dic' = NULL /\ at' = 0 /\ left' = 0
        /\ result' = "ended" /\ UNCHANGED <<build, saved, threw, defs>>
    BY DEF Ends
  <1>2. /\ file' \in Buffered /\ file'.base = 0 /\ file'.held = <<>> /\ file'.base <= Len(file'.disk)
        /\ lost' \in BOOLEAN /\ Recoverable'
    BY <1>1, FileClosed DEF Ends
  <1>3. LoadsWhatWasSaved' /\ Refused'
    BY <1>1, StepOutside DEF IInv
  <1>4. InMemory'
    BY <1>1 DEF IInv, InMemory, Working, Grown
  <1>5. Types'
    <2>1. 0 \in Unit /\ 0 \in Nat /\ <<>> \in Seq(Unit)
      BY Numbers
    <2> QED BY <1>1, <1>2, <2>1 DEF IInv, Types
  <1>6. Saving' /\ Reading' /\ Initialized'
    BY <1>1, <1>2 DEF IInv, Saving, Reading, Initialized
  <1> QED BY <1>2, <1>3, <1>4, <1>5, <1>6 DEF IInv

-----------------------------------------------------------------------------
(* The steps of a program that starts.                                     *)

\* Nothing is held while a program starts.
LEMMA FileRead ==
  ASSUME IInv, pc \in {"down", "header", "chunks", "boot"}
  PROVE  /\ disk \in Seq(Unit) /\ file.base = 0 /\ file.held = <<>> /\ todo = <<>>
         /\ MayBeLeft(disk)
         /\ saved # NULL /\ saved.whole /\ ~lost => \E w \in Forms(saved) : Finished(disk, w)
  <1>1. file \in Buffered /\ file.base <= Len(file.disk) /\ file.base = 0 /\ file.held = <<>>
        /\ todo = <<>>
    BY DEF IInv, Types, Saving
  <1>2. SomeOut(file) = {file} /\ AllOut(file) = file
    BY <1>1, Settled
  <1>3. disk \in Seq(Unit)
    BY <1>1 DEF Buffered, disk
  <1> QED BY <1>1, <1>2, <1>3 DEF IInv, Recoverable, disk

\* What stays while a program starts.
LEMMA LoadKeeps ==
  ASSUME IInv, pc \in {"down", "header", "chunks", "boot"},
         pc' \in {"down", "header", "chunks", "boot", "idle"},
         UNCHANGED <<file, todo, saved, lost, threw, defs>>
  PROVE  /\ Recoverable' /\ Saving'
         /\ saved # NULL => saved \in Saves /\ Grown(saved.dic)'
         /\ ~threw /\ saved # NULL => saved.dic.code[1] = 0
  <1>1. Recoverable'
    BY FileStays DEF IInv
  <1>2. Saving'
    BY FileRead DEF Saving
  <1>3. saved # NULL => saved \in Saves /\ Grown(saved.dic)'
    BY DEF IInv, InMemory, Grown
  <1>4. ~threw /\ saved # NULL => saved.dic.code[1] = 0
    BY DEF IInv, Initialized
  <1> QED BY <1>1, <1>2, <1>3, <1>4

\* One way or another the start fails.
LEMMA StopsStep ==
  ASSUME IInv, pc \in {"header", "chunks", "boot"}, NEW how \in {"failed", "refused"}, Stops(how),
         savedLoads'
  PROVE  IInv'
  <1> USE DEF history, counts
  <1>1. /\ pc' = "down" /\ result' = how /\ dic' = NULL /\ at' = 0 /\ left' = 0
        /\ UNCHANGED <<file, todo, build, saved, lost, threw, defs>>
    BY DEF Stops
  <1>2. /\ Recoverable' /\ Saving' /\ (saved # NULL => saved \in Saves /\ Grown(saved.dic)')
        /\ (~threw /\ saved # NULL => saved.dic.code[1] = 0)
    BY <1>1, LoadKeeps
  <1>3. Types'
    <2>1. 0 \in Unit /\ 0 \in Nat
      BY Numbers
    <2> QED BY <1>1, <2>1 DEF IInv, Types
  <1>4. InMemory' /\ Reading' /\ Initialized' /\ Refused'
    BY <1>1, <1>2 DEF InMemory, Working, Reading, Initialized, Refused
  <1>5. LoadsWhatWasSaved'
    BY <1>1 DEF LoadsWhatWasSaved, loadsOnlySaved
  <1> QED BY <1>2, <1>3, <1>4, <1>5 DEF IInv

LEMMA FailsStep ==
  ASSUME IInv, StartFails \/ AutoInitThrows
  PROVE  IInv'
  <1>1. pc \in {"header", "chunks", "boot"} /\ Stops("failed")
    BY DEF StartFails, AutoInitThrows
  <1>2. savedLoads'
    BY <1>1 DEF Stops, savedLoads
  <1> QED BY <1>1, <1>2, StopsStep

LEMMA StartStep ==
  ASSUME IInv, NEW b \in Builds, Start(b)
  PROVE  IInv'
  <1> USE DEF history
  <1>1. /\ pc = "down" /\ pc' = "header" /\ build' = b /\ result' = "started"
        /\ UNCHANGED <<file, todo, dic, at, left, saved, lost, threw, defs>>
    BY DEF Start
  <1>2. /\ Recoverable' /\ Saving' /\ (saved # NULL => saved \in Saves /\ Grown(saved.dic)')
        /\ (~threw /\ saved # NULL => saved.dic.code[1] = 0)
    BY <1>1, LoadKeeps
  <1>3. Types'
    BY <1>1 DEF IInv, Types
  <1>4. InMemory'
    BY <1>1, <1>2 DEF IInv, InMemory, Working
  <1>5. Reading' /\ Initialized' /\ Refused'
    BY <1>1, <1>2 DEF Reading, Initialized, Refused
  <1>6. LoadsWhatWasSaved'
    BY <1>1 DEF LoadsWhatWasSaved, loadsOnlySaved, savedLoads
  <1> QED BY <1>2, <1>3, <1>4, <1>5, <1>6 DEF IInv

LEMMA AutoInitStep ==
  ASSUME IInv, AutoInit
  PROVE  IInv'
  <1> USE DEF history, counts
  <1>1. /\ pc = "boot" /\ pc' = "idle" /\ result' = "loaded" /\ dic' = pfExecIfDefined(dic, 1)
        /\ UNCHANGED <<file, todo, build, at, left, saved, lost, threw, defs>>
    BY DEF AutoInit
  <1>2. /\ Recoverable' /\ Saving' /\ (saved # NULL => saved \in Saves /\ Grown(saved.dic)')
        /\ (~threw /\ saved # NULL => saved.dic.code[1] = 0)
    BY <1>1, LoadKeeps
  <1>3. dic \in Dictionaries /\ Fits(dic) /\ Grown(dic)
    BY <1>1 DEF IInv, InMemory, Working
  <1>4. /\ dic' \in Dictionaries /\ Fits(dic') /\ Grown(dic') /\ dic'.nameSize = dic.nameSize
        /\ dic'.code[1] = IF HasNames(dic) THEN (dic.code[1] + 1) % Wrap ELSE dic.code[1]
    <2>1. 1 \in {-1, 1}
      OBVIOUS
    <2> QED BY <1>1, <1>3, <2>1, Executed
  <1>5. InMemory'
    <2>1. Fits(dic)' /\ Grown(dic)'
      BY <1>1, <1>4 DEF Fits, Grown
    <2> QED BY <1>1, <1>2, <1>4, <2>1 DEF InMemory, Working
  <1>6. Initialized'
    <2> SUFFICES ASSUME ~threw PROVE dic'.code[1] = IF dic'.nameSize > 0 THEN 1 ELSE 0
      BY <1>1, <1>2 DEF Initialized, HasNames
    <2>1. dic.code[1] = 0
      BY <1>1 DEF IInv, Initialized
    <2>2. (0 + 1) % Wrap = 1
      <3>1. 1 \in Unit /\ 0 + 1 = 1
        BY Numbers
      <3> QED BY <3>1, Modulo
    <2> QED BY <1>4, <2>1, <2>2 DEF HasNames
  <1>7. Types' /\ Reading' /\ Refused'
    BY <1>1 DEF IInv, Types, Reading, Refused
  <1>8. LoadsWhatWasSaved'
    BY <1>1 DEF LoadsWhatWasSaved, loadsOnlySaved, savedLoads
  <1> QED BY <1>2, <1>5, <1>6, <1>7, <1>8 DEF IInv

\* What is in a file that may be left.
Like(d, w) == Broken(d, w) \/ Finished(d, w)

LEMMA Lengths ==
  ASSUME Types, NEW s \in Saves, Grown(s.dic), NEW w \in Forms(s)
  PROVE  LET k == CodeAt(s, w[10])
             n == Len(s.dic.names)
             c == Len(s.dic.code) IN
         /\ k \in Nat /\ k >= 15 /\ n \in Nat /\ c \in Nat /\ c >= 1
         /\ Len(w) = k + 2 + c /\ Len(w) \in Nat /\ Len(w) < Filler
         /\ k = (IF w[10] = 0 THEN 15 ELSE 17 + n)
         /\ w \in Seq(Unit) /\ w[2] = 0
  <1> DEFINE k == CodeAt(s, w[10])
             n == Len(s.dic.names)
             c == Len(s.dic.code)
  <1>1. Layout(w, s) /\ Len(w) < Filler
    BY FormLayout
  <1>2. Len(w) = k + 2 + c /\ w \in Seq(Unit) /\ w[2] = 0
    BY <1>1 DEF Layout
  <1>3. n \in Nat /\ c \in Nat /\ c >= 1
    <2>1. n \in Size /\ c \in Size /\ c >= 1
      BY Small
    <2> QED BY <2>1, Numbers
  <1>4. k = IF w[10] = 0 THEN 15 ELSE 17 + n
    BY DEF CodeAt
  <1> HIDE DEF k, n, c
  <1>5. k \in Nat /\ k >= 15 /\ Len(w) \in Nat
    BY <1>2, <1>3, <1>4
  <1> QED BY <1>1, <1>2, <1>3, <1>4, <1>5 DEF k, n, c

\* BytesLeft as the chunks are taken off it.
LEMMA LeftAfter ==
  ASSUME NEW w \in Seq(Unit), 18 <= Len(w), Len(w) < Filler,
         NEW d \in Seq(Unit), Len(d) >= 3, Like(d, w)
  PROVE  /\ Less(d[2], 1) = BytesLeft(d, w, 3)
         /\ \A m \in Nat, x \in Nat :
              m >= 3 /\ m + x <= Len(w) =>
                /\ BytesLeft(d, w, m) \in Unit
                /\ Less(BytesLeft(d, w, m), x) = BytesLeft(d, w, m + x)
  <1> DEFINE L == Len(w)
             v == d[2]
             F == Finished(d, w)
             B(m) == BytesLeft(d, w, m)
  <1>1. L \in Nat /\ L >= 18 /\ L < Filler /\ Filler \in Nat /\ Wrap = Filler + 7 /\ BADF = Filler + 1
    BY Numbers DEF BADF
  <1>2. (F => v = L - 2) /\ (~F => v \in {0, BADF})
    BY DEF Like, Broken, Finished
  <1>3. \A m \in Nat : B(m) = IF F THEN L - m ELSE IF v = 0 THEN Wrap + 2 - m ELSE Wrap - 4 - m
    BY DEF BytesLeft
  <1> HIDE DEF L, v, F, B
  <1>4. \A x \in Int : /\ 0 <= x /\ x < Wrap => x % Wrap = x /\ x \in Unit
                       /\ x < 0 /\ x + Wrap >= 0 => x % Wrap = x + Wrap
    <2> TAKE x \in Int
    <2>1. 0 <= x /\ x < Wrap => x \in Unit
      BY <1>1 DEF Unit
    <2> QED BY <2>1, Modulo
  <1>5. (v - 1) % Wrap = B(3)
    <2>1. CASE F
      <3>1. v - 1 = L - 3 /\ B(3) = L - 3
        BY <1>1, <1>2, <1>3, <2>1
      <3>2. L - 3 \in Int /\ 0 <= L - 3 /\ L - 3 < Wrap
        BY <1>1
      <3> QED BY <1>4, <3>1, <3>2
    <2>2. CASE ~F /\ v = 0
      <3>1. B(3) = Wrap - 1 /\ v - 1 = -1
        BY <1>1, <1>3, <2>2
      <3>2. (-1) \in Int /\ (-1) < 0 /\ (-1) + Wrap >= 0 /\ (-1) + Wrap = Wrap - 1
        BY <1>1
      <3> QED BY <1>4, <3>1, <3>2
    <2>3. CASE ~F /\ v = BADF
      <3>0. v # 0
        BY <1>1, <2>3
      <3>1. B(3) = Filler /\ v - 1 = Filler
        BY <1>1, <1>3, <2>3, <3>0
      <3>2. Filler \in Int /\ 0 <= Filler /\ Filler < Wrap
        BY <1>1
      <3> QED BY <1>4, <3>1, <3>2
    <2> QED BY <1>2, <2>1, <2>2, <2>3
  <1>6. \A m \in Nat, x \in Nat :
          m >= 3 /\ m + x <= L => B(m) \in Unit /\ (B(m) - x) % Wrap = B(m + x)
    <2> SUFFICES ASSUME NEW m \in Nat, NEW x \in Nat, m >= 3, m + x <= L
                 PROVE  B(m) \in Unit /\ (B(m) - x) % Wrap = B(m + x)
      OBVIOUS
    <2>1. /\ B(m) \in Int /\ 0 <= B(m) /\ B(m) < Wrap
          /\ B(m) - x = B(m + x) /\ B(m + x) \in Int /\ 0 <= B(m + x) /\ B(m + x) < Wrap
      <3>1. m + x \in Nat
        OBVIOUS
      <3>2. B(m) = IF F THEN L - m ELSE IF v = 0 THEN Wrap + 2 - m ELSE Wrap - 4 - m
        BY <1>3
      <3>3. B(m + x) = IF F THEN L - (m + x)
                       ELSE IF v = 0 THEN Wrap + 2 - (m + x) ELSE Wrap - 4 - (m + x)
        BY <1>3, <3>1
      <3> QED BY <1>1, <3>2, <3>3
    <2> QED BY <1>4, <2>1
  <1> QED BY <1>5, <1>6 DEF B, L, Less, v

\* The ID and the size of a chunk are those of the form.
LEMMA ChunkLike ==
  ASSUME NEW w \in Seq(Unit), Len(w) < Filler, NEW d \in Seq(Unit), Like(d, w),
         NEW p \in Nat, p >= 3, p + 2 <= Len(d)
  PROVE  /\ p < Len(w)
         /\ d[p + 1] = w[p + 1]
         /\ p + 2 <= Len(w) /\ d[p + 2] \in Nat /\ p + 2 + d[p + 2] <= Len(d)
              /\ p + 2 + w[p + 2] <= Len(w) =>
              /\ d[p + 2] = w[p + 2]
              /\ \A i \in 1 .. d[p + 2] : d[p + 2 + i] = w[p + 2 + i] \/ (d[p + 2 + i] = BADF /\ i = d[p + 2])
  <1> DEFINE ld == Len(d)
             lw == Len(w)
             u == d[p + 2]
  <1>1. ld \in Nat /\ lw \in Nat /\ p + 2 <= ld /\ lw < Filler /\ Filler \in Nat /\ BADF = Filler + 1
    BY Numbers DEF BADF
  <1>2. /\ ld <= lw + 1
        /\ \A i \in 3 .. ld - 1 : d[i] = w[i]
        /\ ld \in 3 .. lw => d[ld] \in {w[ld], BADF}
    <2>1. CASE Broken(d, w)
      BY <2>1 DEF Broken
    <2>2. CASE Finished(d, w)
      <3>1. ld = lw /\ \A i \in 1 .. lw : i # 2 => d[i] = w[i]
        BY <2>2 DEF Finished
      <3> HIDE DEF ld, lw
      <3> QED BY <1>1, <3>1
    <2> QED BY <2>1, <2>2 DEF Like
  <1> HIDE DEF ld, lw, u
  <1>3. p < lw /\ d[p + 1] = w[p + 1]
    BY <1>1, <1>2
  <1>4. ASSUME p + 2 <= lw, u \in Nat, p + 2 + u <= ld, p + 2 + w[p + 2] <= lw
        PROVE  /\ u = w[p + 2]
               /\ \A i \in 1 .. u : d[p + 2 + i] = w[p + 2 + i] \/ (d[p + 2 + i] = BADF /\ i = u)
    <2>1. CASE p + 2 = ld
      <3>1. u = 0
        BY <1>1, <1>4, <2>1
      <3>2. u \in {w[p + 2], BADF}
        BY <1>1, <1>2, <1>4, <2>1 DEF u
      <3> QED BY <1>1, <3>1, <3>2
    <2>2. CASE p + 2 < ld
      <3>1. u = w[p + 2]
        BY <1>1, <1>2, <2>2 DEF u
      <3>2. ASSUME NEW i \in 1 .. u
            PROVE  d[p + 2 + i] = w[p + 2 + i] \/ (d[p + 2 + i] = BADF /\ i = u)
        <4>1. CASE p + 2 + i < ld
          BY <1>1, <1>2, <4>1
        <4>2. CASE p + 2 + i = ld
          <5>1. i = u
            BY <1>1, <1>4, <4>2
          <5>2. ld \in 3 .. lw => d[ld] \in {w[ld], BADF}
            BY <1>2
          <5>3. ld <= lw
            BY <1>1, <1>4, <3>1, <4>2, <5>1
          <5> QED BY <1>1, <4>2, <5>1, <5>2, <5>3
        <4> QED BY <1>1, <1>4, <4>1, <4>2
      <3> QED BY <3>1, <3>2
    <2> QED BY <1>1, <2>1, <2>2
  <1> QED BY <1>3, <1>4 DEF ld, lw, u

LEMMA LoadHeaderStep ==
  ASSUME IInv, LoadHeader
  PROVE  IInv'
  <1> USE DEF history, counts
  <1>1. /\ pc = "header" /\ HeaderOK /\ pc' = "chunks" /\ at' = 3 /\ left' = Less(disk[2], 1)
        /\ UNCHANGED <<file, todo, build, dic, result, saved, lost, threw, defs>>
    BY DEF LoadHeader
  <1>2. /\ Recoverable' /\ Saving' /\ (saved # NULL => saved \in Saves /\ Grown(saved.dic)')
        /\ (~threw /\ saved # NULL => saved.dic.code[1] = 0)
    BY <1>1, LoadKeeps
  <1>3. /\ disk \in Seq(Unit) /\ MayBeLeft(disk) /\ Len(disk) >= 3 /\ disk' = disk
        /\ saved # NULL /\ saved.whole /\ ~lost => \E w \in Forms(saved) : Finished(disk, w)
    BY <1>1, FileRead DEF HeaderOK, disk
  <1>4. left' \in Unit
    <2>1. disk[2] \in Nat
      <3>1. disk[2] \in Unit
        BY <1>3
      <3> QED BY <3>1, Numbers
    <2> QED BY <1>1, <2>1, Modulo DEF Less
  <1>5. Types'
    BY <1>1, <1>4 DEF IInv, Types
  <1>6. dic = NULL
    BY <1>1 DEF IInv, InMemory
  <1>7. Reading'
    <2>1. CASE saved = NULL
      BY <1>1, <1>6, <2>1 DEF Reading
    <2>2. CASE saved # NULL
      <3>1. saved \in Saves /\ Grown(saved.dic) /\ Types
        BY <2>2 DEF IInv, InMemory
      <3>2. PICK w \in Forms(saved) :
              /\ Broken(disk, w) \/ (saved.whole /\ Finished(disk, w))
              /\ saved.whole /\ ~lost => Finished(disk, w)
        <4>1. CASE saved.whole /\ ~lost
          BY <1>3, <2>2, <4>1
        <4>2. CASE ~(saved.whole /\ ~lost)
          BY <1>3, <2>2, <4>2 DEF MayBeLeft
        <4> QED BY <4>1, <4>2
      <3>3. /\ w \in Seq(Unit) /\ 18 <= Len(w) /\ Len(w) < Filler
        <4> DEFINE k == CodeAt(saved, w[10])
                   c == Len(saved.dic.code)
        <4>1. /\ w \in Seq(Unit) /\ Len(w) < Filler /\ k \in Nat /\ k >= 15 /\ c \in Nat /\ c >= 1
              /\ Len(w) = k + 2 + c
          BY <3>1, Lengths
        <4> HIDE DEF k, c
        <4> QED BY <4>1
      <3>4. left' = BytesLeft(disk, w, 3)
        <4>1. Like(disk, w)
          BY <3>2 DEF Like
        <4> QED BY <1>1, <1>3, <3>3, <4>1, LeftAfter
      <3>5. Read(w)'
        BY <1>1, <1>3, <1>6, <3>2, <3>4 DEF Read
      <3> QED BY <1>1, <2>2, <3>2, <3>5 DEF Reading
    <2> QED BY <2>1, <2>2
  <1>8. InMemory'
    BY <1>1, <1>2 DEF InMemory, Working
  <1>9. Initialized' /\ Refused' /\ LoadsWhatWasSaved'
    <2>1. LoadsWhatWasSaved' /\ Refused'
      BY <1>1, StepOutside DEF IInv
    <2> QED BY <1>1, <1>2, <2>1 DEF Initialized
  <1> QED BY <1>2, <1>5, <1>7, <1>8, <1>9 DEF IInv

\* Where a program is that reads the chunks of a save.
LEMMA ReadOf ==
  ASSUME IInv, pc = "chunks", saved # NULL
  PROVE  /\ saved \in Saves /\ Grown(saved.dic) /\ Types
         /\ disk \in Seq(Unit) /\ Len(disk) >= at /\ at \in Nat
         /\ \E w \in Forms(saved) : Read(w) /\ Like(disk, w)
  <1>1. saved \in Saves /\ Grown(saved.dic) /\ Types
    BY DEF IInv, InMemory
  <1>2. disk \in Seq(Unit)
    BY FileRead
  <1>3. PICK w \in Forms(saved) : Read(w)
    BY DEF IInv, Reading
  <1>4. at <= Len(disk) /\ Like(disk, w) /\ at \in Nat
    BY <1>1, <1>3 DEF Read, Like, Types
  <1> QED BY <1>1, <1>2, <1>3, <1>4

\* The chunk that comes next in a file that a save left.
LEMMA NextChunk ==
  ASSUME IInv, pc = "chunks", saved # NULL, NEW w \in Forms(saved), Read(w), Like(disk, w),
         at + 2 <= Len(disk)
  PROVE  \/ at = 3 /\ ChunkID = P4DI /\ w[5] = 10
         \/ /\ at = 15 /\ ChunkID = P4NM /\ w[10] # 0 /\ w[17] = Len(saved.dic.names)
            /\ CodeAt(saved, w[10]) = 17 + Len(saved.dic.names)
         \/ /\ at = CodeAt(saved, w[10]) /\ ChunkID = P4CD
            /\ w[at + 2] = Len(saved.dic.code)
  <1> DEFINE k == CodeAt(saved, w[10])
             n == Len(saved.dic.names)
             c == Len(saved.dic.code)
             ld == Len(disk)
             lw == Len(w)
  <1>1. /\ saved \in Saves /\ Grown(saved.dic) /\ Types /\ disk \in Seq(Unit) /\ at \in Nat
    BY ReadOf
  <1>2. /\ k \in Nat /\ k >= 15 /\ n \in Nat /\ c \in Nat /\ c >= 1
        /\ lw = k + 2 + c /\ lw \in Nat /\ lw < Filler /\ w \in Seq(Unit)
        /\ k = (IF w[10] = 0 THEN 15 ELSE 17 + n)
    BY <1>1, Lengths
  <1>3. at \in {3, 15, k, lw} /\ at + 2 <= ld
    BY DEF Read
  <1>4. at < lw /\ disk[at + 1] = w[at + 1]
    <2>1. at >= 3
      <3> HIDE DEF k, n, c, ld, lw
      <3> QED BY <1>2, <1>3
    <2> QED BY <1>1, <1>2, <2>1, ChunkLike
  <1>5. Layout(w, saved)
    BY <1>1, FormLayout
  <1>6. /\ w[4] = P4DI /\ w[5] = 10
        /\ w[10] # 0 => w[16] = P4NM /\ w[17] = n
        /\ w[k + 1] = P4CD /\ w[k + 2] = c
    BY <1>5 DEF Layout
  <1> HIDE DEF k, n, c, ld, lw
  <1>7. CASE at = 3
    BY <1>4, <1>6, <1>7 DEF ChunkID
  <1>8. CASE at = k
    BY <1>4, <1>6, <1>8 DEF ChunkID, k, c
  <1>9. CASE at = 15 /\ at # k
    <2>1. w[10] # 0 /\ k = 17 + n
      BY <1>2, <1>9
    <2>2. ChunkID = P4NM /\ w[17] = n
      BY <1>4, <1>6, <1>9, <2>1 DEF ChunkID
    <2> QED BY <1>9, <2>1, <2>2 DEF k, n
  <1> QED BY <1>3, <1>4, <1>7, <1>8, <1>9

\* Where the chunks of a dictionary are not: a file that is none.
LEMMA NoDictionary ==
  ASSUME IInv, pc = "chunks", saved = NULL
  PROVE  ~IsChunk(P4DI) /\ dic = NULL
  <1>1. P4DI \notin Range(disk) /\ disk \in Seq(Unit)
    BY FileRead DEF MayBeLeft
  <1>2. at \in Nat
    BY DEF IInv, Types
  <1>3. dic = NULL
    BY DEF IInv, Reading
  <1>4. at + 2 <= Len(disk) => disk[at + 1] \in Range(disk)
    <2>1. at + 2 <= Len(disk) => at + 1 \in DOMAIN disk
      BY <1>1, <1>2
    <2> QED BY <2>1 DEF Range
  <1> QED BY <1>1, <1>3, <1>4 DEF IsChunk, ChunkID

LEMMA LoadInfoStep ==
  ASSUME IInv, LoadInfo
  PROVE  IInv'
  <1> USE DEF history, counts
  <1> DEFINE sd == convertDictionaryInfoRead(Data)
  <1>1. /\ pc = "chunks" /\ pc' = "chunks" /\ IsChunk(P4DI) /\ Whole /\ Compatible(sd, build)
        /\ dic' = pfCreateDictionary(sd)
        /\ at' = at + 2 + ChunkSize /\ left' = Less(left, 2 + ChunkSize)
        /\ UNCHANGED <<file, todo, build, result, saved, lost, threw, defs>>
    BY DEF LoadInfo, InfoOK, ReadChunk
  <1> HIDE DEF sd
  <1>2. saved # NULL
    BY <1>1, NoDictionary
  <1>3. /\ Recoverable' /\ Saving' /\ (saved # NULL => saved \in Saves /\ Grown(saved.dic)')
        /\ (~threw /\ saved # NULL => saved.dic.code[1] = 0)
    BY <1>1, LoadKeeps
  <1>4. /\ saved \in Saves /\ Grown(saved.dic) /\ Types /\ disk \in Seq(Unit) /\ disk' = disk
        /\ at + 2 <= Len(disk) /\ ChunkID = P4DI
    BY <1>1, <1>2, ReadOf DEF IsChunk, disk
  <1>5. PICK w \in Forms(saved) : Read(w) /\ Like(disk, w)
    BY <1>1, <1>2, ReadOf
  <1>6. /\ Layout(w, saved) /\ Len(w) < Filler /\ w \in Seq(Unit)
    BY <1>4, FormLayout DEF Layout
  <1> DEFINE k == CodeAt(saved, w[10])
             n == Len(saved.dic.names)
             c == Len(saved.dic.code)
             lw == Len(w)
  <1>7. /\ k \in Nat /\ k >= 15 /\ n \in Nat /\ c \in Nat /\ c >= 1
        /\ lw = k + 2 + c /\ lw \in Nat /\ lw < Filler
        /\ k = (IF w[10] = 0 THEN 15 ELSE 17 + n)
    BY <1>4, Lengths
  <1>8. at = 3 /\ w[5] = 10
    <2>1. P4DI # P4NM /\ P4DI # P4CD
      BY Numbers DEF P4DI, P4NM, P4CD
    <2> QED BY <1>1, <1>2, <1>4, <1>5, <2>1, NextChunk
  <1> HIDE DEF k, n, c, lw
  <1>9. ChunkSize = 10 /\ 15 <= Len(disk) /\ \A i \in 1 .. 10 : disk[5 + i] = w[5 + i] \/ (disk[5 + i] = BADF /\ i = 10)
    <2>1. disk[5] \in Nat /\ 5 + disk[5] <= Len(disk) /\ ChunkSize = disk[5] /\ Len(disk) >= 5
      <3>1. ChunkSize = disk[5] /\ Len(disk) >= 5 /\ Len(disk) \in Nat
        BY <1>4, <1>8 DEF ChunkSize
      <3>2. disk[5] \in Unit
        BY <1>4, <3>1
      <3>3. 5 + disk[5] <= Len(disk)
        BY <1>1, <1>8, <3>1 DEF Whole
      <3> QED BY <3>1, <3>2, <3>3, Numbers
    <2>2. 3 \in Nat /\ 3 >= 3 /\ 3 + 2 <= Len(disk) /\ 3 + 2 = 5
      BY <2>1
    <2>3. 3 + 2 <= Len(w) /\ 3 + 2 + w[3 + 2] <= Len(w)
      BY <1>7, <1>8 DEF lw
    <2>4. /\ disk[3 + 2] = w[3 + 2]
          /\ \A i \in 1 .. disk[3 + 2] : disk[3 + 2 + i] = w[3 + 2 + i]
                                          \/ (disk[3 + 2 + i] = BADF /\ i = disk[3 + 2])
      BY <1>4, <1>5, <1>6, <2>1, <2>2, <2>3, ChunkLike
    <2>5. disk[5] = 10 /\ disk[3 + 2] = 10
      BY <1>8, <2>4
    <2>6. 15 <= Len(disk)
      BY <2>1, <2>5
    <2>7. ASSUME NEW i \in 1 .. 10
          PROVE  disk[5 + i] = w[5 + i] \/ (disk[5 + i] = BADF /\ i = 10)
      <3>1. 3 + 2 + i = 5 + i /\ i \in 1 .. disk[3 + 2]
        BY <2>5
      <3> QED BY <2>4, <2>5, <3>1
    <2> QED BY <2>1, <2>5, <2>6, <2>7
  <1>10. /\ Data \in Seq(Unit) /\ Len(Data) = 10 /\ \A i \in 1 .. 10 : Data[i] = disk[5 + i]
    <2>1. Data = SubSeq(disk, 6, 15)
      BY <1>8, <1>9 DEF Data
    <2> DEFINE ld == Len(disk)
    <2>2. ld \in Nat /\ ld >= 15 /\ \A i \in 6 .. 15 : i \in 1 .. ld
      BY <1>4, <1>9
    <2>3. \A i \in 6 .. 15 : disk[i] \in Unit
      BY <1>4, <2>2
    <2>4. /\ SubSeq(disk, 6, 15) \in Seq(Unit)
          /\ Len(SubSeq(disk, 6, 15)) = (IF 6 <= 15 THEN 15 - 6 + 1 ELSE 0)
          /\ \A i \in 1 .. 15 - 6 + 1 : SubSeq(disk, 6, 15)[i] = disk[6 + i - 1]
      BY <2>3, SubSeqProperties
    <2>5. \A i \in 1 .. 10 : i \in 1 .. 15 - 6 + 1 /\ 6 + i - 1 = 5 + i
      OBVIOUS
    <2> QED BY <2>1, <2>4, <2>5
  <1>11. /\ sd.version = Data[1] /\ sd.headerPtr = Data[2] /\ sd.codePtr = Data[3]
         /\ sd.entry = Data[4] /\ sd.nameSize = Data[5] /\ sd.codeSize = Data[6]
         /\ sd.prims = Data[7] /\ sd.big = Data[8] /\ sd.float = Data[9] /\ sd.cell = Data[10]
    BY <1>10, InfoFound DEF sd
  <1>12. /\ Data[1] = w[6] /\ Data[2] = w[7] /\ Data[3] = w[8] /\ Data[4] = w[9] /\ Data[5] = w[10]
         /\ Data[6] = w[11] /\ Data[7] = w[12] /\ Data[8] = w[13] /\ Data[9] = w[14]
         /\ Data[10] \in {w[15], BADF}
    <2>1. \A i \in 1 .. 10 : Data[i] = w[5 + i] \/ (Data[i] = BADF /\ i = 10)
      BY <1>9, <1>10
    <2> QED BY <2>1
  <1>13. build.cell \in Size /\ BADF \notin Size
    <2>1. build \in [version : Size, cell : Size, big : {0, 1}, float : Size, prims : Size]
      BY <1>4, DictFileAssumption DEF Types
    <2> QED BY <2>1, Numbers
  <1>14. Data[10] = w[15]
    BY <1>1, <1>11, <1>12, <1>13 DEF Compatible
  <1>15. /\ sd.version = saved.build.version /\ sd.headerPtr = n /\ sd.codePtr = c
         /\ sd.entry = saved.dic.entry /\ sd.nameSize = w[10] /\ sd.codeSize = w[11]
         /\ sd.prims = saved.dic.prims /\ sd.big = saved.build.big /\ sd.float = saved.build.float
         /\ sd.cell = saved.build.cell
    BY <1>6, <1>11, <1>12, <1>14 DEF Layout, n, c
  <1>16. Compatible(savedBy, build)
    <2>1. /\ savedBy.version = saved.build.version /\ savedBy.cell = saved.build.cell
          /\ savedBy.big = saved.build.big /\ savedBy.float = saved.build.float
          /\ savedBy.prims = saved.dic.prims
      <3>1. saved.build \in [version : Size, cell : Size, big : {0, 1}, float : Size, prims : Size]
        BY <1>4, DictFileAssumption DEF Saves
      <3> QED BY <3>1 DEF savedBy
    <2> QED BY <1>1, <1>15, <2>1 DEF Compatible
  <1>17. /\ dic' \in [names : Seq(Unit), code : Seq(Unit), nameSize : {w[10]}, codeSize : {w[11]},
                      prims : {saved.dic.prims}, entry : {saved.dic.entry}]
         /\ Len(dic'.names) = n /\ Len(dic'.code) = c /\ dic' # NULL
    <2> DEFINE a == [i \in 1 .. n |-> Filler]
               b == [i \in 1 .. c |-> Filler]
    <2>1. a \in Seq(Unit) /\ Len(a) = n /\ b \in Seq(Unit) /\ Len(b) = c
      BY <1>7, Numbers
    <2>2. dic' = [names |-> a, code |-> b, nameSize |-> w[10], codeSize |-> w[11],
                  prims |-> saved.dic.prims, entry |-> saved.dic.entry]
      BY <1>1, <1>15 DEF pfCreateDictionary
    <2> HIDE DEF a, b
    <2> QED BY <2>1, <2>2 DEF NULL
  <1>18. at' = 15 /\ left' = BytesLeft(disk, w, 15) /\ left' \in Unit
    <2>1. left = BytesLeft(disk, w, 3)
      BY <1>5, <1>8 DEF Read
    <2>2. 18 <= Len(w) /\ Len(disk) >= 3
      BY <1>4, <1>7, <1>9 DEF lw
    <2>3. /\ Less(BytesLeft(disk, w, 3), 12) = BytesLeft(disk, w, 15)
      <3>1. /\ 3 \in Nat /\ 12 \in Nat /\ 3 >= 3 /\ 3 + 12 <= Len(w) /\ 3 + 12 = 15
        BY <2>2
      <3>2. Less(BytesLeft(disk, w, 3), 12) = BytesLeft(disk, w, 3 + 12)
        BY <1>4, <1>5, <1>6, <2>2, <3>1, LeftAfter
      <3> QED BY <3>1, <3>2
    <2>4. BytesLeft(disk, w, 15) \in Unit
      <3>1. 15 \in Nat /\ 0 \in Nat /\ 15 >= 3 /\ 15 + 0 <= Len(w)
        BY <2>2
      <3> QED BY <1>4, <1>5, <1>6, <2>2, <3>1, LeftAfter
    <2>5. at' = 15 /\ left' = Less(left, 12)
      BY <1>1, <1>8, <1>9
    <2> QED BY <2>1, <2>3, <2>4, <2>5
  <1>19. Read(w)'
    <2>1. k = 15 => dic'.names = saved.dic.names
      <3> SUFFICES ASSUME k = 15 PROVE dic'.names = saved.dic.names
        OBVIOUS
      <3>1. w[10] = 0
        BY <1>7
      <3>2. n = 0
        BY <1>6, <1>7, <3>1 DEF Layout, Sized, n
      <3>3. saved.dic.names \in Seq(Unit) /\ dic'.names \in Seq(Unit)
        BY <1>4, <1>17, Small
      <3> QED BY <1>17, <3>2, <3>3, EmptySeq DEF n
    <2>2. 15 # lw /\ (15 >= k => k = 15)
      BY <1>7
    <2>3. /\ disk' = disk /\ saved' = saved /\ lost' = lost /\ build' = build /\ savedBy' = savedBy
      BY <1>1, <1>4 DEF savedBy
    <2>4. /\ Broken(disk, w) \/ (saved.whole /\ Finished(disk, w))
          /\ saved.whole /\ ~lost => Finished(disk, w)
      BY <1>5 DEF Read
    <2> QED BY <1>9, <1>16, <1>17, <1>18, <2>1, <2>2, <2>3, <2>4 DEF Read, k, n, c, lw
  <1>20. Types' /\ InMemory'
    <2>1. Types'
      BY <1>1, <1>18 DEF IInv, Types
    <2> QED BY <1>1, <1>3, <2>1 DEF InMemory, Working
  <1>21. Reading'
    BY <1>1, <1>2, <1>5, <1>19 DEF Reading
  <1>22. Initialized' /\ Refused' /\ LoadsWhatWasSaved'
    <2>1. LoadsWhatWasSaved' /\ Refused'
      BY <1>1, StepOutside DEF IInv
    <2> QED BY <1>1, <1>3, <2>1 DEF Initialized
  <1> QED BY <1>3, <1>20, <1>21, <1>22 DEF IInv

\* A chunk as large as the memory in use replaces it all.
LEMMA FilledAll ==
  ASSUME NEW memory \in Seq(Unit), NEW data \in Seq(Unit), Len(data) = Len(memory)
  PROVE  /\ Filled(memory, data) \in Seq(Unit) /\ Len(Filled(memory, data)) = Len(memory)
         /\ \A i \in 1 .. Len(memory) : Filled(memory, data)[i] = data[i]
  <1> DEFINE n == Len(memory)
             f == [i \in 1 .. n |-> data[i]]
  <1>1. n \in Nat /\ Len(data) = n /\ \A i \in 1 .. n : data[i] \in Unit
    OBVIOUS
  <1>2. Filled(memory, data) = f
    BY <1>1 DEF Filled
  <1> HIDE DEF n
  <1>3. f \in Seq(Unit) /\ Len(f) = n /\ \A i \in 1 .. n : f[i] = data[i]
    BY <1>1
  <1> QED BY <1>2, <1>3 DEF n

LEMMA LoadNamesStep ==
  ASSUME IInv, LoadNames
  PROVE  IInv'
  <1> USE DEF history, counts
  <1>1. /\ pc = "chunks" /\ pc' = "chunks" /\ IsChunk(P4NM) /\ Whole /\ dic # NULL
        /\ dic' = [dic EXCEPT !.names = Filled(@, Data)]
        /\ at' = at + 2 + ChunkSize /\ left' = Less(left, 2 + ChunkSize)
        /\ UNCHANGED <<file, todo, build, result, saved, lost, threw, defs>>
    BY DEF LoadNames, NamesOK, ReadChunk
  <1>2. saved # NULL
    BY <1>1, NoDictionary
  <1>3. /\ Recoverable' /\ Saving' /\ (saved # NULL => saved \in Saves /\ Grown(saved.dic)')
        /\ (~threw /\ saved # NULL => saved.dic.code[1] = 0)
    BY <1>1, LoadKeeps
  <1>4. /\ saved \in Saves /\ Grown(saved.dic) /\ Types /\ disk \in Seq(Unit) /\ disk' = disk
        /\ at + 2 <= Len(disk) /\ ChunkID = P4NM
    BY <1>1, <1>2, ReadOf DEF IsChunk, disk
  <1>5. PICK w \in Forms(saved) : Read(w) /\ Like(disk, w)
    BY <1>1, <1>2, ReadOf
  <1>6. /\ Layout(w, saved) /\ Len(w) < Filler /\ w \in Seq(Unit)
    BY <1>4, FormLayout DEF Layout
  <1> DEFINE k == CodeAt(saved, w[10])
             n == Len(saved.dic.names)
             c == Len(saved.dic.code)
             lw == Len(w)
             old == dic.names
  <1>7. /\ k \in Nat /\ k >= 15 /\ n \in Nat /\ c \in Nat /\ c >= 1
        /\ lw = k + 2 + c /\ lw \in Nat /\ lw < Filler
    BY <1>4, Lengths
  <1>8. at = 15 /\ w[10] # 0 /\ w[17] = n /\ k = 17 + n
    <2>1. P4NM # P4DI /\ P4NM # P4CD
      BY Numbers DEF P4DI, P4NM, P4CD
    <2> QED BY <1>1, <1>2, <1>4, <1>5, <2>1, NextChunk
  <1>9. /\ Compatible(savedBy, build)
        /\ dic \in [names : Seq(Unit), code : Seq(Unit), nameSize : {w[10]}, codeSize : {w[11]},
                    prims : {saved.dic.prims}, entry : {saved.dic.entry}]
        /\ Len(old) = n /\ Len(dic.code) = c /\ old \in Seq(Unit)
        /\ left = BytesLeft(disk, w, 15)
        /\ Broken(disk, w) \/ (saved.whole /\ Finished(disk, w))
        /\ saved.whole /\ ~lost => Finished(disk, w)
    BY <1>5, <1>8 DEF Read
  <1> HIDE DEF k, n, c, lw, old
  <1>10. ChunkSize = n /\ 17 + n <= Len(disk)
    <2>1. disk[17] \in Nat /\ 17 + disk[17] <= Len(disk) /\ ChunkSize = disk[17] /\ Len(disk) >= 17
      <3>1. ChunkSize = disk[17] /\ Len(disk) >= 17 /\ Len(disk) \in Nat
        BY <1>4, <1>8 DEF ChunkSize
      <3>2. disk[17] \in Unit
        BY <1>4, <3>1
      <3>3. 17 + disk[17] <= Len(disk)
        BY <1>1, <1>8, <3>1 DEF Whole
      <3> QED BY <3>1, <3>2, <3>3, Numbers
    <2>2. 15 \in Nat /\ 15 >= 3 /\ 15 + 2 <= Len(disk) /\ 15 + 2 = 17
      BY <2>1
    <2>3. 15 + 2 <= Len(w) /\ 15 + 2 + w[15 + 2] <= Len(w)
      BY <1>7, <1>8, <2>2 DEF lw
    <2>4. disk[15 + 2] = w[15 + 2]
      BY <1>4, <1>5, <1>6, <2>1, <2>2, <2>3, ChunkLike
    <2> QED BY <1>8, <2>1, <2>2, <2>4
  <1> DEFINE new == Filled(old, Data)
  <1>11. Data \in Seq(Unit) /\ Len(Data) = n /\ \A i \in 1 .. n : Data[i] = disk[17 + i]
    <2>1. Data = SubSeq(disk, 18, 17 + n)
      BY <1>7, <1>8, <1>10 DEF Data
    <2>2. Len(disk) \in Nat /\ \A i \in 18 .. 17 + n : i \in 1 .. Len(disk)
      BY <1>4, <1>7, <1>10
    <2>3. \A i \in 18 .. 17 + n : disk[i] \in Unit
      BY <1>4, <2>2
    <2>4. 18 \in Int /\ 17 + n \in Int
      BY <1>7
    <2>5. /\ SubSeq(disk, 18, 17 + n) \in Seq(Unit)
          /\ Len(SubSeq(disk, 18, 17 + n)) = (IF 18 <= 17 + n THEN (17 + n) - 18 + 1 ELSE 0)
          /\ \A i \in 1 .. (17 + n) - 18 + 1 : SubSeq(disk, 18, 17 + n)[i] = disk[18 + i - 1]
      BY <2>3, <2>4, SubSeqProperties
    <2>6. (IF 18 <= 17 + n THEN (17 + n) - 18 + 1 ELSE 0) = n
      BY <1>7
    <2>7. \A i \in 1 .. n : i \in 1 .. (17 + n) - 18 + 1 /\ 18 + i - 1 = 17 + i
      BY <1>7
    <2> QED BY <2>1, <2>5, <2>6, <2>7
  <1>12. new \in Seq(Unit) /\ Len(new) = n /\ \A i \in 1 .. n : new[i] = Data[i]
    <2>1. Len(Data) = Len(old) /\ Data \in Seq(Unit) /\ old \in Seq(Unit)
      BY <1>9, <1>11
    <2>2. /\ Filled(old, Data) \in Seq(Unit) /\ Len(Filled(old, Data)) = Len(old)
          /\ \A i \in 1 .. Len(old) : Filled(old, Data)[i] = Data[i]
      BY <2>1, FilledAll
    <2> QED BY <1>9, <2>2
  <1> HIDE DEF new
  <1>13. /\ dic' \in [names : Seq(Unit), code : Seq(Unit), nameSize : {w[10]}, codeSize : {w[11]},
                      prims : {saved.dic.prims}, entry : {saved.dic.entry}]
         /\ dic'.names = new /\ dic'.code = dic.code
    <2>1. dic' = [dic EXCEPT !.names = new]
      BY <1>1 DEF new, old
    <2> QED BY <1>9, <1>12, <2>1
  <1>14. at' = k /\ left' = BytesLeft(disk, w, k) /\ left' \in Unit
    <2>1. at' = 17 + n /\ left' = Less(left, 2 + n)
      BY <1>1, <1>7, <1>8, <1>10
    <2>2. /\ 18 <= Len(w) /\ Len(disk) >= 3
          /\ 15 \in Nat /\ 2 + n \in Nat /\ 15 >= 3 /\ 15 + (2 + n) <= Len(w) /\ 15 + (2 + n) = k
          /\ k + 0 <= Len(w) /\ 0 \in Nat /\ k >= 3
      BY <1>4, <1>7, <1>8, <1>10 DEF lw
    <2>3. Less(BytesLeft(disk, w, 15), 2 + n) = BytesLeft(disk, w, 15 + (2 + n))
      BY <1>4, <1>5, <1>6, <2>2, LeftAfter
    <2>4. BytesLeft(disk, w, k) \in Unit
      BY <1>4, <1>5, <1>6, <1>7, <2>2, LeftAfter
    <2> QED BY <1>8, <1>9, <2>1, <2>2, <2>3, <2>4
  <1>15. Finished(disk, w) => new = saved.dic.names
    <2> SUFFICES ASSUME Finished(disk, w) PROVE new = saved.dic.names
      OBVIOUS
    <2>1. \A i \in 1 .. n : w[17 + i] = saved.dic.names[i]
      BY <1>6, <1>8 DEF Layout, n
    <2>2. \A i \in 1 .. n : disk[17 + i] = w[17 + i]
      <3>1. \A i \in 1 .. n : 17 + i \in 1 .. lw /\ 17 + i # 2
        BY <1>7, <1>8
      <3> QED BY <3>1 DEF Finished, lw
    <2>3. \A i \in 1 .. n : new[i] = saved.dic.names[i]
      BY <1>11, <1>12, <2>1, <2>2
    <2>4. saved.dic.names \in Seq(Unit)
      BY <1>4, Small
    <2> QED BY <1>12, <2>3, <2>4, SeqEqual DEF n
  <1>16. Read(w)'
    <2>1. k # lw /\ k # 3 /\ k <= Len(disk)
      BY <1>7, <1>8, <1>10
    <2>2. /\ disk' = disk /\ saved' = saved /\ lost' = lost /\ build' = build /\ savedBy' = savedBy
      BY <1>1, <1>4 DEF savedBy
    <2> QED BY <1>9, <1>12, <1>13, <1>14, <1>15, <2>1, <2>2 DEF Read, k, n, c, lw
  <1>17. Types' /\ InMemory'
    <2>1. Types'
      BY <1>1, <1>7, <1>14 DEF IInv, Types
    <2> QED BY <1>1, <1>3, <2>1 DEF InMemory, Working
  <1>18. Reading'
    BY <1>1, <1>2, <1>5, <1>16 DEF Reading
  <1>19. Initialized' /\ Refused' /\ LoadsWhatWasSaved'
    <2>1. LoadsWhatWasSaved' /\ Refused'
      BY <1>1, StepOutside DEF IInv
    <2> QED BY <1>1, <1>3, <2>1 DEF Initialized
  <1> QED BY <1>3, <1>17, <1>18, <1>19 DEF IInv

LEMMA LoadCodeStep ==
  ASSUME IInv, LoadCode
  PROVE  IInv'
  <1> USE DEF history, counts
  <1>1. /\ pc = "chunks" /\ pc' = "chunks" /\ IsChunk(P4CD) /\ Whole /\ dic # NULL
        /\ dic' = [dic EXCEPT !.code = Filled(@, Data)]
        /\ at' = at + 2 + ChunkSize /\ left' = Less(left, 2 + ChunkSize)
        /\ UNCHANGED <<file, todo, build, result, saved, lost, threw, defs>>
    BY DEF LoadCode, CodeOK, ReadChunk
  <1>2. saved # NULL
    BY <1>1, NoDictionary
  <1>3. /\ Recoverable' /\ Saving' /\ (saved # NULL => saved \in Saves /\ Grown(saved.dic)')
        /\ (~threw /\ saved # NULL => saved.dic.code[1] = 0)
    BY <1>1, LoadKeeps
  <1>4. /\ saved \in Saves /\ Grown(saved.dic) /\ Types /\ disk \in Seq(Unit) /\ disk' = disk
        /\ at + 2 <= Len(disk) /\ ChunkID = P4CD
    BY <1>1, <1>2, ReadOf DEF IsChunk, disk
  <1>5. PICK w \in Forms(saved) : Read(w) /\ Like(disk, w)
    BY <1>1, <1>2, ReadOf
  <1>6. /\ Layout(w, saved) /\ Len(w) < Filler /\ w \in Seq(Unit)
    BY <1>4, FormLayout DEF Layout
  <1> DEFINE k == CodeAt(saved, w[10])
             n == Len(saved.dic.names)
             c == Len(saved.dic.code)
             lw == Len(w)
             old == dic.code
  <1>7. /\ k \in Nat /\ k >= 15 /\ n \in Nat /\ c \in Nat /\ c >= 1
        /\ lw = k + 2 + c /\ lw \in Nat /\ lw < Filler
    BY <1>4, Lengths
  <1>8. at = k /\ w[k + 2] = c
    <2>1. P4CD # P4DI /\ P4CD # P4NM
      BY Numbers DEF P4DI, P4NM, P4CD
    <2> QED BY <1>1, <1>2, <1>4, <1>5, <2>1, NextChunk
  <1>9. /\ Compatible(savedBy, build)
        /\ dic \in [names : Seq(Unit), code : Seq(Unit), nameSize : {w[10]}, codeSize : {w[11]},
                    prims : {saved.dic.prims}, entry : {saved.dic.entry}]
        /\ Len(old) = c /\ Len(dic.names) = n /\ old \in Seq(Unit)
        /\ left = BytesLeft(disk, w, k)
        /\ Finished(disk, w) => dic.names = saved.dic.names
        /\ Broken(disk, w) \/ (saved.whole /\ Finished(disk, w))
        /\ saved.whole /\ ~lost => Finished(disk, w)
    <2>1. at # 3 /\ at >= CodeAt(saved, w[10])
      BY <1>7, <1>8
    <2> QED BY <1>5, <1>8, <2>1 DEF Read
  <1> HIDE DEF k, n, c, lw, old
  <1>10. ChunkSize = c /\ k + 2 + c <= Len(disk)
    <2>1. disk[k + 2] \in Nat /\ k + 2 + disk[k + 2] <= Len(disk) /\ ChunkSize = disk[k + 2]
          /\ Len(disk) >= k + 2
      <3>1. ChunkSize = disk[k + 2] /\ Len(disk) >= k + 2 /\ Len(disk) \in Nat
        BY <1>4, <1>8 DEF ChunkSize
      <3>2. disk[k + 2] \in Unit
        <4>1. k + 2 \in 1 .. Len(disk)
          BY <1>7, <3>1
        <4> QED BY <1>4, <4>1
      <3>3. k + 2 + disk[k + 2] <= Len(disk)
        BY <1>1, <1>8, <3>1 DEF Whole
      <3> QED BY <3>1, <3>2, <3>3, Numbers
    <2>2. k \in Nat /\ k >= 3 /\ k + 2 <= Len(disk)
      BY <1>7, <2>1
    <2>3. k + 2 <= Len(w) /\ k + 2 + w[k + 2] <= Len(w)
      BY <1>7, <1>8, <2>2 DEF lw
    <2>4. disk[k + 2] = w[k + 2]
      BY <1>4, <1>5, <1>6, <2>1, <2>2, <2>3, ChunkLike
    <2> QED BY <1>8, <2>1, <2>4
  <1> DEFINE new == Filled(old, Data)
  <1>11. Data \in Seq(Unit) /\ Len(Data) = c /\ \A i \in 1 .. c : Data[i] = disk[k + 2 + i]
    <2>1. Data = SubSeq(disk, k + 3, k + 2 + c)
      BY <1>7, <1>8, <1>10 DEF Data
    <2>2. Len(disk) \in Nat /\ \A i \in k + 3 .. k + 2 + c : i \in 1 .. Len(disk)
      BY <1>4, <1>7, <1>10
    <2>3. \A i \in k + 3 .. k + 2 + c : disk[i] \in Unit
      BY <1>4, <2>2
    <2>4. k + 3 \in Int /\ k + 2 + c \in Int
      BY <1>7
    <2>5. /\ SubSeq(disk, k + 3, k + 2 + c) \in Seq(Unit)
          /\ Len(SubSeq(disk, k + 3, k + 2 + c)) =
               (IF k + 3 <= k + 2 + c THEN (k + 2 + c) - (k + 3) + 1 ELSE 0)
          /\ \A i \in 1 .. (k + 2 + c) - (k + 3) + 1 :
               SubSeq(disk, k + 3, k + 2 + c)[i] = disk[(k + 3) + i - 1]
      BY <2>3, <2>4, SubSeqProperties
    <2>6. (IF k + 3 <= k + 2 + c THEN (k + 2 + c) - (k + 3) + 1 ELSE 0) = c
      BY <1>7
    <2>7. \A i \in 1 .. c : i \in 1 .. (k + 2 + c) - (k + 3) + 1 /\ (k + 3) + i - 1 = k + 2 + i
      BY <1>7
    <2> QED BY <2>1, <2>5, <2>6, <2>7
  <1>12. new \in Seq(Unit) /\ Len(new) = c /\ \A i \in 1 .. c : new[i] = Data[i]
    <2>1. Len(Data) = Len(old) /\ Data \in Seq(Unit) /\ old \in Seq(Unit)
      BY <1>9, <1>11
    <2>2. /\ Filled(old, Data) \in Seq(Unit) /\ Len(Filled(old, Data)) = Len(old)
          /\ \A i \in 1 .. Len(old) : Filled(old, Data)[i] = Data[i]
      BY <2>1, FilledAll
    <2> QED BY <1>9, <2>2
  <1> HIDE DEF new
  <1>13. /\ dic' \in [names : Seq(Unit), code : Seq(Unit), nameSize : {w[10]}, codeSize : {w[11]},
                      prims : {saved.dic.prims}, entry : {saved.dic.entry}]
         /\ dic'.code = new /\ dic'.names = dic.names
    <2>1. dic' = [dic EXCEPT !.code = new]
      BY <1>1 DEF new, old
    <2> QED BY <1>9, <1>12, <2>1
  <1>14. at' = lw /\ left' = BytesLeft(disk, w, lw) /\ left' \in Unit
    <2>1. at' = k + 2 + c /\ left' = Less(left, 2 + c)
      BY <1>1, <1>7, <1>8, <1>10
    <2>2. /\ 18 <= Len(w) /\ Len(disk) >= 3
          /\ 2 + c \in Nat /\ k >= 3 /\ k + (2 + c) <= Len(w) /\ k + (2 + c) = lw /\ k + 2 + c = lw
          /\ lw + 0 <= Len(w) /\ 0 \in Nat /\ lw >= 3
      BY <1>4, <1>7, <1>10 DEF lw
    <2>3. Less(BytesLeft(disk, w, k), 2 + c) = BytesLeft(disk, w, k + (2 + c))
      <3>1. /\ k \in Nat /\ 2 + c \in Nat /\ k >= 3 /\ k + (2 + c) <= Len(w)
            /\ 18 <= Len(w) /\ Len(w) < Filler /\ Len(disk) >= 3
        BY <1>6, <1>7, <2>2
      <3> QED BY <1>4, <1>5, <1>6, <3>1, LeftAfter
    <2>4. BytesLeft(disk, w, lw) \in Unit
      <3>1. lw \in Nat /\ 0 \in Nat /\ lw >= 3 /\ lw + 0 <= Len(w)
        BY <1>7, <2>2
      <3> QED BY <1>4, <1>5, <1>6, <2>2, <3>1, LeftAfter
    <2> QED BY <1>9, <2>1, <2>2, <2>3, <2>4
  <1>15. Finished(disk, w) => new = saved.dic.code
    <2> SUFFICES ASSUME Finished(disk, w) PROVE new = saved.dic.code
      OBVIOUS
    <2>1. \A i \in 1 .. c : w[k + 2 + i] = saved.dic.code[i]
      BY <1>6 DEF Layout, k, c
    <2>2. \A i \in 1 .. c : disk[k + 2 + i] = w[k + 2 + i]
      <3>1. \A i \in 1 .. c : k + 2 + i \in 1 .. lw /\ k + 2 + i # 2
        BY <1>7
      <3> QED BY <3>1 DEF Finished, lw
    <2>3. \A i \in 1 .. c : new[i] = saved.dic.code[i]
      BY <1>11, <1>12, <2>1, <2>2
    <2>4. saved.dic.code \in Seq(Unit)
      BY <1>4, Small
    <2> QED BY <1>12, <2>3, <2>4, SeqEqual DEF c
  <1>16. Read(w)'
    <2>1. lw # 3 /\ lw <= Len(disk)
      BY <1>7, <1>10
    <2>2. /\ disk' = disk /\ saved' = saved /\ lost' = lost /\ build' = build /\ savedBy' = savedBy
      BY <1>1, <1>4 DEF savedBy
    <2> QED BY <1>9, <1>12, <1>13, <1>14, <1>15, <2>1, <2>2 DEF Read, n, c, lw
  <1>17. Types' /\ InMemory'
    <2>1. Types'
      BY <1>1, <1>7, <1>14 DEF IInv, Types
    <2> QED BY <1>1, <1>3, <2>1 DEF InMemory, Working
  <1>18. Reading'
    BY <1>1, <1>2, <1>5, <1>16 DEF Reading
  <1>19. Initialized' /\ Refused' /\ LoadsWhatWasSaved'
    <2>1. LoadsWhatWasSaved' /\ Refused'
      BY <1>1, StepOutside DEF IInv
    <2> QED BY <1>1, <1>3, <2>1 DEF Initialized
  <1> QED BY <1>3, <1>17, <1>18, <1>19 DEF IInv

LEMMA SkipChunkStep ==
  ASSUME IInv, SkipChunk
  PROVE  IInv'
  <1> USE DEF history, counts
  <1>1. /\ pc = "chunks" /\ pc' = "chunks" /\ Unknown
        /\ at' = at + 2 + ChunkSize /\ left' = Less(left, 2)
        /\ UNCHANGED <<file, todo, build, dic, result, saved, lost, threw, defs>>
    BY DEF SkipChunk
  <1>2. saved = NULL
    <2> SUFFICES ASSUME saved # NULL PROVE FALSE
      OBVIOUS
    <2>1. at + 2 <= Len(disk) /\ ChunkID \notin {P4DI, P4NM, P4CD}
      BY <1>1 DEF Unknown
    <2>2. PICK w \in Forms(saved) : Read(w) /\ Like(disk, w)
      BY <1>1, ReadOf
    <2>3. ChunkID \in {P4DI, P4NM, P4CD}
      BY <1>1, <2>1, <2>2, NextChunk
    <2> QED BY <2>1, <2>3
  <1>3. /\ Recoverable' /\ Saving' /\ disk \in Seq(Unit)
    BY <1>1, LoadKeeps, FileRead
  <1>4. at' \in Nat /\ left' \in Unit
    <2>1. at \in Nat /\ left \in Unit /\ at + 2 <= Len(disk)
      BY <1>1 DEF IInv, Types, Unknown
    <2>2. disk[at + 2] \in Unit
      <3>1. at + 2 \in 1 .. Len(disk)
        BY <1>3, <2>1
      <3> QED BY <1>3, <3>1
    <2>3. ChunkSize \in Nat /\ left \in Nat
      BY <2>1, <2>2, Numbers DEF ChunkSize
    <2>4. left - 2 \in Int
      BY <2>3
    <2> QED BY <1>1, <2>1, <2>3, <2>4, Modulo DEF Less
  <1>5. Types' /\ InMemory' /\ Reading'
    <2>1. dic = NULL
      BY <1>1, <1>2, NoDictionary
    <2>2. Types'
      BY <1>1, <1>4 DEF IInv, Types
    <2> QED BY <1>1, <1>2, <2>1, <2>2 DEF InMemory, Working, Reading
  <1>6. Initialized' /\ Refused' /\ LoadsWhatWasSaved'
    <2>1. LoadsWhatWasSaved' /\ Refused'
      BY <1>1, StepOutside DEF IInv
    <2> QED BY <1>1, <1>2, <2>1 DEF Initialized
  <1> QED BY <1>3, <1>5, <1>6 DEF IInv

\* Only of a file that is finished all of BytesLeft is read.
LEMMA ReadToEnd ==
  ASSUME IInv, pc = "chunks", saved # NULL, left = 0, dic # NULL,
         NEW w \in Forms(saved), Read(w), Like(disk, w)
  PROVE  /\ Finished(disk, w) /\ saved.whole /\ at = Len(w) /\ Compatible(savedBy, build)
         /\ dic.names = saved.dic.names /\ dic.code = saved.dic.code
         /\ dic.prims = saved.dic.prims /\ dic.entry = saved.dic.entry
         /\ dic.nameSize = w[10] /\ dic.codeSize = w[11]
         /\ dic \in [names : Seq(Unit), code : Seq(Unit), nameSize : {w[10]}, codeSize : {w[11]},
                     prims : {saved.dic.prims}, entry : {saved.dic.entry}]
  <1>1. /\ saved \in Saves /\ Grown(saved.dic) /\ Types /\ disk \in Seq(Unit) /\ at \in Nat
    BY ReadOf
  <1> DEFINE k == CodeAt(saved, w[10])
             lw == Len(w)
             ld == Len(disk)
  <1>2. k \in Nat /\ k >= 15 /\ lw \in Nat /\ lw >= 18 /\ lw < Filler /\ k <= lw /\ Filler \in Nat
        /\ ld \in Nat /\ Wrap = Filler + 7
    <2> DEFINE c == Len(saved.dic.code)
    <2>1. k \in Nat /\ k >= 15 /\ c \in Nat /\ c >= 1 /\ lw = k + 2 + c /\ lw \in Nat /\ lw < Filler
      BY <1>1, Lengths
    <2>2. ld \in Nat
      BY <1>1
    <2> HIDE DEF k, lw, ld, c
    <2> QED BY <2>1, <2>2, Numbers
  <1>3. /\ at <= ld /\ at \in {3, 15, k, lw} /\ left = BytesLeft(disk, w, at) /\ at # 3
        /\ Broken(disk, w) \/ (saved.whole /\ Finished(disk, w))
    BY DEF Read
  <1>4. ld <= lw + 1 /\ ld >= 3
    <2>1. ld <= lw + 1
      <3>1. CASE Broken(disk, w)
        BY <3>1 DEF Broken
      <3>2. CASE Finished(disk, w)
        <4>1. ld = lw
          BY <3>2 DEF Finished
        <4> HIDE DEF ld, lw
        <4> QED BY <1>2, <4>1
      <3> QED BY <3>1, <3>2 DEF Like
    <2> HIDE DEF k, lw, ld
    <2> QED BY <1>2, <1>3, <2>1
  <1> HIDE DEF k, lw, ld
  <1>5. Finished(disk, w) /\ at = lw
    <2>1. BytesLeft(disk, w, at) = IF Finished(disk, w) THEN lw - at
                                   ELSE IF disk[2] = 0 THEN Wrap + 2 - at ELSE Wrap - 4 - at
      BY <1>3 DEF BytesLeft, lw
    <2>2. at \in Nat /\ at <= lw + 1
      BY <1>1, <1>2, <1>3, <1>4
    <2>3. Finished(disk, w)
      <3>1. Wrap + 2 - at # 0 /\ Wrap - 4 - at # 0
        BY <1>2, <2>2
      <3> QED BY <1>3, <2>1, <3>1
    <2> QED BY <1>2, <1>3, <2>1, <2>2, <2>3
  <1>6. saved.whole
    <2>1. disk[2] = lw - 2
      BY <1>5 DEF Finished, lw
    <2>2. BADF = Filler + 1
      BY <1>2 DEF BADF
    <2>3. ~(disk[2] \in {0, BADF})
      BY <1>2, <2>1, <2>2
    <2>4. Broken(disk, w) => disk[2] \in {0, BADF}
      BY <1>4 DEF Broken, ld
    <2> QED BY <1>3, <2>3, <2>4
  <1>7. /\ Compatible(savedBy, build)
        /\ dic \in [names : Seq(Unit), code : Seq(Unit), nameSize : {w[10]}, codeSize : {w[11]},
                    prims : {saved.dic.prims}, entry : {saved.dic.entry}]
        /\ dic.names = saved.dic.names /\ dic.code = saved.dic.code
    <2>1. at # 3 /\ at >= CodeAt(saved, w[10]) /\ at = Len(w)
      BY <1>2, <1>3, <1>5 DEF k, lw
    <2> QED BY <1>5, <2>1 DEF Read
  <1> QED BY <1>5, <1>6, <1>7 DEF lw

LEMMA LoadDoneStep ==
  ASSUME IInv, LoadDone
  PROVE  IInv'
  <1> USE DEF history, counts
  <1>1. /\ pc = "chunks" /\ pc' = "boot" /\ left = 0 /\ dic # NULL
        /\ UNCHANGED <<file, todo, build, dic, at, left, result, saved, lost, threw, defs>>
    BY DEF LoadDone, Loaded
  <1>2. saved # NULL
    BY <1>1, NoDictionary
  <1>3. /\ Recoverable' /\ Saving' /\ (saved # NULL => saved \in Saves /\ Grown(saved.dic)')
        /\ (~threw /\ saved # NULL => saved.dic.code[1] = 0)
    BY <1>1, LoadKeeps
  <1>4. /\ saved \in Saves /\ Grown(saved.dic) /\ Types
    BY <1>1, <1>2, ReadOf
  <1>5. PICK w \in Forms(saved) : Read(w) /\ Like(disk, w)
    BY <1>1, <1>2, ReadOf
  <1>6. /\ saved.whole /\ Compatible(savedBy, build)
        /\ dic.names = saved.dic.names /\ dic.code = saved.dic.code
        /\ dic.prims = saved.dic.prims /\ dic.entry = saved.dic.entry
        /\ dic.nameSize = w[10] /\ dic.codeSize = w[11]
        /\ dic \in [names : Seq(Unit), code : Seq(Unit), nameSize : {w[10]}, codeSize : {w[11]},
                    prims : {saved.dic.prims}, entry : {saved.dic.entry}]
    BY <1>1, <1>2, <1>5, ReadToEnd
  <1>7. dic \in Dictionaries /\ Fits(dic) /\ Grown(dic)
    <2>1. w[10] \in Size /\ w[11] \in Size /\ Sized(saved, w[10], w[11])
      BY <1>4, FormLayout DEF Layout
    <2>2. /\ saved.dic.names \in Seq(Size) /\ saved.dic.code \in Seq(Unit)
          /\ saved.dic.prims \in Size /\ saved.dic.entry \in {0, 1}
      BY <1>4, Small DEF Dictionaries
    <2>3. w[10] \in Nat /\ w[11] \in Nat
      BY <2>1, Numbers
    <2>4. dic \in Dictionaries
      BY <1>6, <2>2, <2>3 DEF Dictionaries
    <2>5. Fits(dic)
      BY <1>6, <2>1 DEF Fits, Sized
    <2>6. Grown(dic)
      BY <1>4, <1>6 DEF Grown
    <2> QED BY <2>4, <2>5, <2>6
  <1>8. InMemory'
    <2>1. Fits(dic)' /\ Grown(dic)'
      BY <1>1, <1>7 DEF Fits, Grown
    <2> QED BY <1>1, <1>3, <1>7, <2>1 DEF InMemory, Working
  <1>9. Initialized'
    BY <1>1, <1>2, <1>3, <1>6 DEF Initialized
  <1>10. Types' /\ Reading' /\ Refused'
    BY <1>1 DEF IInv, Types, Reading, Refused
  <1>11. LoadsWhatWasSaved'
    <2>1. loadsOnlySaved'
      <3>1. savedBy' = savedBy
        BY <1>1 DEF savedBy
      <3> QED BY <1>1, <1>2, <1>6, <3>1 DEF loadsOnlySaved
    <2>2. savedLoads'
      BY <1>1 DEF IInv, Refused, savedLoads
    <2> QED BY <2>1, <2>2 DEF LoadsWhatWasSaved
  <1> QED BY <1>3, <1>8, <1>9, <1>10, <1>11 DEF IInv

\* What a save wrote without an error is there to be read, chunk by chunk.
LEMMA FinishedReadable ==
  ASSUME IInv, pc = "chunks", saved # NULL, saved.whole, ~lost,
         Compatible(savedBy, build), ~saved.nameless
  PROVE  Readable
  <1>1. /\ saved \in Saves /\ Grown(saved.dic) /\ Types /\ disk \in Seq(Unit) /\ at \in Nat
    BY ReadOf
  <1>2. PICK w \in Forms(saved) : Read(w) /\ Like(disk, w)
    BY ReadOf
  <1>3. Layout(w, saved)
    BY <1>1, FormLayout
  <1> DEFINE k == CodeAt(saved, w[10])
             n == Len(saved.dic.names)
             c == Len(saved.dic.code)
             lw == Len(w)
             ld == Len(disk)
  <1>4. /\ k \in Nat /\ k >= 15 /\ n \in Nat /\ c \in Nat /\ c >= 1
        /\ lw = k + 2 + c /\ lw \in Nat /\ lw < Filler /\ w \in Seq(Unit)
        /\ k = (IF w[10] = 0 THEN 15 ELSE 17 + n)
    BY <1>1, Lengths
  <1>5. Finished(disk, w)
    BY <1>2 DEF Read
  <1>6. ld = lw /\ \A i \in 1 .. lw : i # 2 => disk[i] = w[i]
    BY <1>5 DEF Finished
  <1>7. at \in {3, 15, k, lw} /\ left = lw - at
    BY <1>2, <1>5 DEF Read, BytesLeft
  <1>8. /\ at # 3 =>
             dic \in [names : Seq(Unit), code : Seq(Unit), nameSize : {w[10]}, codeSize : {w[11]},
                      prims : {saved.dic.prims}, entry : {saved.dic.entry}]
        /\ at >= k /\ at # 3 => dic.names = saved.dic.names
    BY <1>2, <1>5 DEF Read
  <1>9. /\ w[4] = P4DI /\ w[5] = 10 /\ w[k + 1] = P4CD /\ w[k + 2] = c
        /\ w[10] # 0 => w[16] = P4NM /\ w[17] = n
        /\ w[10] \in Nat /\ w[11] \in Nat /\ n <= w[10] /\ c <= w[11]
        /\ (w[10] > 0 => saved.dic.names # <<>>)
    <2>1. w[10] \in Nat /\ w[11] \in Nat
      BY <1>3, Numbers DEF Layout
    <2>2. n <= w[10] /\ c <= w[11] /\ (w[10] > 0 => saved.dic.names # <<>>)
      BY <1>3 DEF Layout, Sized
    <2> QED BY <1>3, <2>1, <2>2 DEF Layout
  <1>10. at # 3 => dic # NULL /\ dic.nameSize = w[10] /\ dic.codeSize = w[11]
    BY <1>8 DEF NULL
  <1> HIDE DEF k, n, c, lw, ld
  <1>11. CASE at = 3
    <2>1. left > 0 /\ at + 2 <= ld /\ disk[at + 1] = P4DI /\ disk[at + 2] = 10 /\ at + 2 + 10 <= ld
      BY <1>4, <1>6, <1>7, <1>9, <1>11
    <2>2. IsChunk(P4DI) /\ Whole /\ ChunkSize = 10
      BY <2>1 DEF IsChunk, ChunkID, Whole, ChunkSize, ld
    <2>3. Compatible(convertDictionaryInfoRead(Data), build)
      <3>1. Data = SubSeq(disk, 6, 15)
        BY <1>11, <2>2 DEF Data
      <3>2. \A i \in 6 .. 15 : i \in 1 .. ld
        BY <1>4, <1>6
      <3>3. \A i \in 6 .. 15 : disk[i] \in Unit
        BY <1>1, <3>2 DEF ld
      <3>4. /\ SubSeq(disk, 6, 15) \in Seq(Unit)
            /\ Len(SubSeq(disk, 6, 15)) = (IF 6 <= 15 THEN 15 - 6 + 1 ELSE 0)
            /\ \A i \in 1 .. 15 - 6 + 1 : SubSeq(disk, 6, 15)[i] = disk[6 + i - 1]
        BY <3>3, SubSeqProperties
      <3>5. \A i \in 1 .. 10 : i \in 1 .. 15 - 6 + 1 /\ 6 + i - 1 = 5 + i
        OBVIOUS
      <3>6. Data \in Seq(Unit) /\ Len(Data) = 10 /\ \A i \in 1 .. 10 : Data[i] = disk[5 + i]
        BY <3>1, <3>4, <3>5
      <3>7. \A i \in 1 .. 10 : disk[5 + i] = w[5 + i]
        <4>1. \A i \in 1 .. 10 : 5 + i \in 1 .. lw /\ 5 + i # 2
          BY <1>4
        <4> QED BY <1>6, <4>1
      <3>8. /\ Data[1] = w[6] /\ Data[7] = w[12] /\ Data[8] = w[13] /\ Data[9] = w[14]
            /\ Data[10] = w[15]
        BY <3>6, <3>7
      <3>9. /\ w[6] = saved.build.version /\ w[12] = saved.dic.prims /\ w[13] = saved.build.big
            /\ w[14] = saved.build.float /\ w[15] = saved.build.cell
        BY <1>3 DEF Layout
      <3> DEFINE sd == convertDictionaryInfoRead(Data)
      <3>10. /\ sd.version = Data[1] /\ sd.prims = Data[7] /\ sd.big = Data[8]
             /\ sd.float = Data[9] /\ sd.cell = Data[10]
        BY <3>6, InfoFound
      <3>11. /\ savedBy.version = saved.build.version /\ savedBy.cell = saved.build.cell
             /\ savedBy.big = saved.build.big /\ savedBy.float = saved.build.float
             /\ savedBy.prims = saved.dic.prims
        <4>1. saved.build \in [version : Size, cell : Size, big : {0, 1}, float : Size, prims : Size]
          BY <1>1, DictFileAssumption DEF Saves
        <4> QED BY <4>1 DEF savedBy
      <3> HIDE DEF sd
      <3>12. Compatible(sd, build)
        BY <3>8, <3>9, <3>10, <3>11 DEF Compatible
      <3> QED BY <3>12 DEF sd
    <2> QED BY <2>2, <2>3 DEF Readable, InfoOK
  <1>12. CASE at = k
    <2>1. /\ left > 0 /\ at + 2 <= ld /\ disk[at + 1] = P4CD /\ disk[at + 2] = c
          /\ at + 2 + c <= ld /\ at # 3
      <3>1. left > 0 /\ at + 2 <= ld /\ at + 2 + c <= ld /\ at # 3
        BY <1>4, <1>6, <1>7, <1>12
      <3>2. k + 1 \in 1 .. lw /\ k + 2 \in 1 .. lw /\ k + 1 # 2 /\ k + 2 # 2
        BY <1>4
      <3> QED BY <1>6, <1>9, <1>12, <3>1, <3>2
    <2>2. IsChunk(P4CD) /\ Whole /\ ChunkSize = c
      BY <2>1 DEF IsChunk, ChunkID, Whole, ChunkSize, ld
    <2>3. CodeOK
      BY <1>9, <1>10, <2>1, <2>2 DEF CodeOK
    <2> QED BY <2>2, <2>3 DEF Readable
  <1>13. CASE at = 15 /\ at # k
    <2>0. w[10] # 0 /\ k = 17 + n
      BY <1>4, <1>13
    <2>1. /\ left > 0 /\ at + 2 <= ld /\ disk[at + 1] = P4NM /\ disk[at + 2] = n
          /\ at + 2 + n <= ld /\ at # 3
      <3>1. left > 0 /\ at + 2 <= ld /\ at + 2 + n <= ld /\ at # 3
        BY <1>4, <1>6, <1>7, <1>13, <2>0
      <3>2. 16 \in 1 .. lw /\ 17 \in 1 .. lw
        BY <1>4, <2>0
      <3> QED BY <1>6, <1>9, <1>13, <2>0, <3>1, <3>2
    <2>2. IsChunk(P4NM) /\ Whole /\ ChunkSize = n
      BY <2>1 DEF IsChunk, ChunkID, Whole, ChunkSize, ld
    <2>3. NamesOK
      <3>1. w[10] > 0
        BY <1>9, <2>0
      <3> QED BY <1>9, <1>10, <2>1, <2>2, <3>1 DEF NamesOK, HasNames
    <2> QED BY <2>2, <2>3 DEF Readable
  <1>14. CASE at = lw
    <2>1. left = 0 /\ at # 3 /\ at >= k
      BY <1>4, <1>7, <1>14
    <2>2. dic # NULL /\ dic.names = saved.dic.names /\ dic.nameSize = w[10]
      BY <1>8, <1>10, <2>1
    <2>3. Filler \notin Range(saved.dic.names)
      <3>1. saved.dic.names \in Seq(Size) /\ Filler \notin Size
        BY <1>1, Small, Numbers DEF Dictionaries
      <3>2. \A i \in DOMAIN saved.dic.names : saved.dic.names[i] \in Size
        BY <3>1
      <3> QED BY <3>1, <3>2 DEF Range
    <2>4. Loaded /\ SpecialXTs
      BY <1>9, <2>1, <2>2, <2>3 DEF Loaded, SpecialXTs, HasNames
    <2> QED BY <2>4 DEF Readable
  <1> QED BY <1>7, <1>11, <1>12, <1>13, <1>14

LEMMA RefuseStep ==
  ASSUME IInv, Refuse
  PROVE  IInv'
  <1> USE DEF history, counts
  <1>1. pc \in {"header", "chunks"} /\ ~Readable /\ Stops("refused")
    BY DEF Refuse
  <1>2. UNCHANGED <<build, saved, lost>>
    BY <1>1 DEF Stops
  <1>3. savedLoads'
    <2> SUFFICES ASSUME saved # NULL, saved.whole, ~lost, Compatible(savedBy, build), ~saved.nameless
                 PROVE  FALSE
      <3>1. savedBy' = savedBy
        BY <1>2 DEF savedBy
      <3> QED BY <1>2, <3>1 DEF savedLoads
    <2>1. CASE pc = "chunks"
      BY <1>1, <2>1, FinishedReadable
    <2>2. CASE pc = "header"
      <3>1. saved \in Saves /\ Grown(saved.dic) /\ Types
        BY DEF IInv, InMemory
      <3>2. PICK w \in Forms(saved) : Finished(disk, w)
        BY <2>2, FileRead
      <3>3. w[1] = FORM /\ w[3] = P4TH
        BY <3>1, FormLayout DEF Layout
      <3> DEFINE lw == Len(w)
      <3>4. lw \in Nat /\ lw >= 3
        <4> DEFINE k == CodeAt(saved, w[10])
                   c == Len(saved.dic.code)
        <4>1. k \in Nat /\ k >= 15 /\ c \in Nat /\ c >= 1 /\ lw = k + 2 + c /\ lw \in Nat
          BY <3>1, Lengths
        <4> HIDE DEF k, c, lw
        <4> QED BY <4>1
      <3>5. Len(disk) = lw /\ \A i \in 1 .. lw : i # 2 => disk[i] = w[i]
        BY <3>2 DEF Finished
      <3> HIDE DEF lw
      <3>6. HeaderOK
        BY <3>3, <3>4, <3>5 DEF HeaderOK
      <3> QED BY <1>1, <2>2, <3>6 DEF Readable
    <2> QED BY <1>1, <2>1, <2>2
  <1> QED BY <1>1, <1>3, StopsStep

-----------------------------------------------------------------------------
(* The theorems.                                                           *)

LEMMA InitIInv == Init => IInv
  <1> USE DEF history, counts
  <1> SUFFICES ASSUME Init PROVE IInv
    OBVIOUS
  <1>1. PICK f \in OtherFiles : file = [disk |-> f, base |-> 0, held |-> <<>>]
    BY DEF Init
  <1>2. /\ todo = <<>> /\ pc = "idle" /\ build \in Builds
        /\ dic = [names |-> <<0>>, code |-> <<1, 0>>, nameSize |-> 1 + NameMargin,
                  codeSize |-> 2 + CodeMargin, prims |-> build.prims, entry |-> 0]
        /\ at = 0 /\ left = 0 /\ result = "built"
        /\ saved = NULL /\ lost = FALSE /\ threw = FALSE /\ defs = 0
    BY DEF Init
  <1>3. 0 \in Size /\ 1 \in Size /\ 0 \in Unit /\ 1 \in Unit /\ MaxDefs \in Nat /\ NameMargin \in Nat /\ CodeMargin \in Nat
    BY Numbers
  <1>4. f \in Seq(Unit \ {P4DI}) /\ f \in Seq(Unit)
    <2>1. f \in Seq(Unit \ {P4DI})
      BY DictFileAssumption
    <2>2. Unit \ {P4DI} \subseteq Unit
      OBVIOUS
    <2> QED BY <2>1, <2>2, SeqMonotonic
  <1>5. file \in Buffered /\ file.base <= Len(file.disk) /\ file.base = 0 /\ file.held = <<>>
        /\ file.disk = f
    BY <1>1, <1>4 DEF Buffered
  <1>6. Types
    <2>1. <<>> \in Seq(Unit) /\ 0 \in 0 .. MaxDefs
      BY <1>3
    <2> QED BY <1>2, <1>3, <1>5, <2>1 DEF Types
  <1>7. dic \in Dictionaries /\ Fits(dic) /\ Grown(dic) /\ dic.code[1] = 1 /\ HasNames(dic)
    <2>1. <<0>> \in Seq(Size) /\ Len(<<0>>) = 1 /\ <<1, 0>> \in Seq(Unit) /\ Len(<<1, 0>>) = 2
          /\ <<1, 0>>[1] = 1
      BY <1>3
    <2>2. build.prims \in Size
      <3>1. build \in [version : Size, cell : Size, big : {0, 1}, float : Size, prims : Size]
        BY <1>2, DictFileAssumption
      <3> QED BY <3>1
    <2>3. 1 + NameMargin \in Nat /\ 2 + CodeMargin \in Nat /\ 1 <= 1 + NameMargin
          /\ 2 <= 2 + CodeMargin /\ 1 + NameMargin > 0
      BY <1>3
    <2>4. /\ dic.names = <<0>> /\ dic.code = <<1, 0>> /\ dic.nameSize = 1 + NameMargin
          /\ dic.codeSize = 2 + CodeMargin
      BY <1>2
    <2>5. dic \in Dictionaries
      BY <1>2, <2>1, <2>2, <2>3 DEF Dictionaries
    <2>6. Fits(dic) /\ HasNames(dic) /\ dic.code[1] = 1
      BY <2>1, <2>3, <2>4 DEF Fits, HasNames
    <2>7. Grown(dic)
      BY <1>2, <2>1, <2>4 DEF Grown
    <2> QED BY <2>5, <2>6, <2>7
  <1>8. InMemory
    BY <1>2, <1>7 DEF InMemory
  <1>9. Recoverable
    <2>1. SomeOut(file) = {file}
      BY <1>5, Settled
    <2>2. P4DI \notin Range(f)
      <3>1. \A i \in DOMAIN f : f[i] # P4DI
        BY <1>4
      <3> QED BY <3>1 DEF Range
    <2> QED BY <1>2, <1>5, <2>1, <2>2 DEF Recoverable, MayBeLeft
  <1>10. Saving /\ Reading /\ Refused
    BY <1>2, <1>5 DEF Saving, Reading, Refused
  <1>11. Initialized
    BY <1>2, <1>7 DEF Initialized
  <1>12. LoadsWhatWasSaved
    BY <1>2 DEF LoadsWhatWasSaved, loadsOnlySaved, savedLoads
  <1> QED BY <1>6, <1>8, <1>9, <1>10, <1>11, <1>12 DEF IInv

\* Every step of Next keeps the invariant, one lemma for each.
LEMMA Inductive == IInv /\ [Next]_vars => IInv'
  <1> SUFFICES ASSUME IInv, [Next]_vars PROVE IInv'
    OBVIOUS
  <1>1. CASE Define
    BY <1>1, DefineStep
  <1>2. CASE SaveOpen
    BY <1>2, SaveOpenStep
  <1>3. CASE Write
    BY <1>3, WriteStep
  <1>4. CASE WriteFormSize
    BY <1>4, WriteFormSizeStep
  <1>5. CASE SaveClose
    BY <1>5, SaveCloseStep
  <1>6. CASE SaveError
    BY <1>6, SaveErrorStep
  <1>7. CASE SaveInit
    BY <1>7, SaveInitStep
  <1>8. ASSUME NEW entry \in {0, 1}, NEW n \in Sizes, NEW c \in Sizes, SaveTerm(entry, n, c)
        PROVE  IInv'
    BY <1>8, SaveTermStep
  <1>9. CASE Ends
    BY <1>9, EndsStep
  <1>10. ASSUME NEW b \in Builds, Start(b) PROVE IInv'
    BY <1>10, StartStep
  <1>11. CASE StartFails \/ AutoInitThrows
    BY <1>11, FailsStep
  <1>12. CASE LoadHeader
    BY <1>12, LoadHeaderStep
  <1>13. CASE LoadInfo
    BY <1>13, LoadInfoStep
  <1>14. CASE LoadNames
    BY <1>14, LoadNamesStep
  <1>15. CASE LoadCode
    BY <1>15, LoadCodeStep
  <1>16. CASE SkipChunk
    BY <1>16, SkipChunkStep
  <1>17. CASE LoadDone
    BY <1>17, LoadDoneStep
  <1>18. CASE Refuse
    BY <1>18, RefuseStep
  <1>19. CASE AutoInit
    BY <1>19, AutoInitStep
  <1>20. CASE UNCHANGED vars
    <2>1. UNCHANGED <<file, todo, pc, build, dic, at, left, result, saved, lost, threw, defs>>
      BY <1>20 DEF vars, history, counts
    <2>2. Types' /\ Saving' /\ Refused' /\ Initialized'
      <3>1. Types' /\ Refused'
        BY <2>1 DEF IInv, Types, Refused
      <3>2. Saving'
        BY <2>1 DEF IInv, Saving, Opened
      <3>3. Initialized'
        BY <2>1 DEF IInv, Initialized, HasNames
      <3> QED BY <3>1, <3>2, <3>3
    <2>3. InMemory' /\ Recoverable'
      BY <2>1, FileStays DEF IInv, InMemory, Working, Fits, Grown
    <2>4. Reading'
      <3>1. disk' = disk /\ savedBy' = savedBy
        BY <2>1 DEF disk, savedBy
      <3>2. \A w : Read(w)' = Read(w)
        BY <2>1, <3>1 DEF Read
      <3> QED BY <2>1, <3>2 DEF IInv, Reading
    <2>5. LoadsWhatWasSaved'
      BY <2>1 DEF IInv, LoadsWhatWasSaved, loadsOnlySaved, savedLoads, savedBy
    <2> QED BY <2>2, <2>3, <2>4, <2>5 DEF IInv
  <1> QED BY <1>1, <1>2, <1>3, <1>4, <1>5, <1>6, <1>7, <1>8, <1>9, <1>10, <1>11, <1>12, <1>13,
             <1>14, <1>15, <1>16, <1>17, <1>18, <1>19, <1>20 DEF Next

LEMMA Invariant == Spec => []IInv
  BY InitIInv, Inductive, PTL DEF Spec

\* The types, for any builds, margins and bounds: what is in memory lies within
\* its area, after every save, crash and load, and BytesLeft stays unsigned.
THEOREM TypeCorrect == Spec => []TypeOK
  <1>1. IInv => TypeOK
    <2> SUFFICES ASSUME IInv PROVE TypeOK
      OBVIOUS
    <2>1. /\ file.disk \in Seq(Unit) /\ file.held \in Seq(Unit) /\ file.base \in Nat
          /\ todo \in Seq(Unit) /\ build \in Builds
          /\ pc \in {"idle", "term", "write", "error", "close", "init", "down", "header",
                     "chunks", "boot"}
          /\ left \in Unit /\ at \in Nat /\ lost \in BOOLEAN /\ threw \in BOOLEAN
          /\ result \in {"built", "started", "loaded", "refused", "failed", "ended"}
      BY DEF IInv, Types, Buffered
    <2>2. dic # NULL =>
            /\ dic.names \in Seq(Unit) /\ Len(dic.names) <= dic.nameSize
            /\ dic.code \in Seq(Unit) /\ Len(dic.code) <= dic.codeSize
      <3> SUFFICES ASSUME dic # NULL
                   PROVE  /\ dic.names \in Seq(Unit) /\ Len(dic.names) <= dic.nameSize
                          /\ dic.code \in Seq(Unit) /\ Len(dic.code) <= dic.codeSize
        OBVIOUS
      <3>1. CASE Working
        <4>1. dic \in Dictionaries /\ Fits(dic)
          BY <3>1 DEF IInv, InMemory
        <4>2. dic.names \in Seq(Size) /\ dic.code \in Seq(Unit) /\ Size \subseteq Unit
          BY <4>1, Numbers DEF Dictionaries
        <4>3. dic.names \in Seq(Unit) /\ dic.code \in Seq(Unit)
          BY <4>2, SeqMonotonic
        <4> QED BY <4>1, <4>3 DEF Fits
      <3>2. CASE pc = "chunks"
        <4>1. saved # NULL
          BY <3>2, NoDictionary
        <4>2. saved \in Saves /\ Grown(saved.dic) /\ Types
          BY <3>2, <4>1, ReadOf
        <4>3. PICK w \in Forms(saved) : Read(w)
          BY <3>2, <4>1, ReadOf
        <4>4. Sized(saved, w[10], w[11])
          BY <4>2, FormLayout DEF Layout
        <4>5. at # 3
          BY <4>3 DEF Read
        <4>6. /\ dic.names \in Seq(Unit) /\ dic.code \in Seq(Unit)
              /\ dic.nameSize = w[10] /\ dic.codeSize = w[11]
              /\ Len(dic.names) = Len(saved.dic.names) /\ Len(dic.code) = Len(saved.dic.code)
          BY <4>3, <4>5 DEF Read
        <4> QED BY <4>4, <4>6 DEF Sized
      <3>3. CASE pc \in {"down", "header"}
        BY <3>3 DEF IInv, InMemory
      <3> QED BY <2>1, <3>1, <3>2, <3>3 DEF Working
    <2> QED BY <2>1, <2>2 DEF TypeOK
  <1> QED BY <1>1, Invariant, PTL

\* A program starts with all that the last whole save was to write, or is
\* refused for a reason, whatever failed and wherever programs were killed
\* (pf_save.c:383-757).
THEOREM SaveLoads == Spec => []LoadsWhatWasSaved
  <1>1. IInv => LoadsWhatWasSaved
    BY DEF IInv
  <1> QED BY <1>1, Invariant, PTL

\* No exit of ffSaveForth and no load loses or repeats an AUTO.INIT
\* (pf_save.c:400, 501, 510, pf_core.c:634).
THEOREM InitializedAlways == Spec => []InitializedOnce
  <1>1. IInv => InitializedOnce
    BY DEF IInv, Initialized, InitializedOnce
  <1> QED BY <1>1, Invariant, PTL

=============================================================================
