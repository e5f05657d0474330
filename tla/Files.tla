-------------------------------- MODULE Files --------------------------------
(***************************************************************************)
(* The files behind the file words of src/csrc/pf_inner.c, and             *)
(* RESIZE-FILE, which src/csrc/stdio/pf_fileio_stdio.c builds from the     *)
(* calls of the C library.  fs holds the names of the files, their bytes,  *)
(* the open streams, and how many more calls may fail.  A call is the set  *)
(* of its outcomes: the files after it and its result r.                   *)
(***************************************************************************)
EXTENDS Cells, Sequences, SequencesExt, FiniteSetsExt

CONSTANTS BufSize,    \* of CopyFile and ExtendFile
          FOPEN_MAX,  \* streams open at a time
          MaxFails    \* bound: calls of the C library that fail

ASSUME FilesAssumption == BufSize \in Nat \ {0} /\ FOPEN_MAX \in Nat /\ MaxFails \in Nat

NULL == 0
FileStreams == 1 .. FOPEN_MAX
NoFiles == [names |-> <<>>, data |-> <<>>, open |-> <<>>, fails |-> MaxFails]

PF_FAM_READ_ONLY == 0
PF_FAM_READ_WRITE == 1
PF_FAM_WRITE_ONLY == 2
PF_FAM_BINARY_FLAG == 8

\* "b" makes no difference.
pfSelectFileModeCreate(fam) ==
  CASE fam \in {PF_FAM_WRITE_ONLY, PF_FAM_WRITE_ONLY + PF_FAM_BINARY_FLAG} -> "w"
    [] fam \in {PF_FAM_READ_WRITE, PF_FAM_READ_WRITE + PF_FAM_BINARY_FLAG} -> "w+"
    [] OTHER -> "illegal"

\* W/O has the mode of CREATE-FILE: an existing file is emptied.
pfSelectFileModeOpen(fam) ==
  CASE fam \in {PF_FAM_READ_ONLY, PF_FAM_READ_ONLY + PF_FAM_BINARY_FLAG} -> "r"
    [] fam \in {PF_FAM_WRITE_ONLY, PF_FAM_WRITE_ONLY + PF_FAM_BINARY_FLAG} -> "w"
    [] OTHER -> "r+"

-----------------------------------------------------------------------------
(* The C library.  What is written is in the file at once: it has no       *)
(* buffers.                                                                *)

Answer(fs, r) == {[fs |-> fs, r |-> r]}
Failing(fs, r) == IF fs.fails > 0 THEN Answer([fs EXCEPT !.fails = @ - 1], r) ELSE {}

Least(S, T) == CHOOSE x \in S \ T : \A y \in S \ T : x <= y
NewFile(fs) == Least(1 .. Cardinality(DOMAIN fs.data) + 1, DOMAIN fs.data)

\* Files nobody can reach are gone.
Reclaim(fs) ==
  [fs EXCEPT !.data = Restrict(@, {fs.names[n] : n \in DOMAIN fs.names}
                                  \cup {fs.open[s].file : s \in DOMAIN fs.open})]

Opened(fs, file, mode) ==
  [fs EXCEPT !.open = (Least(FileStreams, DOMAIN fs.open)
                         :> [file |-> file, pos |-> 0, read |-> mode # "w", write |-> mode # "r"]) @@ @]

fopen(fs, name, mode) ==
  LET there == name \in DOMAIN fs.names
      file == IF there THEN fs.names[name] ELSE NewFile(fs)
      made == [fs EXCEPT !.names = (name :> file) @@ @, !.data = (file :> <<>>) @@ @]
      f == IF mode \in {"w", "w+"} THEN made ELSE fs
  IN IF mode = "illegal" \/ (mode \in {"r", "r+"} /\ ~there) \/ FileStreams \subseteq DOMAIN fs.open
     THEN Answer(fs, NULL)
     ELSE Answer(Opened(f, file, mode), Least(FileStreams, DOMAIN fs.open)) \cup Failing(fs, NULL)

tmpfile(fs) ==
  IF FileStreams \subseteq DOMAIN fs.open THEN Answer(fs, NULL)
  ELSE Answer(Opened([fs EXCEPT !.data = (NewFile(fs) :> <<>>) @@ @], NewFile(fs), "w+"),
              Least(FileStreams, DOMAIN fs.open))
       \cup Failing(fs, NULL)

\* The file is closed whatever the result.
fclose(fs, s) ==
  LET closed == Reclaim([fs EXCEPT !.open = Restrict(@, DOMAIN @ \ {s})])
  IN Answer(closed, 0) \cup Failing(closed, Minus(1))

\* freopen( NULL, "w+b", s )
freopen(fs, s) ==
  LET file == fs.open[s].file
  IN Answer([fs EXCEPT !.data[file] = <<>>,
                       !.open[s] = [file |-> file, pos |-> 0, read |-> TRUE, write |-> TRUE]], s)
     \cup Failing(Reclaim([fs EXCEPT !.open = Restrict(@, DOMAIN @ \ {s})]), NULL)

\* The bytes read: all there are, or fewer after an error.
fread(fs, s, n) ==
  LET o == fs.open[s]
      d == fs.data[o.file]
      there == IF o.read THEN SubSeq(d, o.pos + 1, Min({o.pos + n, Len(d)})) ELSE <<>>
      Moved(k) == [fs EXCEPT !.open[s].pos = @ + k]
  IN Answer(Moved(Len(there)), there)
     \cup UNION {Failing(Moved(k), SubSeq(there, 1, k)) : k \in 0 .. Len(there) - 1}

\* d with bytes at pos; zeros fill what is skipped.
Place(d, pos, bytes) ==
  IF bytes = <<>> THEN d
  ELSE [i \in 1 .. Max({Len(d), pos + Len(bytes)}) |->
          IF i - pos \in DOMAIN bytes THEN bytes[i - pos] ELSE IF i \in DOMAIN d THEN d[i] ELSE 0]

\* How many bytes were written.
fwrite(fs, s, bytes) ==
  LET o == fs.open[s]
      After(k) == [fs EXCEPT !.data[o.file] = Place(@, o.pos, SubSeq(bytes, 1, k)),
                             !.open[s].pos = @ + k]
  IN IF ~o.write THEN Answer(fs, 0)
     ELSE Answer(After(Len(bytes)), Len(bytes))
          \cup UNION {Failing(After(k), k) : k \in 0 .. Len(bytes) - 1}

fseek(fs, s, pos) ==
  IF Negative(pos) THEN Answer(fs, Minus(1))
  ELSE Answer([fs EXCEPT !.open[s].pos = pos], 0) \cup Failing(fs, Minus(1))
FileEnd(fs, s) == Len(fs.data[fs.open[s].file])
ftell(fs, s) == Answer(fs, fs.open[s].pos) \cup Failing(fs, Minus(1))
fflush(fs, s) == Answer(fs, 0) \cup Failing(fs, Minus(1))

remove(fs, name) ==
  IF name \notin DOMAIN fs.names THEN Answer(fs, Minus(1))
  ELSE Answer(Reclaim([fs EXCEPT !.names = Restrict(@, DOMAIN @ \ {name})]), 0) \cup Failing(fs, Minus(1))

rename(fs, old, new) ==
  IF old \notin DOMAIN fs.names THEN Answer(fs, Minus(1))
  ELSE LET names == (new :> fs.names[old]) @@ Restrict(fs.names, DOMAIN fs.names \ {old})
       IN Answer(Reclaim([fs EXCEPT !.names = names]), 0) \cup Failing(fs, Minus(1))

\* FILE-SIZE: the results of the seeks are ignored.
FileSize(fs, s) ==
  LET Restored(a, original) == {[fs |-> b.fs, r |-> a.r] : b \in fseek(a.fs, s, original)}
      Ended(a, original) == UNION {Restored(b, original) : b \in ftell(a.fs, s)}
  IN UNION {IF Negative(a.r) THEN {a} ELSE UNION {Ended(b, a.r) : b \in fseek(a.fs, s, FileEnd(a.fs, s))} :
              a \in ftell(fs, s)}

-----------------------------------------------------------------------------
(* RESIZE-FILE.  The result of the first three is "Error".                 *)

\* The loops go round by blocks of BufSize, the last one smaller, and end at
\* the first that fails.
Blocks(size) == [k \in 1 .. (size + BufSize - 1) \div BufSize |-> Min({BufSize, size - (k - 1) * BufSize})]

Written(fs, To, bytes) == {[fs |-> w.fs, r |-> w.r < Len(bytes)] : w \in fwrite(fs, To, bytes)}

\* There may be no memory for the buffer.
CopyFile(fs, From, To, Size) ==
  LET Copied(f, N) == UNION {IF Len(a.r) < N THEN Answer(a.fs, TRUE) ELSE Written(a.fs, To, a.r) :
                               a \in fread(f, From, N)}
      Round(after, N) == UNION {IF a.r THEN {a} ELSE Copied(a.fs, N) : a \in after}
  IN FoldLeft(Round, Answer(fs, FALSE), Blocks(Size)) \cup Failing(fs, TRUE)

\* Mutant of Rewrite: the file is emptied first.
RewriteAtOnce(fs, File, TmpFile, Newsize) ==
  UNION {IF a.r = NULL THEN Answer(a.fs, TRUE) ELSE CopyFile(a.fs, TmpFile, File, Newsize) :
           a \in freopen(fs, File)}

\* From the moment TmpFile is there.
Rewrite(fs, File, TmpFile, Newsize) ==
  LET Back(a) == IF a.r = NULL THEN Answer(a.fs, TRUE) ELSE CopyFile(a.fs, TmpFile, File, Newsize)
      Reopened(a) == IF a.r # 0 THEN Answer(a.fs, TRUE) ELSE UNION {Back(b) : b \in freopen(a.fs, File)}
      Saved(a) == IF a.r THEN {a} ELSE UNION {Reopened(b) : b \in fseek(a.fs, TmpFile, 0)}
  IN UNION {Saved(a) : a \in CopyFile(fs, File, TmpFile, Newsize)}

TruncateFile(fs, File, Newsize) ==
  LET Closed(a, TmpFile) == {[fs |-> b.fs, r |-> a.r] : b \in fclose(a.fs, TmpFile)}
      With(a) == IF a.r = NULL THEN Answer(a.fs, TRUE)
                 ELSE UNION {Closed(b, a.r) : b \in Rewrite(a.fs, File, a.r, Newsize)}
  IN UNION {IF a.r # 0 THEN Answer(a.fs, TRUE) ELSE UNION {With(b) : b \in tmpfile(a.fs)} :
              a \in fseek(fs, File, 0)}

ExtendFile(fs, File, Diff) ==
  LET Round(after, N) ==
        UNION {IF a.r THEN {a} ELSE Written(a.fs, File, [i \in 1 .. N |-> 0]) : a \in after}
  IN FoldLeft(Round, Answer(fs, FALSE), Blocks(Diff)) \cup Failing(fs, TRUE)

LONG_MAX == HIGH_BIT - 1
THROW_RESIZE_FILE == Minus(74)

sdResizeFile(fs, File, Size) ==
  LET Sized(a) == IF a.r = Minus(1) THEN Answer(a.fs, TRUE)
                  ELSE IF a.r <= Size THEN ExtendFile(a.fs, File, Size - a.r)
                  ELSE TruncateFile(a.fs, File, Size)
      Ended(a) == IF a.r # 0 THEN Answer(a.fs, TRUE) ELSE UNION {Sized(b) : b \in ftell(a.fs, File)}
      all == IF Size > LONG_MAX THEN Answer(fs, TRUE)
             ELSE UNION {Ended(a) : a \in fseek(fs, File, FileEnd(fs, File))}
  IN {[fs |-> a.fs, r |-> IF a.r THEN THROW_RESIZE_FILE ELSE 0] : a \in all}
=============================================================================
