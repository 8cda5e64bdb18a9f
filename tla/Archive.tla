-------------------------------- MODULE Archive --------------------------------
(***************************************************************************)
(* TDF archives (src/tcc/src/archive.c): build_archive writes the files    *)
(* and the options it is given into one file, split_archive takes such a   *)
(* file apart, on another machine and at another time.  The same format    *)
(* joins an object to its spec file.                                       *)
(*                                                                         *)
(* An archive is a sequence of lines and bytes.  A file longer than the    *)
(* buffer is written in pieces.                                            *)
(***************************************************************************)
EXTENDS Naturals, Sequences, SequencesExt

CONSTANTS
  NULL,
  ArchiveArgs,   \* what is archived, and how
  buffer_size

Name == [base : STRING, type : {"j", "b", "k", "bytes"}]

ArchiveArg ==
  [archive_type : {"ta", "o"}, files : Seq([name : Name, bytes : Seq(STRING)]),
   options : Seq(STRING), archive_names : BOOLEAN, archive_links : BOOLEAN,
   archive_options : BOOLEAN]

ASSUME ArchiveAssumption ==
  ArchiveArgs \subseteq ArchiveArg /\ buffer_size \in Nat \ {0} /\ NULL \notin Nat

VARIABLES
  aargs,
  phase,     \* what is being done
  input,     \* the files still to be archived
  offset,    \* how much of the first of them has been read
  arch,      \* the archive
  cut,       \* how much of it arrives where it is split
  time,      \* the date stamp of each file that was archived
  pos,       \* where split_archive is
  current,   \* q: the file extracted last
  output,    \* the files extracted, in order
  extracted, \* the contents of each file that has been written
  found,     \* the options found
  made,      \* the number of names made up
  warned,    \* the links whose date stamp has changed
  result     \* what split_archive returns

buildVars == <<aargs, input, offset, arch>>
splitVars == <<pos, current, output, extracted, found, made, warned, result>>
archiveVars == <<aargs, phase, input, offset, arch, cut, time, pos, current, output, extracted,
                 found, made, warned, result>>

Item(k, n, name, b) == [k |-> k, n |-> n, name |-> name, b |-> b]
Header == Item("header", 0, NULL, NULL)
Trailer == Item("trailer", 0, NULL, NULL)
Continued == [base |-> "+", type |-> "+"]
Bytes(bs) == [i \in DOMAIN bs |-> Item("byte", 0, NULL, bs[i])]

ArchiveInit ==
  /\ aargs \in ArchiveArgs
  /\ phase = "build" /\ input = aargs.files /\ offset = 0 /\ arch = <<Header>> /\ cut = 0
  /\ time = [n \in {f.name : f \in ToSet(aargs.files)} |-> 1]
  /\ pos = 1 /\ current = NULL /\ output = <<>> /\ extracted = <<>> /\ found = <<>>
  /\ made = 0 /\ warned = {} /\ result = NULL

--------------------------------------------------------------------------------
(* build_archive *)

\* Spec archives may hold links.
Links == aargs.archive_links /\ aargs.archive_type # "ta"

\* What fread delivers next of the file f: a piece no longer than the buffer.
Piece(f) ==
  SubSeq(f.bytes, offset + 1,
         IF offset + buffer_size > Len(f.bytes) THEN Len(f.bytes) ELSE offset + buffer_size)

\* The name in the archive.  A hidden name, a "*" and the suffix with the type, is
\* put together in the buffer into which the contents are then read, before the
\* name is printed: the first byte takes the place of the "*", the second that
\* of the dot, without which the name has no type.
PrintedName(f) ==
  IF aargs.archive_names THEN f.name
  ELSE [base |-> IF Piece(f) = <<>> THEN "*" ELSE Piece(f)[1],
        type |-> IF Len(Piece(f)) < 2 THEN f.name.type ELSE "bytes"]

\* A copy: the name goes before the first piece, which is empty for an empty file,
\* and a mark before the others.
ArchivePiece ==
  /\ phase = "build" /\ input # <<>> /\ ~Links
  /\ LET f    == Head(input)
         p    == Piece(f)
         name == IF offset = 0 THEN PrintedName(f) ELSE Continued
         last == offset + Len(p) = Len(f.bytes)
     IN  /\ arch' = arch \o <<Item("copy", Len(p), name, NULL)>> \o Bytes(p)
         /\ input' = IF last THEN Tail(input) ELSE input
         /\ offset' = IF last THEN 0 ELSE offset + Len(p)
  /\ UNCHANGED <<aargs, phase, cut, time, splitVars>>

\* A link has a date stamp.
ArchiveLink ==
  /\ phase = "build" /\ input # <<>> /\ Links
  /\ arch' = Append(arch, Item("link", time[Head(input).name], Head(input).name, NULL))
  /\ input' = Tail(input)
  /\ UNCHANGED <<aargs, phase, offset, cut, time, splitVars>>

\* build_archive gives up: the archive cannot be opened, or the next file cannot
\* be opened, or a piece of it cannot be written.  The driver removes what there is.
BuildFails ==
  /\ phase = "build"
  /\ arch = <<Header>> \/ (input # <<>> /\ ~Links)
  /\ phase' = "failed"
  /\ UNCHANGED <<buildVars, cut, time, splitVars>>

ArchivedOptions ==
  IF aargs.archive_options
  THEN [i \in DOMAIN aargs.options |-> Item("option", 0, NULL, aargs.options[i])] ELSE <<>>

ArchiveOptions ==
  /\ phase = "build" /\ input = <<>>
  /\ arch' = arch \o <<Trailer>> \o ArchivedOptions
  /\ cut' = Len(arch')
  /\ phase' = "stored"
  /\ UNCHANGED <<aargs, input, offset, time, splitVars>>

\* What may happen to an archive: its end gets lost, if not before then when it is
\* written, as only the pieces of files are checked, and files it links to change.
Truncate ==
  /\ phase = "stored" /\ cut = Len(arch)
  /\ cut' \in 0 .. Len(arch) - 1
  /\ UNCHANGED <<buildVars, phase, time, splitVars>>

Touch(n) ==
  /\ phase = "stored" /\ n \in DOMAIN time /\ time[n] = 1
  /\ time' = [time EXCEPT ![n] = 2]
  /\ UNCHANGED <<buildVars, phase, cut, splitVars>>

--------------------------------------------------------------------------------
(* split_archive *)

\* The archive is opened and its header looked at.
OpenArchive ==
  /\ phase = "stored"
  /\ IF cut = 0 THEN phase' = "done" /\ result' = 1 /\ UNCHANGED pos
     ELSE phase' = "split" /\ pos' = 2 /\ UNCHANGED result
  /\ UNCHANGED <<buildVars, cut, time, current, output, extracted, found, made, warned>>

\* An archive that is not there: fclose is called with a nil pointer.
MissingArchive ==
  /\ phase = "stored"
  /\ phase' = "crashed"
  /\ UNCHANGED <<buildVars, cut, time, splitVars>>

Entry == arch[pos]

\* archive_error: split_archive gives up.
SplitError ==
  /\ phase' = "done" /\ result' = 1
  /\ UNCHANGED <<buildVars, cut, time, pos, current, output, extracted, found, made, warned>>

\* find_type_suffix: a type that is only used inside tcc fails an assertion.
Dummy(t) == t = "b"

\* The contents that follow a line for n bytes; fewer, if the archive ends first.
ReadBytes(n) == SubSeq(arch, pos + 1, IF pos + n > cut THEN cut ELSE pos + n)

\* read_file with "ab".
Appended(old, bs) == old \o bs

\* The name under which a file is extracted: hidden names are made up anew.
ExtractedName(n) ==
  IF n.base # "*" THEN [base |-> n.base, type |-> n.type, no |-> 0]
  ELSE [base |-> "_tcc", type |-> n.type, no |-> made + 1]

ExtractCopy ==
  /\ phase = "split" /\ pos <= cut /\ Entry.k = "copy" /\ ~Dummy(Entry.name.type)
  /\ LET bs   == [i \in DOMAIN ReadBytes(Entry.n) |-> ReadBytes(Entry.n)[i].b]
         more == Entry.name = Continued
         q    == IF more THEN current ELSE ExtractedName(Entry.name)
         whole == Len(bs) = Entry.n
     IN  IF more /\ current = NULL THEN SplitError
         ELSE /\ current' = q
              /\ output' = IF more THEN output ELSE Append(output, q)
              /\ extracted' = [n \in DOMAIN extracted \cup {q} |->
                   IF n # q THEN extracted[n] ELSE IF more THEN Appended(extracted[q], bs) ELSE bs]
              /\ made' = IF ~more /\ Entry.name.base = "*" THEN made + 1 ELSE made
              /\ pos' = pos + Entry.n + 1
              /\ IF whole THEN UNCHANGED <<phase, result>> ELSE phase' = "done" /\ result' = 1
              /\ UNCHANGED <<buildVars, cut, time, found, warned>>

\* Mutant of DateChanged: only a file that has grown older is reported.
DateBefore(ad, fd) == ad # 0 /\ fd # 0 /\ fd < ad

\* The date stamp in the archive and that of the file; zero is no date.
DateChanged(ad, fd) == ad # 0 /\ fd # 0 /\ ad # fd

ExtractLink ==
  /\ phase = "split" /\ pos <= cut /\ Entry.k = "link" /\ ~Dummy(Entry.name.type)
  /\ LET q == [base |-> Entry.name.base, type |-> Entry.name.type, no |-> 0] IN
     /\ current' = q /\ output' = Append(output, q)
     /\ warned' = IF DateChanged(Entry.n, time[Entry.name]) THEN warned \cup {Entry.name} ELSE warned
  /\ pos' = pos + 1
  /\ UNCHANGED <<buildVars, phase, cut, time, extracted, found, made, result>>

AssertFails ==
  /\ phase = "split" /\ pos <= cut /\ Entry.k \in {"copy", "link"} /\ Dummy(Entry.name.type)
  /\ phase' = "aborted"
  /\ UNCHANGED <<buildVars, cut, time, splitVars>>

\* Mutant of AtEnd: the end of the archive is as good as its trailer.
AtEndAnywhere == pos > cut \/ Entry.k = "trailer"

\* The files end with the trailer.
AtEnd == pos <= cut /\ Entry.k = "trailer"

\* The options go up to the end of the archive.
ExtractOptions ==
  /\ phase = "split" /\ AtEnd
  /\ found' = [i \in 1 .. cut - pos |-> arch[pos + i].b]
  /\ phase' = "done" /\ result' = 0
  /\ UNCHANGED <<buildVars, cut, time, pos, current, output, extracted, made, warned>>

PrematureEnd == phase = "split" /\ pos > cut /\ ~AtEnd /\ SplitError

ArchiveDone == phase \in {"failed", "done", "crashed", "aborted"} /\ UNCHANGED archiveVars

ArchiveNext ==
  \/ ArchivePiece \/ ArchiveLink \/ BuildFails \/ ArchiveOptions
  \/ Truncate \/ (\E n \in DOMAIN time : Touch(n))
  \/ OpenArchive \/ MissingArchive \/ ExtractCopy \/ ExtractLink \/ AssertFails
  \/ ExtractOptions \/ PrematureEnd \/ ArchiveDone

ArchiveSpec == ArchiveInit /\ [][ArchiveNext]_archiveVars

--------------------------------------------------------------------------------
(* Properties *)

NamesDiffer ==
  \A i, j \in DOMAIN aargs.files : aargs.files[i].name = aargs.files[j].name => i = j

\* An archive that split_archive accepts has been taken apart into the files it was
\* made from, with their types and contents, and, if nothing of it was lost, the
\* options: whatever the sizes of the files are to the buffer, and wherever the
\* archive was cut off.  Files of one name in different directories are not told
\* apart.
SplitUndoesBuild ==
  result = 0 /\ ~Links /\ NamesDiffer =>
    /\ Len(output) = Len(aargs.files)
    /\ \A i \in DOMAIN output :
         /\ output[i].type = aargs.files[i].name.type
         /\ extracted[output[i]] = aargs.files[i].bytes
    /\ cut = Len(arch) /\ aargs.archive_options => found = aargs.options

\* A file that is linked to and has changed since is reported.
ChangesNoticed ==
  result = 0 /\ Links =>
    warned = {f.name : f \in {g \in ToSet(aargs.files) : time[g.name] # 1}}
===============================================================================
