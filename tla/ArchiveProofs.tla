---------------------------- MODULE ArchiveProofs ---------------------------
(***************************************************************************)
(* Proofs about TDF archives, for any files, options, names and any size   *)
(* of the buffer.                                                          *)
(***************************************************************************)
EXTENDS Archive, SequenceTheorems, TLAPS

File == [name : Name, bytes : Seq(STRING)]

\* A hidden name, as it is printed.
Hidden == [base : STRING \cup {"*"}, type : {"j", "b", "k", "bytes"}]

\* What may be in an archive.
Line ==
  [k : {"header", "trailer", "copy", "link", "byte", "option"}, n : Nat,
   name : Name \cup Hidden \cup {Continued, NULL}, b : STRING \cup {NULL}]

FileNames == {f.name : f \in ToSet(aargs.files)}

ArchiveTypeOK ==
  /\ aargs \in ArchiveArg
  /\ phase \in {"build", "failed", "stored", "split", "done", "crashed", "aborted"}
  /\ input \in Seq(File) /\ offset \in Nat
  /\ arch \in Seq(Line) /\ cut \in Nat
  /\ time \in [FileNames -> {1, 2}]
  /\ pos \in Nat \ {0} /\ made \in Nat

\* The files still to be archived are the last ones; nothing is split before the
\* archive is stored.
Progress ==
  /\ Len(input) <= Len(aargs.files)
  /\ \A i \in 1 .. Len(input) : input[i] = aargs.files[Len(aargs.files) - Len(input) + i]
  /\ phase = "build" => time = [n \in FileNames |-> 1]
  /\ phase \in {"build", "stored"} => output = <<>> /\ made = 0 /\ warned = {}
  /\ phase \in {"stored", "split"} => cut <= Len(arch)
  /\ phase # "done" => result = NULL
  /\ offset = 0 \/ (~Links /\ input # <<>> /\ offset < Len(input[1].bytes))

ArchiveTyped == ArchiveTypeOK /\ Progress

-----------------------------------------------------------------------------
LEMMA ItemIsLine ==
  ASSUME NEW k \in {"header", "trailer", "copy", "link", "byte", "option"}, NEW n \in Nat,
         NEW nm \in Name \cup Hidden \cup {Continued, NULL}, NEW b \in STRING \cup {NULL}
  PROVE  Item(k, n, nm, b) \in Line
BY DEF Item, Line

LEMMA BytesAreLines ==
  ASSUME NEW bs \in Seq(STRING)
  PROVE  Bytes(bs) \in Seq(Line) /\ Len(Bytes(bs)) = Len(bs)
<1>1. \A i \in 1 .. Len(bs) : Item("byte", 0, NULL, bs[i]) \in Line
  <2> TAKE i \in 1 .. Len(bs)
  <2>1. bs[i] \in STRING
    OBVIOUS
  <2>2. QED
    BY <2>1 DEF Item, Line
<1>2. Bytes(bs) = [i \in 1 .. Len(bs) |-> Item("byte", 0, NULL, bs[i])]
  BY DEF Bytes
<1>3. Bytes(bs) \in Seq(Line)
  BY <1>1, <1>2, IsASeq
<1>4. QED
  BY <1>2, <1>3, LenProperties

LEMMA TrailerLine == <<Trailer>> \in Seq(Line)
<1>1. Trailer \in Line
  BY DEF Trailer, Item, Line
<1>2. QED
  BY <1>1

LEMMA OptionLines ==
  ASSUME ArchiveTyped
  PROVE  /\ ArchivedOptions \in Seq(Line)
         /\ aargs.archive_options =>
              /\ Len(ArchivedOptions) = Len(aargs.options)
              /\ \A i \in 1 .. Len(aargs.options) : ArchivedOptions[i].b = aargs.options[i]
<1>1. aargs.options \in Seq(STRING)
  BY DEF ArchiveTyped, ArchiveTypeOK, ArchiveArg
<1>2. \A i \in 1 .. Len(aargs.options) : Item("option", 0, NULL, aargs.options[i]) \in Line
  <2> TAKE i \in 1 .. Len(aargs.options)
  <2>1. aargs.options[i] \in STRING
    BY <1>1
  <2>2. QED
    BY <2>1 DEF Item, Line
<1>3. DOMAIN aargs.options = 1 .. Len(aargs.options) /\ Len(aargs.options) \in Nat
  BY <1>1
<1>4. PICK os : os = [i \in 1 .. Len(aargs.options) |-> Item("option", 0, NULL, aargs.options[i])]
  OBVIOUS
<1>5. os \in Seq(Line)
  BY <1>2, <1>3, <1>4, IsASeq
<1>6. Len(os) = Len(aargs.options)
  BY <1>3, <1>4, <1>5, LenProperties
<1>7. \A i \in 1 .. Len(aargs.options) : os[i].b = aargs.options[i]
  BY <1>4 DEF Item
<1>8. ArchivedOptions = IF aargs.archive_options THEN os ELSE <<>>
  BY <1>3, <1>4 DEF ArchivedOptions
<1>9. <<>> \in Seq(Line)
  OBVIOUS
<1>10. QED
  BY <1>5, <1>6, <1>7, <1>8, <1>9

\* What a step of build_archive finds.
LEMMA HeadOfInput ==
  ASSUME ArchiveTyped, input # <<>>
  PROVE  /\ Head(input) \in File /\ Head(input) = input[1]
         /\ Len(input) \in 1 .. Len(aargs.files)
         /\ Head(input) = aargs.files[Len(aargs.files) - Len(input) + 1]
         /\ Head(input).name \in FileNames
         /\ Tail(input) \in Seq(File) /\ Len(Tail(input)) = Len(input) - 1
         /\ \A i \in 1 .. Len(input) - 1 : Tail(input)[i] = input[i + 1]
<1>1. Len(input) \in Nat /\ Len(input) # 0 /\ aargs.files \in Seq(File) /\ Len(aargs.files) \in Nat
  BY EmptySeq DEF ArchiveTyped, ArchiveTypeOK, ArchiveArg, File
<1>2. /\ Head(input) \in File /\ Head(input) = input[1]
      /\ Tail(input) \in Seq(File) /\ Len(Tail(input)) = Len(input) - 1
      /\ \A i \in 1 .. Len(input) - 1 : Tail(input)[i] = input[i + 1]
  BY HeadTailProperties DEF ArchiveTyped, ArchiveTypeOK
<1>3. Len(input) \in 1 .. Len(aargs.files)
  BY <1>1 DEF ArchiveTyped, Progress
<1>4. Head(input) = aargs.files[Len(aargs.files) - Len(input) + 1]
  BY <1>1, <1>2, <1>3 DEF ArchiveTyped, Progress
<1>5. Head(input) \in ToSet(aargs.files)
  BY <1>1, <1>3, <1>4 DEF ToSet
<1>6. QED
  BY <1>1, <1>2, <1>3, <1>4, <1>5 DEF FileNames

\* The piece that is read next: not empty, unless the file is.
LEMMA PieceIs ==
  ASSUME NEW f \in File, offset \in Nat, offset <= Len(f.bytes)
  PROVE  /\ Piece(f) \in Seq(STRING)
         /\ offset + Len(Piece(f)) <= Len(f.bytes)
         /\ \A i \in 1 .. Len(Piece(f)) : Piece(f)[i] = f.bytes[offset + i]
         /\ Len(Piece(f)) = 0 => offset = Len(f.bytes)
<1> PICK m : m = IF offset + buffer_size > Len(f.bytes) THEN Len(f.bytes) ELSE offset + buffer_size
  OBVIOUS
<1>1. f.bytes \in Seq(STRING) /\ Len(f.bytes) \in Nat /\ buffer_size \in Nat \ {0}
  BY ArchiveAssumption DEF File
<1>2. m \in Nat /\ offset <= m /\ m <= Len(f.bytes) /\ (m = offset => offset = Len(f.bytes))
  BY <1>1
<1>3. Piece(f) = SubSeq(f.bytes, offset + 1, m)
  BY DEF Piece
<1>4. \A i \in offset + 1 .. m : f.bytes[i] \in STRING
  BY <1>1, <1>2
<1>5. /\ Piece(f) \in Seq(STRING)
      /\ Len(Piece(f)) = IF offset + 1 <= m THEN m - (offset + 1) + 1 ELSE 0
      /\ \A i \in 1 .. m - (offset + 1) + 1 : Piece(f)[i] = f.bytes[(offset + 1) + i - 1]
  BY <1>2, <1>3, <1>4, SubSeqProperties
<1>6. Len(Piece(f)) = m - offset
  BY <1>2, <1>5
<1>7. \A i \in 1 .. m - offset : Piece(f)[i] = f.bytes[offset + i]
  BY <1>2, <1>5
<1>8. QED
  BY <1>1, <1>2, <1>5, <1>6, <1>7

-----------------------------------------------------------------------------
\* The types and the order of the phases: one step per action.
LEMMA TypedInit == ArchiveInit => ArchiveTyped
<1> SUFFICES ASSUME ArchiveInit PROVE ArchiveTyped
  OBVIOUS
<1>1. aargs \in ArchiveArg /\ aargs.files \in Seq(File) /\ Len(aargs.files) \in Nat
  <2>1. aargs \in ArchiveArg
    BY ArchiveAssumption DEF ArchiveInit
  <2>2. QED
    BY <2>1 DEF ArchiveArg, File
<1>2. Header \in Line
  BY DEF Header, Item, Line
<1>3. <<Header>> \in Seq(Line)
  BY <1>2
<1>4. ArchiveTypeOK
  BY <1>1, <1>3 DEF ArchiveInit, ArchiveTypeOK, FileNames
<1>5. Progress
  BY <1>1 DEF ArchiveInit, Progress, FileNames
<1>6. QED
  BY <1>4, <1>5 DEF ArchiveTyped

LEMMA TypedSplit ==
  ASSUME ArchiveTyped, UNCHANGED <<buildVars, cut, time>>, phase \in {"stored", "split"},
         phase' \in {"split", "done", "crashed", "aborted"}, pos' \in Nat \ {0}, made' \in Nat,
         phase' # "done" => UNCHANGED result
  PROVE  ArchiveTyped'
<1>1. FileNames' = FileNames
  BY DEF FileNames, buildVars
<1>2. ArchiveTypeOK'
  BY <1>1 DEF ArchiveTyped, ArchiveTypeOK, buildVars
<1>3. Progress'
  BY <1>1 DEF ArchiveTyped, Progress, Links, buildVars
<1>4. QED
  BY <1>2, <1>3 DEF ArchiveTyped

\* What is at the place where split_archive is.
LEMMA EntryTyped ==
  ASSUME ArchiveTyped, phase = "split", pos <= cut
  PROVE  Entry \in Line /\ pos \in 1 .. Len(arch)
<1>1. pos \in Nat \ {0} /\ cut \in Nat /\ cut <= Len(arch) /\ arch \in Seq(Line) /\ Len(arch) \in Nat
  BY DEF ArchiveTyped, ArchiveTypeOK, Progress
<1>2. pos \in 1 .. Len(arch)
  BY <1>1
<1>3. QED
  BY <1>1, <1>2 DEF Entry

\* Until the archive is stored.
LEMMA TypedBuild ==
  ASSUME ArchiveTyped, phase = "build", UNCHANGED <<aargs, time, splitVars>>,
         phase' \in {"build", "failed", "stored"}, input' \in {input, Tail(input)},
         input' # input => input # <<>>, offset' \in Nat, arch' \in Seq(Line), cut' \in Nat,
         phase' = "stored" => cut' <= Len(arch'),
         offset' = 0 \/ (~Links /\ input' # <<>> /\ offset' < Len(input'[1].bytes))
  PROVE  ArchiveTyped'
<1>1. FileNames' = FileNames
  BY DEF FileNames
<1>2. input \in Seq(File) /\ Len(input) \in Nat /\ aargs.files \in Seq(File) /\ Len(aargs.files) \in Nat
  BY DEF ArchiveTyped, ArchiveTypeOK, ArchiveArg, File
<1>3. /\ input' \in Seq(File) /\ Len(input') <= Len(aargs.files)
      /\ \A i \in 1 .. Len(input') : input'[i] = aargs.files[Len(aargs.files) - Len(input') + i]
  <2>1. CASE input' = input
    BY <2>1 DEF ArchiveTyped, ArchiveTypeOK, Progress
  <2>2. CASE input' # input
    <3>1. input # <<>> /\ input' = Tail(input)
      BY <2>2
    <3>2. /\ Tail(input) \in Seq(File) /\ Len(Tail(input)) = Len(input) - 1
          /\ Len(input) \in 1 .. Len(aargs.files)
          /\ \A i \in 1 .. Len(input) - 1 : Tail(input)[i] = input[i + 1]
      BY <3>1, HeadOfInput
    <3>3. \A i \in 1 .. Len(input) - 1 :
            input[i + 1] = aargs.files[Len(aargs.files) - Len(input) + (i + 1)]
      <4>1. \A i \in 1 .. Len(input) - 1 : i + 1 \in 1 .. Len(input)
        BY <1>2
      <4>2. QED
        BY <4>1 DEF ArchiveTyped, Progress
    <3>4. PICK L \in Nat, N \in Nat : L = Len(input) /\ N = Len(aargs.files)
      BY <1>2
    <3>5. \A i \in 1 .. L - 1 : i + 1 \in 1 .. L /\ N - (L - 1) + i = N - L + (i + 1)
      <4>1. L \in Int /\ N \in Int
        BY <3>4
      <4>2. QED
        BY <4>1
    <3>6. \A i \in 1 .. L - 1 : Tail(input)[i] = aargs.files[N - (L - 1) + i]
      BY <3>2, <3>3, <3>4, <3>5
    <3>7. L - 1 <= N
      BY <3>2, <3>4
    <3>8. QED
      BY <3>1, <3>2, <3>4, <3>6, <3>7
  <2>3. QED
    BY <2>1, <2>2
<1>4. ArchiveTypeOK'
  BY <1>1, <1>3 DEF ArchiveTyped, ArchiveTypeOK, splitVars
<1>5. Progress'
  BY <1>1, <1>3 DEF ArchiveTyped, Progress, splitVars, Links
<1>6. QED
  BY <1>4, <1>5 DEF ArchiveTyped

LEMMA TypedStep ==
  ASSUME ArchiveTyped, [ArchiveNext]_archiveVars
  PROVE  ArchiveTyped'
<1>0. CASE BuildFails
  BY <1>0, TypedBuild DEF BuildFails, buildVars, ArchiveTyped, ArchiveTypeOK, Progress
<1>1. CASE ArchivePiece
  <2> DEFINE f    == Head(input)
             p    == Piece(f)
             name == IF offset = 0 THEN PrintedName(f) ELSE Continued
  <2>1. phase = "build" /\ input # <<>> /\ ~Links
    BY <1>1 DEF ArchivePiece
  <2>2. f \in File /\ f = input[1] /\ offset \in Nat /\ arch \in Seq(Line)
    BY <2>1, HeadOfInput DEF ArchiveTyped, ArchiveTypeOK
  <2>3. p \in Seq(STRING) /\ Len(p) \in Nat /\ offset + Len(p) <= Len(f.bytes) /\ Len(f.bytes) \in Nat
    <3>1. Len(f.bytes) \in Nat
      BY <2>2 DEF File
    <3>2. offset <= Len(f.bytes)
      BY <2>2, <3>1 DEF ArchiveTyped, Progress
    <3>3. QED
      BY <2>2, <3>1, <3>2, PieceIs
  <2>4. f.name \in Name
    BY <2>2 DEF File
  <2>5. name \in Name \cup Hidden \cup {Continued, NULL}
    <3>1. f.name.type \in {"j", "b", "k", "bytes"}
      BY <2>4 DEF Name
    <3>2. p # <<>> => p[1] \in STRING
      BY <2>3
    <3>3. CASE aargs.archive_names
      BY <2>4, <3>3 DEF PrintedName
    <3>4. CASE ~aargs.archive_names
      <4>1. PICK b, ty : /\ b = IF p = <<>> THEN "*" ELSE p[1]
                         /\ ty = IF Len(p) < 2 THEN f.name.type ELSE "bytes"
        OBVIOUS
      <4>2. b \in STRING \cup {"*"} /\ ty \in {"j", "b", "k", "bytes"}
        <5>1. b = "*" \/ (p # <<>> /\ b = p[1])
          BY <4>1
        <5>2. b \in STRING \cup {"*"}
          BY <3>2, <5>1
        <5>3. ty = f.name.type \/ ty = "bytes"
          BY <4>1
        <5>4. QED
          BY <3>1, <5>2, <5>3
      <4>3. PrintedName(f) = [base |-> b, type |-> ty]
        BY <3>4, <4>1 DEF PrintedName
      <4>4. QED
        BY <4>2, <4>3 DEF Hidden
    <3>5. QED
      BY <3>3, <3>4
  <2>6. Item("copy", Len(p), name, NULL) \in Line
    BY <2>3, <2>5 DEF Item, Line
  <2>7. Bytes(p) \in Seq(Line)
    BY <2>3, BytesAreLines
  <2>8. arch \o <<Item("copy", Len(p), name, NULL)>> \o Bytes(p) \in Seq(Line)
    BY <2>2, <2>6, <2>7, ConcatProperties
  <2>9. arch' \in Seq(Line) /\ input' \in {input, Tail(input)} /\ offset' \in Nat
        /\ (offset' = 0 \/ (~Links /\ input' # <<>> /\ offset' < Len(input'[1].bytes)))
    <3>1. arch' \in Seq(Line)
      BY <1>1, <2>8 DEF ArchivePiece
    <3>2. input' \in {input, Tail(input)} /\ offset' \in Nat
      BY <1>1, <2>2, <2>3 DEF ArchivePiece
    <3>3. offset' = 0 \/ (input' = input /\ offset' < Len(f.bytes))
      BY <1>1, <2>2, <2>3 DEF ArchivePiece
    <3>4. QED
      BY <2>1, <2>2, <3>1, <3>2, <3>3
  <2>10. UNCHANGED <<aargs, phase, cut, time, splitVars>>
    BY <1>1 DEF ArchivePiece
  <2>11. QED
    BY <2>1, <2>9, <2>10, TypedBuild DEF ArchiveTyped, ArchiveTypeOK
<1>2. CASE ArchiveLink
  <2>1. phase = "build" /\ input # <<>> /\ Links
    BY <1>2 DEF ArchiveLink
  <2>2. Head(input) \in File /\ Head(input).name \in FileNames
    BY <2>1, HeadOfInput
  <2>3. time[Head(input).name] \in Nat /\ Head(input).name \in Name
    <3>1. time[Head(input).name] \in {1, 2}
      BY <2>2 DEF ArchiveTyped, ArchiveTypeOK
    <3>2. Head(input).name \in Name
      BY <2>2 DEF File
    <3>3. QED
      BY <3>1, <3>2
  <2>4. Item("link", time[Head(input).name], Head(input).name, NULL) \in Line
    BY <2>3 DEF Item, Line
  <2>5. arch' \in Seq(Line)
    BY <1>2, <2>4, AppendProperties DEF ArchiveLink, ArchiveTyped, ArchiveTypeOK
  <2>6. input' = Tail(input) /\ UNCHANGED <<aargs, phase, offset, cut, time, splitVars>>
    BY <1>2 DEF ArchiveLink
  <2>7. QED
    BY <2>1, <2>5, <2>6, TypedBuild DEF ArchiveTyped, ArchiveTypeOK, Progress
<1>3. CASE ArchiveOptions
  <2>1. ArchivedOptions \in Seq(Line) /\ <<Trailer>> \in Seq(Line)
    BY OptionLines, TrailerLine
  <2>4. arch \o <<Trailer>> \o ArchivedOptions \in Seq(Line)
    BY <2>1, ConcatProperties DEF ArchiveTyped, ArchiveTypeOK
  <2>5. arch' \in Seq(Line) /\ cut' = Len(arch')
    BY <1>3, <2>4 DEF ArchiveOptions
  <2>6. cut' \in Nat /\ cut' <= Len(arch')
    BY <2>5
  <2>7. phase = "build" /\ phase' = "stored" /\ UNCHANGED <<aargs, input, offset, time, splitVars>>
    BY <1>3 DEF ArchiveOptions
  <2>8. QED
    BY <2>5, <2>6, <2>7, TypedBuild DEF ArchiveTyped, ArchiveTypeOK, Progress
<1>4. CASE Truncate
  <2>1. FileNames' = FileNames
    BY <1>4 DEF Truncate, FileNames, buildVars
  <2>2. cut' \in Nat /\ cut' <= Len(arch)
    BY <1>4 DEF Truncate, ArchiveTyped, ArchiveTypeOK
  <2>3. ArchiveTypeOK'
    BY <1>4, <2>1, <2>2 DEF Truncate, ArchiveTyped, ArchiveTypeOK, buildVars, splitVars
  <2>4. Progress'
    BY <1>4, <2>1, <2>2 DEF Truncate, ArchiveTyped, Progress, Links, buildVars, splitVars
  <2>5. QED
    BY <2>3, <2>4 DEF ArchiveTyped
<1>5. ASSUME NEW n \in DOMAIN time, Touch(n) PROVE ArchiveTyped'
  <2>1. FileNames' = FileNames
    BY <1>5 DEF Touch, FileNames, buildVars
  <2>2. time' \in [FileNames -> {1, 2}]
    BY <1>5 DEF Touch, ArchiveTyped, ArchiveTypeOK
  <2>3. ArchiveTypeOK'
    BY <1>5, <2>1, <2>2 DEF Touch, ArchiveTyped, ArchiveTypeOK, buildVars, splitVars
  <2>4. Progress'
    BY <1>5, <2>1 DEF Touch, ArchiveTyped, Progress, Links, buildVars, splitVars
  <2>5. QED
    BY <2>3, <2>4 DEF ArchiveTyped
<1>6. CASE OpenArchive
  <2>1. /\ UNCHANGED <<buildVars, cut, time, made>> /\ phase = "stored"
        /\ phase' \in {"split", "done"} /\ pos' \in {pos, 2} /\ (phase' # "done" => UNCHANGED result)
    BY <1>6 DEF OpenArchive
  <2>2. pos' \in Nat \ {0} /\ made' \in Nat
    BY <2>1 DEF ArchiveTyped, ArchiveTypeOK
  <2>3. QED
    BY <2>1, <2>2, TypedSplit
<1>7. CASE MissingArchive
  BY <1>7, TypedSplit DEF MissingArchive, ArchiveTyped, ArchiveTypeOK, splitVars
<1>8. CASE ExtractCopy
  <2>1. phase = "split" /\ pos <= cut
    BY <1>8 DEF ExtractCopy
  <2>2. Entry.n \in Nat
    BY <2>1, EntryTyped DEF Line
  <2>3. UNCHANGED <<buildVars, cut, time>> /\ (phase' = "done" \/ UNCHANGED <<phase, result>>)
        /\ pos' \in {pos, pos + Entry.n + 1} /\ made' \in {made, made + 1}
    BY <1>8 DEF ExtractCopy, SplitError
  <2>4. pos' \in Nat \ {0} /\ made' \in Nat
    BY <2>2, <2>3 DEF ArchiveTyped, ArchiveTypeOK
  <2>5. phase' \in {"split", "done"} /\ (phase' # "done" => UNCHANGED result)
    BY <2>1, <2>3
  <2>6. QED
    BY <2>1, <2>3, <2>4, <2>5, TypedSplit
<1>9. CASE ExtractLink
  <2>1. /\ UNCHANGED <<buildVars, phase, cut, time, made, result>> /\ phase = "split"
        /\ pos' = pos + 1
    BY <1>9 DEF ExtractLink
  <2>2. pos' \in Nat \ {0} /\ made' \in Nat
    BY <2>1 DEF ArchiveTyped, ArchiveTypeOK
  <2>3. QED
    BY <2>1, <2>2, TypedSplit
<1>10. CASE AssertFails
  BY <1>10, TypedSplit DEF AssertFails, ArchiveTyped, ArchiveTypeOK, splitVars
<1>11. CASE ExtractOptions
  BY <1>11, TypedSplit DEF ExtractOptions, ArchiveTyped, ArchiveTypeOK
<1>12. CASE PrematureEnd
  BY <1>12, TypedSplit DEF PrematureEnd, SplitError, ArchiveTyped, ArchiveTypeOK
<1>13. CASE UNCHANGED archiveVars
  <2>1. FileNames' = FileNames
    BY <1>13 DEF archiveVars, FileNames
  <2>2. QED
    BY <1>13, <2>1 DEF archiveVars, ArchiveTyped, ArchiveTypeOK, Progress, Links
<1>14. QED
  BY <1>0, <1>1, <1>2, <1>3, <1>4, <1>5, <1>6, <1>7, <1>8, <1>9, <1>10, <1>11, <1>12, <1>13
     DEF ArchiveNext, ArchiveDone

-----------------------------------------------------------------------------
(* Links *)

NoFiles == Len(aargs.files)

LinkLine(f) == Item("link", 1, f.name, NULL)

\* The names of the first n files that have changed.
Changed(n) == {aargs.files[i].name : i \in {j \in 1 .. n : time[aargs.files[j].name] # 1}}

\* With links every file has one line in the archive, and split_archive has
\* reported those that it has passed.
LinkInv ==
  Links =>
    /\ phase = "build" => /\ Len(arch) + Len(input) = NoFiles + 1
                          /\ \A i \in 1 .. Len(arch) - 1 : arch[i + 1] = LinkLine(aargs.files[i])
    /\ phase \in {"stored", "split"} =>
         /\ NoFiles + 2 <= Len(arch) /\ arch[NoFiles + 2] = Trailer
         /\ \A i \in 1 .. NoFiles : arch[i + 1] = LinkLine(aargs.files[i])
    /\ phase = "split" => pos \in 2 .. NoFiles + 2 /\ warned = Changed(pos - 2)
    /\ result = 0 => warned = Changed(NoFiles)

LEMMA NamesAndFiles ==
  ASSUME ArchiveTyped
  PROVE  /\ aargs.files \in Seq(File) /\ NoFiles \in Nat /\ DOMAIN aargs.files = 1 .. NoFiles
         /\ \A i \in 1 .. NoFiles : /\ aargs.files[i] \in File
                                    /\ aargs.files[i].name \in FileNames
                                    /\ time[aargs.files[i].name] \in {1, 2}
<1>1. aargs.files \in Seq(File) /\ NoFiles \in Nat /\ DOMAIN aargs.files = 1 .. NoFiles
  BY DEF ArchiveTyped, ArchiveTypeOK, ArchiveArg, File, NoFiles
<1>2. ASSUME NEW i \in 1 .. NoFiles
      PROVE  aargs.files[i] \in File /\ aargs.files[i].name \in FileNames
             /\ time[aargs.files[i].name] \in {1, 2}
  <2>1. aargs.files[i] \in File /\ aargs.files[i] \in ToSet(aargs.files)
    BY <1>1, <1>2 DEF ToSet, NoFiles
  <2>2. aargs.files[i].name \in FileNames
    BY <2>1 DEF FileNames
  <2>3. QED
    BY <2>1, <2>2 DEF ArchiveTyped, ArchiveTypeOK
<1>3. QED
  BY <1>1, <1>2

\* An invariant of an archive that has been stored survives a step that splits it.
LEMMA LinkLook ==
  ASSUME ArchiveTyped, LinkInv, Links, phase = "split", pos <= cut
  PROVE  \/ pos = NoFiles + 2 /\ Entry = Trailer
         \/ pos - 1 \in 1 .. NoFiles /\ Entry = LinkLine(aargs.files[pos - 1])
<1>1. pos \in 2 .. NoFiles + 2 /\ NoFiles \in Nat /\ arch[NoFiles + 2] = Trailer
      /\ \A i \in 1 .. NoFiles : arch[i + 1] = LinkLine(aargs.files[i])
  BY NamesAndFiles DEF LinkInv
<1>2. CASE pos = NoFiles + 2
  BY <1>1, <1>2 DEF Entry
<1>3. CASE pos # NoFiles + 2
  <2>1. pos - 1 \in 1 .. NoFiles /\ (pos - 1) + 1 = pos
    BY <1>1, <1>3
  <2>2. arch[(pos - 1) + 1] = LinkLine(aargs.files[pos - 1])
    BY <1>1, <2>1
  <2>3. QED
    BY <2>1, <2>2 DEF Entry
<1>4. QED
  BY <1>2, <1>3

LEMMA ChangedNext ==
  ASSUME NEW n \in Nat, NEW x, x = aargs.files[n + 1].name
  PROVE  Changed(n + 1) = IF time[x] # 1 THEN Changed(n) \cup {x} ELSE Changed(n)
<1>1. \A j : j \in 1 .. n + 1 <=> j \in 1 .. n \/ j = n + 1
  OBVIOUS
<1>2. QED
  BY <1>1 DEF Changed

LEMMA LinkInit == ArchiveInit => LinkInv
<1> SUFFICES ASSUME ArchiveInit PROVE LinkInv
  OBVIOUS
<1>1. ArchiveTyped
  BY TypedInit
<1>2. NoFiles \in Nat /\ result # 0
  BY <1>1, NamesAndFiles, ArchiveAssumption DEF ArchiveInit
<1>3. Len(arch) = 1 /\ Len(input) = NoFiles
  BY DEF ArchiveInit, NoFiles
<1>4. QED
  BY <1>2, <1>3 DEF LinkInv, ArchiveInit

\* Before the end nothing has been accepted.
LEMMA NotYet ==
  ASSUME ArchiveTyped, phase # "done"
  PROVE  result # 0
BY ArchiveAssumption DEF ArchiveTyped, Progress

LEMMA LinkStep ==
  ASSUME ArchiveTyped, LinkInv, [ArchiveNext]_archiveVars
  PROVE  LinkInv'
<1> SUFFICES ASSUME Links' PROVE LinkInv'
  BY DEF LinkInv
<1>0. ArchiveTyped' /\ NoFiles \in Nat /\ arch \in Seq(Line) /\ Len(arch) \in Nat
      /\ input \in Seq(File) /\ Len(input) \in Nat
  BY TypedStep, NamesAndFiles DEF ArchiveTyped, ArchiveTypeOK
<1>a. aargs' = aargs /\ NoFiles' = NoFiles /\ Links
  BY DEF ArchiveNext, ArchiveDone, archiveVars, buildVars, ArchivePiece, ArchiveLink, ArchiveOptions,
         BuildFails, Truncate, Touch, OpenArchive, MissingArchive, ExtractCopy, SplitError, ExtractLink,
         AssertFails, ExtractOptions, PrematureEnd, NoFiles, Links
<1>b. \A f : LinkLine(f)' = LinkLine(f)
  BY DEF LinkLine, Item
<1>1. CASE ArchivePiece
  BY <1>a, <1>1 DEF ArchivePiece
<1>2. CASE ArchiveLink
  <2>1. phase = "build" /\ input # <<>> /\ phase' = "build"
    BY <1>2 DEF ArchiveLink
  <2>2. Head(input) = aargs.files[NoFiles - Len(input) + 1] /\ Head(input).name \in FileNames
        /\ Len(Tail(input)) = Len(input) - 1
    BY <2>1, HeadOfInput DEF NoFiles
  <2>3. time[Head(input).name] = 1
    BY <2>1, <2>2 DEF ArchiveTyped, Progress
  <2>4. Len(arch) + Len(input) = NoFiles + 1
        /\ \A i \in 1 .. Len(arch) - 1 : arch[i + 1] = LinkLine(aargs.files[i])
    BY <1>a, <2>1 DEF LinkInv
  <2>5. PICK L \in Nat : L = Len(arch)
    BY <1>0
  <2>6. NoFiles - Len(input) + 1 = L
    BY <1>0, <2>4, <2>5
  <2>7. arch' = Append(arch, LinkLine(aargs.files[L])) /\ input' = Tail(input)
    BY <1>2, <2>2, <2>3, <2>6 DEF ArchiveLink, LinkLine
  <2>8. Len(arch') = L + 1 /\ arch'[L + 1] = LinkLine(aargs.files[L])
        /\ \A i \in 1 .. L : arch'[i] = arch[i]
    BY <1>0, <2>5, <2>7
  <2>9. ASSUME NEW i \in 1 .. L PROVE arch'[i + 1] = LinkLine(aargs.files[i])
    <3>1. CASE i = L
      BY <2>8, <3>1
    <3>2. CASE i # L
      <4>1. i \in 1 .. L - 1 /\ i + 1 \in 1 .. L
        BY <2>5, <2>9, <3>2
      <4>2. QED
        BY <2>4, <2>5, <2>8, <4>1
    <3>3. QED
      BY <3>1, <3>2
  <2>10. Len(arch') + Len(input') = NoFiles + 1
    <3>1. PICK l \in Nat : l = Len(input)
      BY <1>0
    <3>2. L + l = NoFiles + 1 /\ Len(arch') = L + 1 /\ Len(input') = l - 1
      BY <2>2, <2>4, <2>5, <2>7, <2>8, <3>1
    <3>3. (L + 1) + (l - 1) = L + l
      BY <2>5, <3>1
    <3>4. QED
      BY <3>2, <3>3
  <2>11. \A i \in 1 .. Len(arch') - 1 : arch'[i + 1] = LinkLine(aargs.files[i])
    <3>1. Len(arch') - 1 = L
      BY <2>5, <2>8
    <3>2. QED
      BY <2>9, <3>1
  <2>12. result' # 0
    BY <1>0, <2>1, NotYet, ArchiveAssumption DEF ArchiveTyped, Progress
  <2>13. QED
    BY <1>a, <1>b, <2>1, <2>10, <2>11, <2>12 DEF LinkInv
<1>3. CASE ArchiveOptions
  <2>1. phase = "build" /\ input = <<>> /\ phase' = "stored"
        /\ arch' = arch \o <<Trailer>> \o ArchivedOptions
    BY <1>3 DEF ArchiveOptions
  <2>2. Len(arch) = NoFiles + 1
        /\ \A i \in 1 .. NoFiles : arch[i + 1] = LinkLine(aargs.files[i])
    BY <1>0, <1>a, <2>1 DEF LinkInv
  <2>3. PICK t : t = arch \o <<Trailer>>
    OBVIOUS
  <2>4. t \in Seq(Line) /\ ArchivedOptions \in Seq(Line)
    BY <1>0, <2>3, OptionLines, TrailerLine, ConcatProperties
  <2>5. Len(t) = NoFiles + 2 /\ t[NoFiles + 2] = Trailer /\ \A i \in 1 .. NoFiles + 1 : t[i] = arch[i]
    BY <1>0, <2>2, <2>3
  <2>6. Len(t \o ArchivedOptions) >= Len(t) /\ \A i \in 1 .. Len(t) : (t \o ArchivedOptions)[i] = t[i]
    BY <2>4
  <2>7. arch' = t \o ArchivedOptions
    BY <2>1, <2>3
  <2>8. NoFiles + 2 <= Len(arch') /\ arch'[NoFiles + 2] = Trailer
    BY <1>0, <2>5, <2>6, <2>7
  <2>9. ASSUME NEW i \in 1 .. NoFiles PROVE arch'[i + 1] = LinkLine(aargs.files[i])
    <3>1. i + 1 \in 1 .. NoFiles + 1 /\ i + 1 \in 1 .. NoFiles + 2
      BY <1>0
    <3>2. QED
      BY <2>2, <2>5, <2>6, <2>7, <3>1
  <2>10. result' # 0
    BY <1>0, <2>1, ArchiveAssumption DEF ArchiveTyped, Progress
  <2>11. Trailer' = Trailer
    BY DEF Trailer, Item
  <2>12. QED
    BY <1>a, <1>b, <2>1, <2>8, <2>9, <2>10, <2>11 DEF LinkInv
<1>4. CASE Truncate \/ (\E n \in DOMAIN time : Touch(n))
  <2>1. phase = "stored" /\ phase' = "stored" /\ arch' = arch
    BY <1>4 DEF Truncate, Touch, buildVars
  <2>2. result' # 0
    BY <1>0, <2>1, ArchiveAssumption DEF ArchiveTyped, Progress
  <2>3. QED
    BY <1>a, <1>b, <2>1, <2>2 DEF LinkInv, Trailer, Item
<1>5. CASE OpenArchive
  <2>1. /\ phase = "stored" /\ phase' \in {"split", "done"} /\ arch' = arch /\ warned' = warned
        /\ phase' = "split" => pos' = 2
        /\ phase' = "done" => result' = 1
    BY <1>5 DEF OpenArchive, buildVars
  <2>2. result' # 0
    BY <1>0, <2>1, ArchiveAssumption DEF ArchiveTyped, Progress
  <2>3. warned' = {} /\ {j \in 1 .. 0 : time'[aargs.files[j].name] # 1} = {}
    BY <2>1 DEF ArchiveTyped, Progress
  <2>4. phase' = "split" => pos' \in 2 .. NoFiles + 2 /\ pos' - 2 = 0
    BY <1>0, <2>1
  <2>5. phase' = "split" => warned' = Changed(pos - 2)'
    BY <1>a, <2>3, <2>4 DEF Changed
  <2>6. QED
    BY <1>a, <1>b, <2>1, <2>2, <2>4, <2>5 DEF LinkInv, Trailer, Item
<1>6. CASE BuildFails \/ MissingArchive \/ AssertFails
  <2>1. phase' \in {"failed", "crashed", "aborted"}
    BY <1>6 DEF BuildFails, MissingArchive, AssertFails
  <2>2. result' # 0
    BY <1>0, <2>1, ArchiveAssumption DEF ArchiveTyped, Progress
  <2>3. QED
    BY <2>1, <2>2 DEF LinkInv
<1>7. CASE ExtractCopy
  <2>1. phase = "split" /\ pos <= cut /\ Entry.k = "copy"
    BY <1>7 DEF ExtractCopy
  <2>2. QED
    BY <1>a, <2>1, LinkLook DEF Trailer, LinkLine, Item
<1>8. CASE ExtractLink
  <2>1. phase = "split" /\ phase' = "split" /\ pos <= cut /\ Entry.k = "link" /\ pos' = pos + 1
        /\ time' = time /\ arch' = arch
        /\ warned' = IF DateChanged(Entry.n, time[Entry.name]) THEN warned \cup {Entry.name} ELSE warned
    BY <1>8 DEF ExtractLink, buildVars
  <2>2. pos - 1 \in 1 .. NoFiles /\ Entry = LinkLine(aargs.files[pos - 1])
    BY <1>a, <2>1, LinkLook DEF Trailer, Item
  <2>3. PICK x : x = aargs.files[pos - 1].name
    OBVIOUS
  <2>4. Entry.n = 1 /\ Entry.name = x
    BY <2>2, <2>3 DEF LinkLine, Item
  <2>5. time[x] \in {1, 2}
    BY <2>2, <2>3, NamesAndFiles
  <2>6. warned' = IF time[x] # 1 THEN warned \cup {x} ELSE warned
    BY <2>1, <2>4, <2>5 DEF DateChanged
  <2>7. PICK n \in Nat : pos = n + 2
    <3>1. pos \in 2 .. NoFiles + 2
      BY <1>a, <2>1 DEF LinkInv
    <3>2. pos - 2 \in Nat /\ pos = (pos - 2) + 2
      BY <1>0, <3>1
    <3>3. QED
      BY <3>2
  <2>8. pos - 1 = n + 1 /\ pos - 2 = n /\ pos' - 2 = n + 1 /\ pos' \in 2 .. NoFiles + 2
    BY <1>0, <2>1, <2>2, <2>7
  <2>9. warned = Changed(n)
    BY <1>a, <2>1, <2>8 DEF LinkInv
  <2>10. warned' = Changed(n + 1)
    BY <2>3, <2>6, <2>8, <2>9, ChangedNext
  <2>11. Changed(n + 1) = Changed(pos - 2)'
    BY <1>a, <2>1, <2>8 DEF Changed
  <2>12. result' # 0
    BY <1>0, <2>1, ArchiveAssumption DEF ArchiveTyped, Progress
  <2>13. QED
    BY <1>a, <1>b, <2>1, <2>8, <2>10, <2>11, <2>12 DEF LinkInv, Trailer, Item
<1>9. CASE ExtractOptions
  <2>1. phase = "split" /\ phase' = "done" /\ pos <= cut /\ Entry.k = "trailer"
        /\ time' = time /\ warned' = warned
    BY <1>9 DEF ExtractOptions, AtEnd
  <2>2. pos = NoFiles + 2
    BY <1>a, <2>1, LinkLook DEF LinkLine, Item
  <2>3. pos - 2 = NoFiles
    BY <1>0, <2>2
  <2>4. warned = Changed(NoFiles)
    BY <1>a, <2>1, <2>3 DEF LinkInv
  <2>5. Changed(NoFiles)' = Changed(NoFiles)
    BY <1>a, <2>1 DEF Changed
  <2>6. QED
    BY <2>1, <2>4, <2>5 DEF LinkInv
<1>10. CASE PrematureEnd
  BY <1>10 DEF PrematureEnd, SplitError, LinkInv
<1>11. CASE UNCHANGED archiveVars
  <2>1. Changed(NoFiles)' = Changed(NoFiles) /\ Changed(pos - 2)' = Changed(pos - 2)
    BY <1>a, <1>11 DEF Changed, archiveVars
  <2>2. QED
    BY <1>a, <1>b, <1>11, <2>1 DEF LinkInv, archiveVars, Trailer, Item
<1>12. QED
  BY <1>1, <1>2, <1>3, <1>4, <1>5, <1>6, <1>7, <1>8, <1>9, <1>10, <1>11 DEF ArchiveNext, ArchiveDone

\* A link that changed is reported (split_archive compares date stamps): if the
\* archive was accepted, exactly the files with another date have been warned of,
\* for any number of links.
THEOREM ChangesNoticedInvariant == ArchiveSpec => []ChangesNoticed
<1>1. ArchiveInit => ArchiveTyped /\ LinkInv
  BY TypedInit, LinkInit
<1>2. ArchiveTyped /\ LinkInv /\ [ArchiveNext]_archiveVars => (ArchiveTyped /\ LinkInv)'
  BY TypedStep, LinkStep
<1>3. ArchiveTyped /\ LinkInv => ChangesNoticed
  <2> SUFFICES ASSUME ArchiveTyped, LinkInv, result = 0, Links
               PROVE  warned = {f.name : f \in {g \in ToSet(aargs.files) : time[g.name] # 1}}
    BY DEF ChangesNoticed
  <2>1. warned = Changed(NoFiles) /\ DOMAIN aargs.files = 1 .. NoFiles
    BY NamesAndFiles DEF LinkInv
  <2>2. QED
    BY <2>1 DEF Changed, ToSet
<1>4. QED
  BY <1>1, <1>2, <1>3, PTL DEF ArchiveSpec

-----------------------------------------------------------------------------
(* Copies *)

\* A place in an archive: where it is, and which file is next, from which byte on.
Mark(a, i, o) == [at |-> a, file |-> i, off |-> o]
Marks == [at : Nat, file : Nat, off : Nat]

\* At the place g of the archive a there is a piece of the right file, whose end is
\* one of the places G.
Copied(as, a, G, g) ==
  LET n == a[g.at].n
      f == as.files[g.file]
  IN  /\ g.file \in 1 .. Len(as.files) /\ n \in Nat /\ g.off + n <= Len(f.bytes)
      /\ a[g.at] = Item("copy", n, IF g.off = 0 THEN f.name ELSE Continued, NULL)
      /\ \A b \in 1 .. n : a[g.at + b].b = f.bytes[g.off + b]
      /\ \/ g.off + n = Len(f.bytes) /\ Mark(g.at + n + 1, g.file + 1, 0) \in G
         \/ g.off + n # 0 /\ Mark(g.at + n + 1, g.file, g.off + n) \in G

\* Up to the place e the archive consists of pieces that follow each other.
Laid(as, a, G, e) ==
  /\ G \subseteq Marks /\ Mark(2, 1, 0) \in G /\ e \in G
  /\ \A g \in G : g = e \/ (g.at # 0 /\ g.at + a[g.at].n < e.at /\ Copied(as, a, G, g))

\* An archive as it is stored: pieces of all files, the trailer and the options.
Stored(as, a, G, t) ==
  /\ Laid(as, a, G, Mark(t, Len(as.files) + 1, 0))
  /\ t <= Len(a) /\ a[t] = Trailer
  /\ as.archive_options => /\ Len(a) = t + Len(as.options)
                           /\ \A i \in 1 .. Len(as.options) : a[t + i].b = as.options[i]

\* Pieces stay where they are while more is written behind them.
LEMMA LaidKept ==
  ASSUME NEW as, NEW a, NEW G, NEW e, NEW c, Laid(as, a, G, e),
         \A p \in Nat : p # 0 /\ p < e.at => c[p] = a[p]
  PROVE  Laid(as, c, G, e)
<1>1. G \subseteq Marks /\ Mark(2, 1, 0) \in G /\ e \in G /\ e.at \in Nat
  BY DEF Laid, Marks
<1>2. ASSUME NEW g \in G, g # e
      PROVE  g.at # 0 /\ g.at + c[g.at].n < e.at /\ Copied(as, c, G, g)
  <2>1. g.at # 0 /\ g.at + a[g.at].n < e.at /\ Copied(as, a, G, g) /\ g.at \in Nat
    BY <1>1, <1>2 DEF Laid, Marks
  <2>2. PICK n : n = a[g.at].n
    OBVIOUS
  <2>3. n \in Nat /\ g.at < e.at /\ \A b \in 1 .. n : g.at + b \in Nat /\ g.at + b # 0 /\ g.at + b < e.at
    <3>1. n \in Nat
      BY <2>1, <2>2 DEF Copied
    <3>2. QED
      BY <1>1, <2>1, <2>2, <3>1
  <2>4. c[g.at] = a[g.at] /\ \A b \in 1 .. n : c[g.at + b] = a[g.at + b]
    BY <2>1, <2>3
  <2>5. QED
    BY <2>1, <2>2, <2>4 DEF Copied
<1>3. QED
  BY <1>1, <1>2 DEF Laid

\* One more piece.
LEMMA LaidMore ==
  ASSUME NEW as, NEW a, NEW G, NEW e, NEW d \in Marks, Laid(as, a, G, e), e.at # 0,
         e.at + a[e.at].n < d.at, Copied(as, a, G \cup {d}, e)
  PROVE  Laid(as, a, G \cup {d}, d)
<1>1. G \subseteq Marks /\ Mark(2, 1, 0) \in G /\ e \in G /\ e.at \in Nat /\ d.at \in Nat
      /\ a[e.at].n \in Nat
  BY DEF Laid, Marks, Copied
<1>2. ASSUME NEW g \in G, g # e
      PROVE  g.at # 0 /\ g.at + a[g.at].n < d.at /\ Copied(as, a, G \cup {d}, g)
  <2>1. g.at # 0 /\ g.at + a[g.at].n < e.at /\ Copied(as, a, G, g) /\ g.at \in Nat /\ a[g.at].n \in Nat
    BY <1>1, <1>2 DEF Laid, Marks, Copied
  <2>2. g.at + a[g.at].n < d.at
    BY <1>1, <2>1
  <2>3. Copied(as, a, G \cup {d}, g)
    BY <2>1 DEF Copied
  <2>4. QED
    BY <2>1, <2>2, <2>3
<1>3. QED
  BY <1>1, <1>2 DEF Laid

\* Which archives are spoken of: those of copies with their names, which differ.
Copies == aargs.archive_names /\ ~Links /\ NamesDiffer

ExtractedNames ==
  [base : STRING \cup {"_tcc"}, type : {"j", "b", "k", "bytes"}, no : Nat]

\* What has been extracted when the file i is next, from its byte o on.
Taken(i, o) ==
  /\ output \in Seq(ExtractedNames)
  /\ Len(output) = IF o = 0 THEN i - 1 ELSE i
  /\ \A j \in 1 .. Len(output) :
       /\ output[j].type = aargs.files[j].name.type
       /\ output[j].no <= made
       /\ output[j].no = 0 => output[j].base = aargs.files[j].name.base
       /\ output[j] \in DOMAIN extracted
       /\ extracted[output[j]] =
            IF j < i THEN aargs.files[j].bytes ELSE [b \in 1 .. o |-> aargs.files[j].bytes[b]]
       /\ \A k \in 1 .. Len(output) : output[k] = output[j] => k = j
  /\ o # 0 => current = output[i]

CopyInv ==
  Copies =>
    /\ phase = "build" =>
         \E G : Laid(aargs, arch, G, Mark(Len(arch) + 1, Len(aargs.files) - Len(input) + 1, offset))
    /\ phase = "stored" => \E G, t : Stored(aargs, arch, G, t)
    /\ phase = "split" =>
         \E G, t, i, o : Stored(aargs, arch, G, t) /\ Mark(pos, i, o) \in G /\ Taken(i, o)
    /\ SplitUndoesBuild

LEMMA CopyInit == ArchiveInit => CopyInv
<1> SUFFICES ASSUME ArchiveInit PROVE CopyInv
  OBVIOUS
<1>1. NoFiles \in Nat /\ result # 0
  BY TypedInit, NamesAndFiles, ArchiveAssumption DEF ArchiveInit
<1>2. Len(arch) + 1 = 2 /\ Len(aargs.files) - Len(input) + 1 = 1 /\ offset = 0
  BY <1>1 DEF ArchiveInit, NoFiles
<1>3. Laid(aargs, arch, {Mark(2, 1, 0)}, Mark(2, 1, 0))
  BY DEF Laid, Mark, Marks
<1>4. QED
  BY <1>1, <1>2, <1>3 DEF CopyInv, SplitUndoesBuild, ArchiveInit

LEMMA CopyPiece ==
  ASSUME ArchiveTyped, CopyInv, Copies, ArchivePiece
  PROVE  \E G : Laid(aargs, arch', G,
                     Mark(Len(arch') + 1, Len(aargs.files) - Len(input') + 1, offset'))
<1> PICK f, p, nm : f = Head(input) /\ p = Piece(f) /\ nm = IF offset = 0 THEN f.name ELSE Continued
  OBVIOUS
<1>1. phase = "build" /\ input # <<>>
  BY DEF ArchivePiece
<1>2. PICK L \in Nat, l \in Nat, N \in Nat : L = Len(arch) /\ l = Len(input) /\ N = Len(aargs.files)
  BY NamesAndFiles DEF ArchiveTyped, ArchiveTypeOK, NoFiles
<1>3. /\ f \in File /\ f = input[1] /\ l \in 1 .. N /\ f = aargs.files[N - l + 1]
      /\ Len(Tail(input)) = l - 1
  BY <1>1, <1>2, HeadOfInput
<1>4. Len(f.bytes) \in Nat /\ offset \in Nat /\ offset <= Len(f.bytes)
  <2>1. Len(f.bytes) \in Nat /\ offset \in Nat
    BY <1>3 DEF File, ArchiveTyped, ArchiveTypeOK
  <2>2. QED
    BY <1>3, <2>1 DEF ArchiveTyped, Progress
<1>5. PICK n \in Nat : n = Len(p)
  BY <1>3, <1>4, PieceIs
<1>6. /\ p \in Seq(STRING) /\ offset + n <= Len(f.bytes)
      /\ \A b \in 1 .. n : p[b] = f.bytes[offset + b]
      /\ n = 0 => offset = Len(f.bytes)
  BY <1>3, <1>4, <1>5, PieceIs
<1>7. PICK c : c = Item("copy", n, nm, NULL)
  OBVIOUS
<1>8. arch' = arch \o <<c>> \o Bytes(p)
  <2>1. aargs.archive_names
    BY DEF Copies
  <2>2. PrintedName(f) = f.name
    BY <2>1 DEF PrintedName
  <2>3. QED
    BY <1>5, <1>7, <2>2 DEF ArchivePiece
<1>9. c \in Line /\ Bytes(p) \in Seq(Line) /\ Len(Bytes(p)) = n /\ arch \in Seq(Line)
  <2>1. nm \in Name \cup {Continued}
    BY <1>3 DEF File
  <2>2. c \in Line
    BY <1>5, <1>7, <2>1 DEF Item, Line
  <2>3. QED
    BY <1>5, <1>6, <2>2, BytesAreLines DEF ArchiveTyped, ArchiveTypeOK
<1>10. PICK h : h = arch \o <<c>>
  OBVIOUS
<1>11. h \in Seq(Line) /\ Len(h) = L + 1 /\ h[L + 1] = c /\ \A i \in 1 .. L : h[i] = arch[i]
  BY <1>2, <1>9, <1>10
<1>12. /\ arch' \in Seq(Line) /\ Len(arch') = L + 1 + n
       /\ \A i \in 1 .. L + 1 : arch'[i] = h[i]
       /\ \A b \in 1 .. n : arch'[L + 1 + b] = Bytes(p)[b]
  <2>1. arch' = h \o Bytes(p)
    BY <1>8, <1>10
  <2>2. /\ arch' \in Seq(Line) /\ Len(arch') = Len(h) + Len(Bytes(p))
        /\ \A i \in 1 .. Len(h) + Len(Bytes(p)) :
             arch'[i] = IF i <= Len(h) THEN h[i] ELSE Bytes(p)[i - Len(h)]
    BY <1>9, <1>11, <2>1, ConcatProperties
  <2>3. /\ arch' \in Seq(Line) /\ Len(arch') = L + 1 + n
        /\ \A i \in 1 .. L + 1 + n : arch'[i] = IF i <= L + 1 THEN h[i] ELSE Bytes(p)[i - (L + 1)]
    BY <1>9, <1>11, <2>2
  <2>4. \A b \in 1 .. n : L + 1 + b \in 1 .. L + 1 + n /\ ~(L + 1 + b <= L + 1) /\ (L + 1 + b) - (L + 1) = b
    BY <1>2, <1>5
  <2>5. \A b \in 1 .. n : arch'[L + 1 + b] = Bytes(p)[b]
    BY <2>3, <2>4
  <2>6. QED
    BY <1>2, <1>5, <2>3, <2>5
<1>13. \A b \in 1 .. n : Bytes(p)[b].b = f.bytes[offset + b]
  <2>1. DOMAIN p = 1 .. n
    BY <1>5, <1>6
  <2>2. QED
    BY <1>6, <2>1 DEF Bytes, Item
<1>14. PICK e : e = Mark(L + 1, N - l + 1, offset)
  OBVIOUS
<1>15. PICK G : Laid(aargs, arch, G, e)
  BY <1>1, <1>2, <1>14 DEF CopyInv
<1>16. e.at = L + 1 /\ e.file = N - l + 1 /\ e.off = offset
  BY <1>14 DEF Mark
<1>17. Laid(aargs, arch', G, e)
  <2>1. \A q \in Nat : q # 0 /\ q < e.at => q \in 1 .. L
    BY <1>2, <1>16
  <2>2. \A q \in 1 .. L : arch'[q] = arch[q]
    BY <1>2, <1>11, <1>12
  <2>3. QED
    BY <1>15, <2>1, <2>2, LaidKept
<1>18. PICK d : d = Mark(Len(arch') + 1, N - Len(input') + 1, offset')
  OBVIOUS
<1>19. arch'[L + 1] = c /\ arch'[L + 1].n = n
  BY <1>2, <1>7, <1>11, <1>12 DEF Item
<1>20. /\ offset + n = Len(f.bytes) => d = Mark(L + 1 + n + 1, (N - l + 1) + 1, 0)
       /\ offset + n # Len(f.bytes) => d = Mark(L + 1 + n + 1, N - l + 1, offset + n) /\ offset + n # 0
  <2>1. CASE offset + n = Len(f.bytes)
    <3>1. offset' = 0 /\ input' = Tail(input)
      BY <1>5, <2>1 DEF ArchivePiece
    <3>2. Len(arch') + 1 = L + 1 + n + 1 /\ N - Len(input') + 1 = (N - l + 1) + 1
      <4>1. Len(arch') + 1 = L + 1 + n + 1
        BY <1>12
      <4>2. Len(input') = l - 1
        BY <1>3, <3>1
      <4>3. N - (l - 1) + 1 = (N - l + 1) + 1
        BY <1>2
      <4>4. QED
        BY <4>1, <4>2, <4>3
    <3>3. QED
      BY <1>18, <2>1, <3>1, <3>2
  <2>2. CASE offset + n # Len(f.bytes)
    <3>1. offset' = offset + n /\ input' = input
      BY <1>5, <2>2 DEF ArchivePiece
    <3>2. offset + n # 0
      BY <1>4, <1>5, <1>6, <2>2
    <3>3. QED
      BY <1>2, <1>12, <1>18, <2>2, <3>1, <3>2
  <2>3. QED
    BY <2>1, <2>2
<1>21. d \in Marks /\ d.at = L + 1 + n + 1
  <2>1. L + 1 + n + 1 \in Nat /\ N - l + 1 \in Nat /\ (N - l + 1) + 1 \in Nat /\ offset + n \in Nat
    BY <1>2, <1>3, <1>4, <1>5
  <2>2. QED
    BY <1>20, <2>1 DEF Mark, Marks
<1>22. Copied(aargs, arch', G \cup {d}, e)
  <2>1. N - l + 1 \in 1 .. N
    BY <1>2, <1>3
  <2>2. \A b \in 1 .. n : arch'[(L + 1) + b].b = f.bytes[offset + b]
    BY <1>12, <1>13
  <2>3. /\ arch'[e.at] = c /\ arch'[e.at].n = n /\ aargs.files[e.file] = f
        /\ e.file \in 1 .. Len(aargs.files)
    BY <1>2, <1>3, <1>16, <1>19, <2>1
  <2>4. \/ e.off + n = Len(f.bytes) /\ Mark(e.at + n + 1, e.file + 1, 0) \in G \cup {d}
        \/ e.off + n # 0 /\ Mark(e.at + n + 1, e.file, e.off + n) \in G \cup {d}
    BY <1>16, <1>20
  <2>5. QED
    BY <1>5, <1>6, <1>7, <1>16, <2>2, <2>3, <2>4 DEF Copied
<1>23. e.at # 0 /\ e.at + arch'[e.at].n < d.at
  BY <1>2, <1>5, <1>16, <1>19, <1>21
<1>24. Laid(aargs, arch', G \cup {d}, d)
  BY <1>17, <1>21, <1>22, <1>23, LaidMore
<1>25. QED
  BY <1>2, <1>18, <1>24

LEMMA CopyOptions ==
  ASSUME ArchiveTyped, CopyInv, Copies, ArchiveOptions
  PROVE  \E G, t : Stored(aargs, arch', G, t)
<1>1. phase = "build" /\ input = <<>> /\ arch' = arch \o <<Trailer>> \o ArchivedOptions
  BY DEF ArchiveOptions
<1>2. PICK L \in Nat, N \in Nat : L = Len(arch) /\ N = Len(aargs.files) /\ arch \in Seq(Line)
  BY NamesAndFiles DEF ArchiveTyped, ArchiveTypeOK, NoFiles
<1>3. offset = 0 /\ Len(input) = 0 /\ N - 0 + 1 = N + 1
  BY <1>1, <1>2 DEF ArchiveTyped, Progress
<1>4. PICK e : e = Mark(L + 1, N + 1, 0)
  OBVIOUS
<1>5. PICK G : Laid(aargs, arch, G, e)
  BY <1>1, <1>2, <1>3, <1>4 DEF CopyInv
<1>6. PICK h : h = arch \o <<Trailer>>
  OBVIOUS
<1>7. h \in Seq(Line) /\ Len(h) = L + 1 /\ h[L + 1] = Trailer /\ \A i \in 1 .. L : h[i] = arch[i]
  BY <1>2, <1>6, TrailerLine
<1>8. PICK os : os = ArchivedOptions /\ os \in Seq(Line)
  BY OptionLines
<1>9. /\ Len(arch') = L + 1 + Len(os)
      /\ \A i \in 1 .. L + 1 : arch'[i] = h[i]
      /\ \A b \in 1 .. Len(os) : arch'[L + 1 + b] = os[b]
  <2>1. arch' = h \o os
    BY <1>1, <1>6, <1>8
  <2>2. PICK m \in Nat : m = Len(os)
    BY <1>8
  <2>3. /\ Len(arch') = L + 1 + m
        /\ \A i \in 1 .. L + 1 + m : arch'[i] = IF i <= L + 1 THEN h[i] ELSE os[i - (L + 1)]
    <3>1. /\ Len(arch') = Len(h) + Len(os)
          /\ \A i \in 1 .. Len(h) + Len(os) :
               arch'[i] = IF i <= Len(h) THEN h[i] ELSE os[i - Len(h)]
      BY <1>7, <1>8, <2>1, ConcatProperties
    <3>2. QED
      BY <1>7, <2>2, <3>1
  <2>4. \A b \in 1 .. m : L + 1 + b \in 1 .. L + 1 + m /\ ~(L + 1 + b <= L + 1) /\ (L + 1 + b) - (L + 1) = b
    BY <1>2, <2>2
  <2>5. \A b \in 1 .. m : arch'[L + 1 + b] = os[b]
    BY <2>3, <2>4
  <2>6. QED
    BY <1>2, <2>2, <2>3, <2>5
<1>10. Laid(aargs, arch', G, e)
  <2>1. e.at = L + 1
    BY <1>4 DEF Mark
  <2>2. \A q \in Nat : q # 0 /\ q < e.at => q \in 1 .. L
    BY <1>2, <2>1
  <2>3. \A q \in 1 .. L : arch'[q] = arch[q]
    BY <1>2, <1>7, <1>9
  <2>4. QED
    BY <1>5, <2>2, <2>3, LaidKept
<1>11. L + 1 <= Len(arch') /\ arch'[L + 1] = Trailer
  <2>1. Len(os) \in Nat
    BY <1>8
  <2>2. QED
    BY <1>2, <1>7, <1>9, <2>1
<1>12. aargs.archive_options =>
         /\ Len(arch') = (L + 1) + Len(aargs.options)
         /\ \A i \in 1 .. Len(aargs.options) : arch'[(L + 1) + i].b = aargs.options[i]
  BY <1>8, <1>9, OptionLines
<1>13. Stored(aargs, arch', G, L + 1)
  BY <1>2, <1>4, <1>10, <1>11, <1>12 DEF Stored
<1>14. QED
  BY <1>13

\* What read_file delivers, if it delivers as many bytes as the line says.
LEMMA BytesRead ==
  ASSUME ArchiveTyped, phase = "split", pos <= cut, NEW n \in Nat, NEW h, NEW bs,
         bs = [i \in DOMAIN ReadBytes(n) |-> ReadBytes(n)[i].b], Len(bs) = n,
         \A b \in 1 .. n : arch[pos + b].b = h[b]
  PROVE  bs = [b \in 1 .. n |-> h[b]]
<1>1. pos \in Nat /\ cut \in Nat /\ cut <= Len(arch) /\ arch \in Seq(Line)
  BY DEF ArchiveTyped, ArchiveTypeOK, Progress
<1>2. PICK m : m = IF pos + n > cut THEN cut ELSE pos + n
  OBVIOUS
<1>3. m \in Nat /\ pos <= m /\ m <= pos + n /\ m <= Len(arch)
  <2>1. Len(arch) \in Nat
    BY <1>1
  <2>2. QED
    BY <1>1, <1>2, <2>1
<1>4. \A i \in pos + 1 .. m : arch[i] \in Line
  <2>1. Len(arch) \in Nat /\ \A i \in pos + 1 .. m : i \in 1 .. Len(arch)
    BY <1>1, <1>3
  <2>2. QED
    BY <1>1, <2>1
<1>5. PICK r : r = ReadBytes(n)
  OBVIOUS
<1>6. r = SubSeq(arch, pos + 1, m)
  BY <1>2, <1>5 DEF ReadBytes
<1>7. /\ r \in Seq(Line)
      /\ Len(r) = IF pos + 1 <= m THEN m - (pos + 1) + 1 ELSE 0
      /\ \A i \in 1 .. m - (pos + 1) + 1 : r[i] = arch[(pos + 1) + i - 1]
  <2>1. pos + 1 \in Int /\ m \in Int
    BY <1>1, <1>3
  <2>2. QED
    BY <1>4, <1>6, <2>1, SubSeqProperties
<1>8. Len(r) = m - pos /\ \A i \in 1 .. m - pos : r[i] = arch[pos + i]
  BY <1>1, <1>3, <1>7
<1>9. DOMAIN r = 1 .. Len(r) /\ Len(r) \in Nat
  BY <1>7
<1>10. bs = [i \in 1 .. Len(r) |-> r[i].b]
  BY <1>5, <1>9
<1>11. Len(bs) = Len(r)
  <2>1. PICK k \in Nat : k = Len(r)
    BY <1>9
  <2>2. bs = [i \in 1 .. k |-> r[i].b]
    BY <1>10, <2>1
  <2>3. bs \in Seq({r[i].b : i \in 1 .. k})
    BY <2>1, <2>2, IsASeq
  <2>4. Len(bs) = k
    BY <2>1, <2>2, <2>3, LenProperties
  <2>5. QED
    BY <2>1, <2>4
<1>12. Len(r) = n
  BY <1>11
<1>13. \A i \in 1 .. n : r[i].b = h[i]
  BY <1>8, <1>12
<1>14. QED
  BY <1>10, <1>12, <1>13

\* Two pieces that follow each other.
LEMMA Joined ==
  ASSUME NEW s \in Seq(STRING), NEW o \in Nat, NEW n \in Nat, o + n <= Len(s)
  PROVE  [b \in 1 .. o |-> s[b]] \o [b \in 1 .. n |-> s[o + b]] = [b \in 1 .. o + n |-> s[b]]
<1>1. PICK x, y, z : /\ x = [b \in 1 .. o |-> s[b]] /\ y = [b \in 1 .. n |-> s[o + b]]
                     /\ z = [b \in 1 .. o + n |-> s[b]]
  OBVIOUS
<1>2. \A b \in 1 .. o + n : s[b] \in STRING
  <2>1. Len(s) \in Nat /\ \A b \in 1 .. o + n : b \in 1 .. Len(s)
    OBVIOUS
  <2>2. QED
    BY <2>1
<1>3. (\A b \in 1 .. o : b \in 1 .. o + n) /\ (\A b \in 1 .. n : o + b \in 1 .. o + n) /\ o + n \in Nat
  OBVIOUS
<1>4. x \in Seq(STRING) /\ y \in Seq(STRING) /\ z \in Seq(STRING)
  <2>1. \A b \in 1 .. o : s[b] \in STRING
    BY <1>2, <1>3
  <2>2. \A b \in 1 .. n : s[o + b] \in STRING
    BY <1>2, <1>3
  <2>3. x \in Seq(STRING)
    BY <1>1, <2>1, IsASeq
  <2>4. y \in Seq(STRING)
    BY <1>1, <2>2, IsASeq
  <2>5. z \in Seq(STRING)
    BY <1>1, <1>2, <1>3, IsASeq
  <2>6. QED
    BY <2>3, <2>4, <2>5
<1>5. Len(x) = o /\ Len(y) = n /\ Len(z) = o + n
  BY <1>1, <1>3, <1>4, LenProperties
<1>6. /\ x \o y \in Seq(STRING) /\ Len(x \o y) = o + n
      /\ \A i \in 1 .. o + n : (x \o y)[i] = IF i <= o THEN x[i] ELSE y[i - o]
  <2>1. /\ x \o y \in Seq(STRING) /\ Len(x \o y) = Len(x) + Len(y)
        /\ \A i \in 1 .. Len(x) + Len(y) : (x \o y)[i] = IF i <= Len(x) THEN x[i] ELSE y[i - Len(x)]
    BY <1>4, ConcatProperties
  <2>2. QED
    BY <1>5, <2>1
<1>7. ASSUME NEW i \in 1 .. o + n PROVE (x \o y)[i] = z[i]
  <2>1. CASE i <= o
    BY <1>1, <1>6, <2>1
  <2>2. CASE ~(i <= o)
    <3>1. i - o \in 1 .. n /\ o + (i - o) = i
      BY <2>2
    <3>2. QED
      BY <1>1, <1>6, <2>2, <3>1
  <2>3. QED
    BY <2>1, <2>2
<1>8. x \o y = z
  BY <1>4, <1>5, <1>6, <1>7, SeqEqual
<1>9. QED
  BY <1>1, <1>8

\* One more piece has been extracted.
LEMMA CopyExtract ==
  ASSUME ArchiveTyped, Copies, ExtractCopy, phase' = "split", NEW G, NEW t, NEW i, NEW o,
         Stored(aargs, arch, G, t), Mark(pos, i, o) \in G, Taken(i, o)
  PROVE  \E j, r : Mark(pos', j, r) \in G /\ Taken(j, r)'
<1>1. phase = "split" /\ pos <= cut /\ Entry.k = "copy"
  BY DEF ExtractCopy
<1>2. i \in Nat /\ o \in Nat /\ pos \in Nat /\ made \in Nat
  <2>1. Mark(pos, i, o) \in Marks
    BY DEF Stored, Laid
  <2>2. QED
    BY <2>1 DEF Mark, Marks, ArchiveTyped, ArchiveTypeOK
<1>3. PICK n : n = Entry.n
  OBVIOUS
<1>4. PICK f : f = aargs.files[i]
  OBVIOUS
<1>5. PICK N \in Nat : N = Len(aargs.files)
  BY NamesAndFiles DEF NoFiles
<1>6. Copied(aargs, arch, G, Mark(pos, i, o))
  <2>1. Mark(pos, i, o) # Mark(t, N + 1, 0)
    <3>1. SUFFICES ASSUME pos = t PROVE FALSE
      BY DEF Mark
    <3>2. arch[pos].k = "trailer"
      BY <3>1 DEF Stored, Trailer, Item
    <3>3. QED
      BY <1>1, <3>2 DEF Entry
  <2>2. QED
    BY <1>5, <2>1 DEF Stored, Laid
<1>7. /\ i \in 1 .. N /\ n \in Nat /\ o + n <= Len(f.bytes)
      /\ Entry.name = IF o = 0 THEN f.name ELSE Continued
      /\ \A b \in 1 .. n : arch[pos + b].b = f.bytes[o + b]
      /\ \/ o + n = Len(f.bytes) /\ Mark(pos + n + 1, i + 1, 0) \in G
         \/ o + n # 0 /\ Mark(pos + n + 1, i, o + n) \in G
  BY <1>3, <1>4, <1>5, <1>6 DEF Copied, Mark, Entry, Item
<1>8. f \in File /\ f.bytes \in Seq(STRING) /\ Len(f.bytes) \in Nat /\ f.name \in Name
  <2>1. f \in File
    BY <1>4, <1>5, <1>7, NamesAndFiles DEF NoFiles
  <2>2. QED
    BY <2>1 DEF File
<1>9. PICK bs : bs = [b \in DOMAIN ReadBytes(Entry.n) |-> ReadBytes(Entry.n)[b].b]
  OBVIOUS
<1>10. PICK more : more = (Entry.name = Continued)
  OBVIOUS
<1>11. more = (o # 0)
  <2>1. f.name # Continued
    <3>1. f.name.type \in {"j", "b", "k", "bytes"}
      BY <1>8 DEF Name
    <3>2. Continued.type = "+"
      BY DEF Continued
    <3>3. QED
      BY <3>1, <3>2
  <2>2. QED
    BY <1>7, <1>10, <2>1
<1>12. PICK q : q = IF more THEN current ELSE ExtractedName(Entry.name)
  OBVIOUS
<1>13. /\ current' = q
       /\ output' = IF more THEN output ELSE Append(output, q)
       /\ extracted' = [x \in DOMAIN extracted \cup {q} |->
            IF x # q THEN extracted[x] ELSE IF more THEN Appended(extracted[q], bs) ELSE bs]
       /\ made' = IF ~more /\ Entry.name.base = "*" THEN made + 1 ELSE made
       /\ pos' = pos + n + 1 /\ Len(bs) = n /\ aargs' = aargs
  <2>1. CASE more /\ current = NULL
    <3>1. phase' = "done"
      BY <1>10, <2>1 DEF ExtractCopy, SplitError
    <3>2. QED
      BY <3>1
  <2>2. CASE ~(more /\ current = NULL)
    <3>1. /\ current' = q
          /\ output' = IF more THEN output ELSE Append(output, q)
          /\ extracted' = [x \in DOMAIN extracted \cup {q} |->
               IF x # q THEN extracted[x] ELSE IF more THEN Appended(extracted[q], bs) ELSE bs]
          /\ made' = IF ~more /\ Entry.name.base = "*" THEN made + 1 ELSE made
          /\ pos' = pos + Entry.n + 1
          /\ IF Len(bs) = Entry.n THEN UNCHANGED <<phase, result>> ELSE phase' = "done" /\ result' = 1
          /\ UNCHANGED <<buildVars, cut, time, found, warned>>
      BY <1>9, <1>10, <1>12, <2>2 DEF ExtractCopy
    <3>2. QED
      BY <1>3, <3>1 DEF buildVars
  <2>3. QED
    BY <2>1, <2>2
<1>14. bs = [b \in 1 .. n |-> f.bytes[o + b]]
  <2>1. PICK h : h = [b \in 1 .. n |-> f.bytes[o + b]]
    OBVIOUS
  <2>2. \A b \in 1 .. n : arch[pos + b].b = h[b]
    BY <1>7, <2>1
  <2>3. bs = [b \in 1 .. n |-> h[b]]
    BY <1>1, <1>3, <1>7, <1>9, <1>13, <2>2, BytesRead
  <2>4. QED
    BY <2>1, <2>3
<1>15. PICK j, r : /\ Mark(pos', j, r) \in G
                   /\ \/ o + n = Len(f.bytes) /\ j = i + 1 /\ r = 0
                      \/ o + n # 0 /\ j = i /\ r = o + n
  BY <1>7, <1>13
<1>16. j \in Nat /\ r \in Nat
  BY <1>2, <1>7, <1>15
<1>17. PICK v : v = [b \in 1 .. o + n |-> f.bytes[b]]
  OBVIOUS
<1>18. v = IF i < j THEN f.bytes ELSE [b \in 1 .. r |-> f.bytes[b]]
  <2>1. CASE o + n = Len(f.bytes) /\ j = i + 1
    <3>1. f.bytes = [b \in 1 .. Len(f.bytes) |-> f.bytes[b]]
      BY <1>8
    <3>2. QED
      BY <1>2, <1>17, <2>1, <3>1
  <2>2. CASE j = i /\ r = o + n
    BY <1>2, <1>17, <2>2
  <2>3. QED
    BY <1>15, <2>1, <2>2
<1>19. i = IF r = 0 THEN j - 1 ELSE j
  BY <1>2, <1>7, <1>15
<1>20. CASE o = 0
  <2>1. ~more /\ q = ExtractedName(f.name) /\ Entry.name = f.name
    BY <1>7, <1>11, <1>12, <1>20
  <2>2. PICK L \in Nat : L = Len(output) /\ output \in Seq(ExtractedNames) /\ L = i - 1
    BY <1>2, <1>7, <1>20 DEF Taken
  <2>3. /\ q \in ExtractedNames /\ q.type = f.name.type
        /\ made' \in Nat /\ made <= made' /\ q.no <= made'
        /\ q.no = 0 => q.base = f.name.base
        /\ q.no # 0 => q.no = made + 1
    <3>1. f.name.base \in STRING /\ f.name.type \in {"j", "b", "k", "bytes"}
      BY <1>8 DEF Name
    <3>2. CASE f.name.base # "*"
      <4>1. q = [base |-> f.name.base, type |-> f.name.type, no |-> 0] /\ made' = made
        BY <1>13, <2>1, <3>2 DEF ExtractedName
      <4>2. QED
        BY <1>2, <3>1, <4>1 DEF ExtractedNames
    <3>3. CASE f.name.base = "*"
      <4>1. q = [base |-> "_tcc", type |-> f.name.type, no |-> made + 1] /\ made' = made + 1
        BY <1>13, <2>1, <3>3 DEF ExtractedName
      <4>2. QED
        BY <1>2, <3>1, <4>1 DEF ExtractedNames
    <3>4. QED
      BY <3>2, <3>3
  <2>4. ASSUME NEW k \in 1 .. L PROVE output[k] # q
    <3>1. /\ output[k].no <= made /\ output[k].type = aargs.files[k].name.type
          /\ output[k].no = 0 => output[k].base = aargs.files[k].name.base
      BY <2>2 DEF Taken
    <3>2. SUFFICES ASSUME output[k] = q PROVE FALSE
      OBVIOUS
    <3>3. output[k].no = 0
      <4>1. output[k].no \in Nat
        <5>1. output[k] \in ExtractedNames
          BY <2>2, ElementOfSeq
        <5>2. QED
          BY <5>1 DEF ExtractedNames
      <4>2. QED
        BY <1>2, <2>3, <3>1, <3>2, <4>1
    <3>4. aargs.files[k].name.base = f.name.base /\ aargs.files[k].name.type = f.name.type
      BY <2>3, <3>1, <3>2, <3>3
    <3>5. k \in 1 .. N /\ k # i
      BY <1>2, <1>5, <1>7, <2>2
    <3>6. aargs.files[k].name \in Name
      BY <1>5, <3>5, NamesAndFiles DEF NoFiles, File
    <3>7. aargs.files[k].name = f.name
      BY <1>8, <3>4, <3>6 DEF Name
    <3>8. QED
      BY <1>4, <1>5, <1>7, <3>5, <3>7, NamesAndFiles DEF Copies, NamesDiffer, NoFiles
  <2>5. /\ output' \in Seq(ExtractedNames) /\ Len(output') = i /\ output'[i] = q
        /\ \A k \in 1 .. L : output'[k] = output[k]
    <3>1. output' = Append(output, q) /\ i = L + 1
      BY <1>2, <1>13, <2>1, <2>2
    <3>2. /\ Append(output, q) \in Seq(ExtractedNames) /\ Len(Append(output, q)) = L + 1
          /\ \A k \in 1 .. L : Append(output, q)[k] = output[k]
          /\ Append(output, q)[L + 1] = q
      <4>1. output \in Seq(ExtractedNames) /\ q \in ExtractedNames
        BY <2>2, <2>3
      <4>2. /\ Append(output, q) \in Seq(ExtractedNames) /\ Len(Append(output, q)) = Len(output) + 1
            /\ \A k \in 1 .. Len(output) : Append(output, q)[k] = output[k]
            /\ Append(output, q)[Len(output) + 1] = q
        BY <4>1, AppendProperties
      <4>3. QED
        BY <2>2, <4>2
    <3>3. QED
      BY <3>1, <3>2
  <2>6. extracted'[q] = v /\ q \in DOMAIN extracted'
    <3>1. \A b \in 1 .. n : o + b = b
      BY <1>7, <1>20
    <3>2. bs = v /\ o + n = n
      BY <1>7, <1>14, <1>17, <1>20, <3>1
    <3>3. QED
      BY <1>13, <2>1, <3>2
  <2>7. \A k \in 1 .. i : k = i \/ k \in 1 .. L
    BY <1>2, <2>2
  <2>8. ASSUME NEW k \in 1 .. L
        PROVE  /\ output[k] \in DOMAIN extracted' /\ extracted'[output[k]] = aargs.files[k].bytes
               /\ k < j
    <3>1. k < i /\ k < j
      BY <1>2, <1>15, <2>2
    <3>2. output[k] \in DOMAIN extracted /\ extracted[output[k]] = aargs.files[k].bytes
      BY <2>2, <3>1 DEF Taken
    <3>3. QED
      BY <1>13, <2>4, <3>1, <3>2
  <2>9. ASSUME NEW k \in 1 .. i
        PROVE  /\ output'[k].type = aargs.files[k].name.type
               /\ output'[k].no <= made'
               /\ output'[k].no = 0 => output'[k].base = aargs.files[k].name.base
               /\ output'[k] \in DOMAIN extracted'
               /\ extracted'[output'[k]] =
                    IF k < j THEN aargs.files[k].bytes ELSE [b \in 1 .. r |-> aargs.files[k].bytes[b]]
               /\ \A l \in 1 .. i : output'[l] = output'[k] => l = k
    <3>1. CASE k = i
      <4>1. \A l \in 1 .. i : output'[l] = output'[k] => l = k
        BY <2>4, <2>5, <2>7, <3>1
      <4>2. QED
        BY <1>4, <1>18, <2>3, <2>5, <2>6, <3>1, <4>1
    <3>2. CASE k \in 1 .. L
      <4>1. /\ output[k].type = aargs.files[k].name.type /\ output[k].no <= made
            /\ output[k].no = 0 => output[k].base = aargs.files[k].name.base
            /\ \A l \in 1 .. L : output[l] = output[k] => l = k
        BY <2>2, <3>2 DEF Taken
      <4>2. output[k].no <= made'
        <5>1. output[k].no \in Nat
          <6>1. output[k] \in ExtractedNames
            BY <2>2, <3>2, ElementOfSeq
          <6>2. QED
            BY <6>1 DEF ExtractedNames
        <5>2. QED
          BY <1>2, <2>3, <4>1, <5>1
      <4>3. \A l \in 1 .. i : output'[l] = output'[k] => l = k
        BY <2>4, <2>5, <2>7, <3>2, <4>1
      <4>4. QED
        BY <2>5, <2>8, <3>2, <4>1, <4>2, <4>3
    <3>3. QED
      BY <2>7, <3>1, <3>2
  <2>10. r # 0 => current' = output'[j]
    BY <1>2, <1>7, <1>13, <1>15, <2>5
  <2>11. Taken(j, r)'
    <3>1. Len(output') = IF r = 0 THEN j - 1 ELSE j
      BY <1>19, <2>5
    <3>2. aargs' = aargs
      BY <1>13
    <3>3. QED
      BY <2>5, <2>9, <2>10, <3>1, <3>2 DEF Taken
  <2>12. QED
    BY <1>15, <2>11
<1>21. CASE o # 0
  <2>1. more /\ q = current /\ current = output[i] /\ output' = output /\ made' = made
    BY <1>11, <1>12, <1>13, <1>21 DEF Taken
  <2>2. Len(output) = i /\ output \in Seq(ExtractedNames) /\ i \in 1 .. i
    BY <1>7, <1>21 DEF Taken
  <2>3. extracted[q] = [b \in 1 .. o |-> f.bytes[b]] /\ q \in DOMAIN extracted
    BY <1>2, <1>4, <2>1, <2>2 DEF Taken
  <2>4. extracted'[q] = v /\ DOMAIN extracted' = DOMAIN extracted
        /\ \A x \in DOMAIN extracted : x # q => extracted'[x] = extracted[x]
    <3>1. extracted'[q] = extracted[q] \o bs
      BY <1>13, <2>1 DEF Appended
    <3>2. extracted[q] \o bs = v
      BY <1>2, <1>7, <1>8, <1>14, <1>17, <2>3, Joined
    <3>3. QED
      BY <1>13, <2>3, <3>1, <3>2
  <2>5. ASSUME NEW k \in 1 .. i
        PROVE  extracted'[output[k]] =
                 IF k < j THEN aargs.files[k].bytes ELSE [b \in 1 .. r |-> aargs.files[k].bytes[b]]
    <3>1. CASE k = i
      BY <1>4, <1>18, <2>1, <2>4, <3>1
    <3>2. CASE k # i
      <4>1. k < i /\ k < j
        BY <1>2, <1>15, <3>2
      <4>2. output[k] \in DOMAIN extracted /\ extracted[output[k]] = aargs.files[k].bytes
            /\ output[k] # output[i]
        BY <2>2, <3>2, <4>1 DEF Taken
      <4>3. QED
        BY <2>1, <2>4, <4>1, <4>2
    <3>3. QED
      BY <3>1, <3>2
  <2>6. r # 0 => current' = output'[j]
    BY <1>13, <1>15, <2>1
  <2>7. ASSUME NEW k \in 1 .. i
        PROVE  /\ output[k].type = aargs.files[k].name.type /\ output[k].no <= made
               /\ output[k].no = 0 => output[k].base = aargs.files[k].name.base
               /\ output[k] \in DOMAIN extracted'
               /\ \A l \in 1 .. i : output[l] = output[k] => l = k
    BY <2>2, <2>4 DEF Taken
  <2>8. Taken(j, r)'
    <3>1. Len(output') = IF r = 0 THEN j - 1 ELSE j
      BY <1>19, <2>1, <2>2
    <3>2. aargs' = aargs
      BY <1>13
    <3>3. QED
      BY <2>1, <2>2, <2>5, <2>6, <2>7, <3>1, <3>2 DEF Taken
  <2>9. QED
    BY <1>15, <2>8
<1>22. QED
  BY <1>20, <1>21

\* An archive that is accepted has been taken apart completely.
LEMMA CopyAccepted ==
  ASSUME ArchiveTyped, Copies, ExtractOptions, NEW G, NEW t, NEW i, NEW o,
         Stored(aargs, arch, G, t), Mark(pos, i, o) \in G, Taken(i, o)
  PROVE  SplitUndoesBuild'
<1>1. /\ phase = "split" /\ pos <= cut /\ Entry.k = "trailer"
      /\ found' = [j \in 1 .. cut - pos |-> arch[pos + j].b]
      /\ UNCHANGED <<aargs, arch, cut, output, extracted>>
  BY DEF ExtractOptions, AtEnd, buildVars
<1>2. PICK N \in Nat : N = Len(aargs.files)
  BY NamesAndFiles DEF NoFiles
<1>3. Mark(pos, i, o) = Mark(t, N + 1, 0)
  <2>1. SUFFICES ASSUME Copied(aargs, arch, G, Mark(pos, i, o)) PROVE FALSE
    BY <1>2 DEF Stored, Laid
  <2>2. arch[pos].k = "copy"
    BY <2>1 DEF Copied, Mark, Item
  <2>3. QED
    BY <1>1, <2>2 DEF Entry
<1>4. pos = t /\ i = N + 1 /\ o = 0
  BY <1>3 DEF Mark
<1>5. Len(output) = N
  BY <1>2, <1>4 DEF Taken
<1>6. output \in Seq(ExtractedNames) /\ DOMAIN output = 1 .. N
  BY <1>5 DEF Taken
<1>7. ASSUME NEW j \in 1 .. N
      PROVE  output[j].type = aargs.files[j].name.type /\ extracted[output[j]] = aargs.files[j].bytes
  <2>1. j < i
    BY <1>2, <1>4
  <2>2. QED
    BY <1>5, <2>1 DEF Taken
<1>8. ASSUME cut = Len(arch), aargs.archive_options
      PROVE  found' = aargs.options
  <2>1. aargs.options \in Seq(STRING)
    BY DEF ArchiveTyped, ArchiveTypeOK, ArchiveArg
  <2>2. PICK m \in Nat : m = Len(aargs.options)
    BY <2>1
  <2>3. cut = pos + m /\ pos \in Nat /\ \A j \in 1 .. m : arch[pos + j].b = aargs.options[j]
    BY <1>4, <1>8, <2>2 DEF Stored, ArchiveTyped, ArchiveTypeOK
  <2>4. cut - pos = m
    BY <2>2, <2>3
  <2>5. found' = [j \in 1 .. m |-> aargs.options[j]]
    BY <1>1, <2>3, <2>4
  <2>6. aargs.options = [j \in 1 .. m |-> aargs.options[j]]
    BY <2>1, <2>2
  <2>7. QED
    BY <2>5, <2>6
<1>9. QED
  BY <1>1, <1>2, <1>5, <1>6, <1>7, <1>8 DEF SplitUndoesBuild

LEMMA CopyStep ==
  ASSUME ArchiveTyped, CopyInv, [ArchiveNext]_archiveVars
  PROVE  CopyInv'
<1> SUFFICES ASSUME Copies' PROVE CopyInv'
  BY DEF CopyInv
<1>0. ArchiveTyped' /\ (phase' # "done" => result' # 0)
  <2>1. ArchiveTyped'
    BY TypedStep
  <2>2. phase' # "done" => result' = NULL
    BY <2>1 DEF ArchiveTyped, Progress
  <2>3. NULL # 0
    BY ArchiveAssumption
  <2>4. QED
    BY <2>1, <2>2, <2>3
<1>a. aargs' = aargs
  BY DEF ArchiveNext, ArchiveDone, archiveVars, buildVars, ArchivePiece, ArchiveLink, ArchiveOptions,
         BuildFails, Truncate, Touch, OpenArchive, MissingArchive, ExtractCopy, SplitError, ExtractLink,
         AssertFails, ExtractOptions, PrematureEnd
<1>b. Copies
  BY <1>a DEF Copies, Links, NamesDiffer
<1>1. CASE ArchivePiece
  <2>1. phase' = "build"
    BY <1>1 DEF ArchivePiece
  <2>2. \E G : Laid(aargs', arch', G, Mark(Len(arch') + 1, Len(aargs'.files) - Len(input') + 1, offset'))
    BY <1>a, <1>b, <1>1, CopyPiece
  <2>3. QED
    BY <1>0, <2>1, <2>2 DEF CopyInv, SplitUndoesBuild
<1>2. CASE ArchiveLink
  BY <1>b, <1>2 DEF ArchiveLink, Copies
<1>3. CASE ArchiveOptions
  <2>1. phase' = "stored"
    BY <1>3 DEF ArchiveOptions
  <2>2. \E G, t : Stored(aargs', arch', G, t)
    BY <1>a, <1>b, <1>3, CopyOptions
  <2>3. QED
    BY <1>0, <2>1, <2>2 DEF CopyInv, SplitUndoesBuild
<1>4. CASE Truncate \/ (\E n \in DOMAIN time : Touch(n))
  <2>1. phase = "stored" /\ phase' = "stored" /\ arch' = arch
    BY <1>4 DEF Truncate, Touch, buildVars
  <2>2. \E G, t : Stored(aargs', arch', G, t)
    BY <1>a, <1>b, <2>1 DEF CopyInv
  <2>3. QED
    BY <1>0, <2>1, <2>2 DEF CopyInv, SplitUndoesBuild
<1>5. CASE OpenArchive
  <2>1. /\ phase = "stored" /\ phase' \in {"split", "done"} /\ arch' = arch
        /\ UNCHANGED <<output, extracted, made>>
        /\ phase' = "split" => pos' = 2
        /\ phase' = "done" => result' = 1
    BY <1>5 DEF OpenArchive, buildVars
  <2>2. PICK G, t : Stored(aargs, arch, G, t)
    BY <1>b, <2>1 DEF CopyInv
  <2>3. Mark(2, 1, 0) \in G
    BY <2>2 DEF Stored, Laid
  <2>4. Taken(1, 0)'
    <3>1. output = <<>>
      BY <2>1 DEF ArchiveTyped, Progress
    <3>2. output' \in Seq(ExtractedNames) /\ Len(output') = 0
      BY <2>1, <3>1
    <3>3. QED
      BY <3>2 DEF Taken
  <2>5. phase' = "split" =>
          \E H, u, i, o : Stored(aargs', arch', H, u) /\ Mark(pos', i, o) \in H /\ Taken(i, o)'
    BY <1>a, <2>1, <2>2, <2>3, <2>4
  <2>6. result' # 0
    BY <1>0, <2>1
  <2>7. QED
    BY <2>1, <2>5, <2>6 DEF CopyInv, SplitUndoesBuild
<1>6. CASE BuildFails \/ MissingArchive \/ AssertFails
  <2>1. phase' \in {"failed", "crashed", "aborted"}
    BY <1>6 DEF BuildFails, MissingArchive, AssertFails
  <2>2. QED
    BY <1>0, <2>1 DEF CopyInv, SplitUndoesBuild
<1>7. CASE ExtractCopy
  <2>1. phase = "split" /\ arch' = arch /\ (phase' = "split" \/ (phase' = "done" /\ result' = 1))
    BY <1>7 DEF ExtractCopy, SplitError, buildVars
  <2>2. PICK G, t, i, o : Stored(aargs, arch, G, t) /\ Mark(pos, i, o) \in G /\ Taken(i, o)
    BY <1>b, <2>1 DEF CopyInv
  <2>3. phase' = "split" => \E j, r : Mark(pos', j, r) \in G /\ Taken(j, r)'
    BY <1>b, <1>7, <2>2, CopyExtract
  <2>4. phase' = "split" =>
          \E H, u, j, r : Stored(aargs', arch', H, u) /\ Mark(pos', j, r) \in H /\ Taken(j, r)'
    BY <1>a, <2>1, <2>2, <2>3
  <2>5. QED
    BY <1>0, <2>1, <2>4 DEF CopyInv, SplitUndoesBuild
<1>8. CASE ExtractLink
  <2>1. phase = "split" /\ pos <= cut /\ Entry.k = "link"
    BY <1>8 DEF ExtractLink
  <2>2. PICK G, t, i, o : Stored(aargs, arch, G, t) /\ Mark(pos, i, o) \in G
    BY <1>b, <2>1 DEF CopyInv
  <2>3. CASE Mark(pos, i, o) = Mark(t, Len(aargs.files) + 1, 0)
    BY <2>1, <2>2, <2>3 DEF Stored, Mark, Trailer, Item, Entry
  <2>4. CASE Copied(aargs, arch, G, Mark(pos, i, o))
    BY <2>1, <2>4 DEF Copied, Mark, Item, Entry
  <2>5. QED
    BY <2>2, <2>3, <2>4 DEF Stored, Laid
<1>9. CASE ExtractOptions
  <2>1. phase = "split" /\ phase' = "done"
    BY <1>9 DEF ExtractOptions
  <2>2. PICK G, t, i, o : Stored(aargs, arch, G, t) /\ Mark(pos, i, o) \in G /\ Taken(i, o)
    BY <1>b, <2>1 DEF CopyInv
  <2>3. SplitUndoesBuild'
    BY <1>b, <1>9, <2>2, CopyAccepted
  <2>4. QED
    BY <2>1, <2>3 DEF CopyInv
<1>10. CASE PrematureEnd
  <2>1. phase' = "done" /\ result' = 1
    BY <1>10 DEF PrematureEnd, SplitError
  <2>2. QED
    BY <2>1 DEF CopyInv, SplitUndoesBuild
<1>11. CASE UNCHANGED archiveVars
  <2>1. SplitUndoesBuild'
    BY <1>b, <1>11 DEF CopyInv, SplitUndoesBuild, Links, NamesDiffer, archiveVars
  <2>2. \A i, o : Taken(i, o)' <=> Taken(i, o)
    BY <1>11 DEF Taken, archiveVars
  <2>3. QED
    BY <1>b, <1>11, <2>1, <2>2 DEF CopyInv, archiveVars
<1>12. QED
  BY <1>1, <1>2, <1>3, <1>4, <1>5, <1>6, <1>7, <1>8, <1>9, <1>10, <1>11 DEF ArchiveNext, ArchiveDone

\* split_archive undoes build_archive, or says that it cannot, for any files, any
\* sizes of them and of the buffer, and wherever the archive was cut off, provided
\* that the archive gives the names of its files (without them it does not hold:
\* what is then printed for a name is described at PrintedName).
THEOREM SplitUndoesBuildInvariant ==
  ArchiveSpec => [](aargs.archive_names => SplitUndoesBuild)
<1>1. ArchiveInit => ArchiveTyped /\ CopyInv
  BY TypedInit, CopyInit
<1>2. ArchiveTyped /\ CopyInv /\ [ArchiveNext]_archiveVars => (ArchiveTyped /\ CopyInv)'
  BY TypedStep, CopyStep
<1>3. ArchiveTyped /\ CopyInv => (aargs.archive_names => SplitUndoesBuild)
  BY DEF CopyInv, Copies, SplitUndoesBuild
<1>4. QED
  BY <1>1, <1>2, <1>3, PTL DEF ArchiveSpec
=============================================================================
