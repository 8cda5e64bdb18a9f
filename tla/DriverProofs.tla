---------------------------- MODULE DriverProofs ----------------------------
(***************************************************************************)
(* Proofs about the files that tcc leaves, for any command line, any       *)
(* number of inputs and any outcome of every command.                      *)
(***************************************************************************)
EXTENDS Driver, SequenceTheorems, WellFoundedInduction, TLAPS

Rank == [c |-> 0, j |-> 1, t |-> 2, s |-> 3, o |-> 4, x |-> 5]

\* Where the name of a file comes from: it was made up, or it is that of an input
\* that the file was made from, or that of the capsule that was built.
Sprung(f) ==
  \/ args.make_up_names \/ f.no # 0 \/ f.type = "x"
  \/ \E i \in Ids : /\ f.base = args.inputs[i].base
                    /\ Rank[args.inputs[i].type] <= Rank[f.type]
  \/ args.make_complex /\ f.base = "a" /\ f.type # "c"

\* What is true of every file in the lists of tcc.
Fine(f) ==
  /\ f \in FileRecords
  /\ f.storage = "INPUT_FILE" => f.name \in InputNames
  /\ f.storage = "TEMP_FILE" => f.name.dir = "temp"
  /\ f.storage = "OUTPUT_FILE" /\ NamesApart => f.name \notin InputNames
  /\ Sprung(f)
  /\ f.type = "o" /\ f.storage = "TEMP_FILE" =>
       /\ f.name.base = f.base /\ f.name.no = f.no /\ f.name.type = "o"
       /\ args.make_up_names => f.no # 0
       /\ NamesApart => [f.name EXCEPT !.dir = "work"] \notin InputNames

-----------------------------------------------------------------------------
LEMMA InputTyped ==
  ASSUME args \in DriverArg, NEW i \in Ids
  PROVE  /\ args.inputs[i].dir \in {"work", "sub"} /\ args.inputs[i].base \in Bases
         /\ args.inputs[i].type \in {"c", "j", "s", "o"}
<1>1. args.inputs \in Seq(Input)
  BY DEF DriverArg
<1>2. args.inputs[i] \in Input
  BY <1>1, ElementOfSeq DEF Ids
<1>3. QED
  BY <1>2 DEF Input, Bases

LEMMA InputIsFine ==
  ASSUME args \in DriverArg, NEW i \in Ids
  PROVE  Fine(InputFile(i)) /\ InputFile(i).storage = "INPUT_FILE"
<1>1. /\ InputFile(i).name = NameOf(args.inputs[i].dir, args.inputs[i].base, 0, args.inputs[i].type)
      /\ InputFile(i).base = args.inputs[i].base /\ InputFile(i).no = 0
      /\ InputFile(i).type = args.inputs[i].type /\ InputFile(i).storage = "INPUT_FILE"
  BY DEF InputFile
<1>2. InputFile(i).name \in DiskNames
  BY <1>1, InputTyped DEF NameOf, DiskNames
<1>3. InputFile(i) \in FileRecords
  BY <1>2, InputTyped DEF InputFile, FileRecords, NameOf
<1>4. Rank[args.inputs[i].type] <= Rank[InputFile(i).type]
  BY <1>1, InputTyped DEF Rank
<1>5. Sprung(InputFile(i))
  BY <1>1, <1>4 DEF Sprung
<1>6. InputFile(i).name \in InputNames
  BY DEF InputNames
<1>7. QED
  BY <1>1, <1>3, <1>5, <1>6 DEF Fine

LEMMA InputNotNull ==
  ASSUME args \in DriverArg, NEW i \in Ids
  PROVE  InputFile(i) # NULL
<1>1. InputFile(i) \in FileRecords
  BY InputIsFine DEF Fine
<1>2. NULL \notin FileRecords
  BY DriverAssumption
<1>3. QED
  BY <1>1, <1>2

\* The names of inputs are in the directories of the user and were not made up.
LEMMA InputName ==
  ASSUME args \in DriverArg, NEW n \in InputNames
  PROVE  /\ n.dir \in {"work", "sub"} /\ n.no = 0 /\ n.type \in {"c", "j", "s", "o"}
         /\ \E i \in Ids : n = NameOf(args.inputs[i].dir, args.inputs[i].base, 0, args.inputs[i].type)
<1>1. PICK i \in Ids : n = InputFile(i).name
  BY DEF InputNames
<1>2. n = NameOf(args.inputs[i].dir, args.inputs[i].base, 0, args.inputs[i].type)
  BY <1>1 DEF InputFile
<1>3. QED
  BY <1>2, InputTyped DEF NameOf

\* A name of a later type than the file it is derived from is not that of an input.
LEMMA LaterName ==
  ASSUME args \in DriverArg, NamesApart, ~args.make_up_names, NEW f, Sprung(f), NEW t, NEW n,
         f.type \in {"c", "j", "t", "s"}, t \in {"j", "t", "s", "o"}, Rank[f.type] < Rank[t],
         n.base = f.base, n.no = f.no, n.type = t
  PROVE  n \notin InputNames
<1> SUFFICES ASSUME n \in InputNames PROVE FALSE
  OBVIOUS
<1>1. PICK k \in Ids : n = NameOf(args.inputs[k].dir, args.inputs[k].base, 0, args.inputs[k].type)
  BY InputName
<1>2. n.no = 0 /\ args.inputs[k].base = f.base /\ args.inputs[k].type = t
  BY <1>1 DEF NameOf
<1>3. CASE \E i \in Ids : f.base = args.inputs[i].base /\ Rank[args.inputs[i].type] <= Rank[f.type]
  <2>1. PICK i \in Ids : f.base = args.inputs[i].base /\ Rank[args.inputs[i].type] <= Rank[f.type]
    BY <1>3
  <2>2. i = k
    BY <1>2, <2>1 DEF NamesApart
  <2>3. Rank[t] <= Rank[f.type] /\ Rank[f.type] \in Nat /\ Rank[t] \in Nat
    BY <1>2, <2>1, <2>2 DEF Rank
  <2>4. QED
    BY <2>3
<1>4. CASE args.make_complex /\ f.base = "a" /\ f.type # "c"
  <2>1. t # "j"
    BY <1>4 DEF Rank
  <2>2. QED
    BY <1>2, <1>4, <2>1 DEF NamesApart
<1>5. QED
  BY <1>2, <1>3, <1>4 DEF Sprung

Storages == {"TEMP_FILE", "PRESERVED_FILE", "OUTPUT_FILE"}

LEMMA WhereIs == \A t : where(t) \in Storages
BY DEF where, Storages

\* The output of a stage.
LEMMA StageOutput ==
  ASSUME args \in DriverArg, seq \in Nat, NEW p, Fine(p), p.type \in {"c", "j", "t", "s"},
         NEW t, t = NextType[p.type], NEW s \in Storages
  PROVE  /\ Fine(make_filename(p, t, s)) /\ make_filename(p, t, s).storage # "INPUT_FILE"
         /\ SeqAfter(p, t, s) \in Nat
<1>1. /\ t \in {"j", "t", "s", "o"} /\ t # p.type /\ Rank[p.type] < Rank[t]
      /\ Rank[p.type] \in Nat /\ Rank[t] \in Nat
  BY DEF NextType, Rank
<1>2. ~SameType(p, t) /\ p \in FileRecords /\ p.base \in Bases /\ p.no \in Nat /\ Sprung(p)
  BY <1>1 DEF SameType, Fine, FileRecords
<1>3. PICK q : q = make_filename(p, t, s)
  OBVIOUS
<1>4. PICK b, k : /\ b = IF MakesUp(p, t, s) THEN "_tcc" ELSE p.base
                  /\ k = IF MakesUp(p, t, s) THEN seq + 1 ELSE p.no
  OBVIOUS
<1>5. /\ q.base = b /\ q.no = k /\ q.type = t /\ q.storage = Storage(s)
      /\ q.name = IF SharesName(p, t, s) THEN NameOf(DirOf(s), "_tcc", 0, t) ELSE NameOf(DirOf(s), b, k, t)
      /\ q = [name |-> q.name, base |-> b, no |-> k, type |-> t, storage |-> Storage(s)]
  BY <1>2, <1>3, <1>4 DEF make_filename
<1>6. b \in Bases /\ k \in Nat
  BY <1>2, <1>4 DEF Bases
<1>7. q.name \in DiskNames
  BY <1>1, <1>5, <1>6 DEF NameOf, DirOf, DiskNames, Bases
<1>8. Storage(s) \in {"TEMP_FILE", "OUTPUT_FILE"} /\ (Storage(s) = "TEMP_FILE" <=> s = "TEMP_FILE")
  BY DEF Storage, Storages
<1>9. q \in FileRecords /\ q.storage # "INPUT_FILE"
  BY <1>1, <1>5, <1>6, <1>7, <1>8 DEF FileRecords
<1>10. q.storage = "TEMP_FILE" => q.name.dir = "temp"
  BY <1>5, <1>8 DEF NameOf, DirOf
<1>11. Sprung(q)
  <2>1. CASE MakesUp(p, t, s)
    BY <1>4, <1>5, <2>1 DEF Sprung
  <2>2. CASE ~MakesUp(p, t, s)
    <3>1. q.base = p.base /\ q.no = p.no /\ q.type = t /\ t # "c" /\ p.type # "x"
      BY <1>1, <1>4, <1>5, <2>2
    <3>2. ASSUME NEW i \in Ids, Rank[args.inputs[i].type] <= Rank[p.type]
          PROVE  Rank[args.inputs[i].type] <= Rank[t]
      <4>1. Rank[args.inputs[i].type] \in Nat
        BY InputTyped DEF Rank
      <4>2. QED
        BY <1>1, <3>2, <4>1
    <3>3. QED
      BY <1>2, <3>1, <3>2 DEF Sprung
  <2>3. QED
    BY <2>1, <2>2
<1>12. ASSUME ~SharesName(p, t, s), NamesApart, NEW n, n.base = b, n.no = k, n.type = t
       PROVE  n \notin InputNames
  <2>1. CASE MakesUp(p, t, s)
    <3>1. k # 0
      BY <1>4, <2>1
    <3>2. QED
      BY <1>12, <3>1, InputName
  <2>2. CASE ~MakesUp(p, t, s)
    <3>1. ~args.make_up_names /\ b = p.base /\ k = p.no
      BY <1>2, <1>4, <1>12, <2>2 DEF MakesUp
    <3>2. QED
      BY <1>1, <1>2, <1>12, <3>1, LaterName
  <2>3. QED
    BY <2>1, <2>2
<1>13. q.storage = "OUTPUT_FILE" /\ NamesApart => q.name \notin InputNames
  <2> SUFFICES ASSUME q.storage = "OUTPUT_FILE", NamesApart PROVE q.name \notin InputNames
    OBVIOUS
  <2>1. ~SharesName(p, t, s)
    BY <1>5, <1>8 DEF SharesName
  <2>2. q.name.base = b /\ q.name.no = k /\ q.name.type = t
    BY <1>5, <2>1 DEF NameOf
  <2>3. QED
    BY <1>12, <2>1, <2>2
<1>14. q.type = "o" /\ q.storage = "TEMP_FILE" =>
         /\ q.name.base = q.base /\ q.name.no = q.no /\ q.name.type = "o"
         /\ args.make_up_names => q.no # 0
         /\ NamesApart => [q.name EXCEPT !.dir = "work"] \notin InputNames
  <2> SUFFICES ASSUME q.type = "o" PROVE /\ q.name.base = q.base /\ q.name.no = q.no /\ q.name.type = "o"
                                         /\ args.make_up_names => q.no # 0
                                         /\ NamesApart => [q.name EXCEPT !.dir = "work"] \notin InputNames
    OBVIOUS
  <2>1. ~SharesName(p, t, s) /\ t = "o"
    BY <1>5 DEF SharesName
  <2>2. q.name = [dir |-> DirOf(s), base |-> b, no |-> k, type |-> t]
    BY <1>5, <2>1 DEF NameOf
  <2>3. args.make_up_names => k # 0
    BY <1>2, <1>4, <2>1 DEF MakesUp
  <2>4. PICK n : n = [q.name EXCEPT !.dir = "work"]
    OBVIOUS
  <2>5. n.base = b /\ n.no = k /\ n.type = t
    BY <2>2, <2>4
  <2>6. NamesApart => n \notin InputNames
    BY <1>12, <2>1, <2>5
  <2>7. QED
    BY <1>5, <2>1, <2>2, <2>3, <2>4, <2>6
<1>15. Fine(q)
  BY <1>9, <1>10, <1>11, <1>13, <1>14 DEF Fine
<1>16. SeqAfter(p, t, s) \in Nat
  BY DEF SeqAfter
<1>17. QED
  BY <1>3, <1>9, <1>15, <1>16

\* The place where do_keep puts an object.
LEMMA KeptOutput ==
  ASSUME args \in DriverArg, seq \in Nat, NEW p, Fine(p), MustKeep(p)
  PROVE  /\ p.name.dir = "temp"
         /\ Fine(make_filename(p, p.type, "PRESERVED_FILE"))
         /\ make_filename(p, p.type, "PRESERVED_FILE").storage = "OUTPUT_FILE"
<1>1. /\ p.type = "o" /\ p.storage = "TEMP_FILE" /\ p \in FileRecords /\ p.name \in DiskNames
      /\ p.base \in Bases /\ p.no \in Nat /\ p.name.dir = "temp" /\ Sprung(p)
      /\ p.name.base = p.base /\ p.name.no = p.no /\ p.name.type = "o"
      /\ NamesApart => [p.name EXCEPT !.dir = "work"] \notin InputNames
  BY DEF MustKeep, Fine, FileRecords
<1>2. PICK q : q = make_filename(p, p.type, "PRESERVED_FILE")
  OBVIOUS
<1>3. ~SharesName(p, p.type, "PRESERVED_FILE") /\ DirOf("PRESERVED_FILE") = "work"
      /\ Storage("PRESERVED_FILE") = "OUTPUT_FILE"
  BY DEF SharesName, DirOf, Storage
<1>4. CASE SameType(p, p.type)
  <2>1. q = [name |-> [dir |-> "work", base |-> p.base, no |-> p.no, type |-> "o"], base |-> p.base,
             no |-> p.no, type |-> "o", storage |-> "OUTPUT_FILE"]
    BY <1>1, <1>2, <1>3, <1>4 DEF make_filename, MakesUp, NameOf
  <2>2. q.name = [p.name EXCEPT !.dir = "work"] /\ q.name \in DiskNames
    BY <1>1, <2>1 DEF DiskNames
  <2>3. q \in FileRecords
    BY <1>1, <2>1, <2>2 DEF FileRecords
  <2>4. Sprung(q)
    BY <1>1, <2>1 DEF Sprung
  <2>5. QED
    BY <1>1, <1>2, <2>1, <2>2, <2>3, <2>4 DEF Fine
<1>5. CASE ~SameType(p, p.type)
  <2>1. p = NULL
    BY <1>5 DEF SameType
  <2>2. q = [name |-> [dir |-> "work", base |-> "_tcc", no |-> seq + 1, type |-> "o"], base |-> "_tcc",
             no |-> seq + 1, type |-> "o", storage |-> "OUTPUT_FILE"]
    BY <1>1, <1>2, <1>3, <1>5, <2>1 DEF make_filename, MakesUp, NameOf
  <2>3. q.name \in DiskNames
    BY <2>2 DEF DiskNames, Bases
  <2>4. q \in FileRecords
    BY <2>2, <2>3 DEF FileRecords, Bases
  <2>5. Sprung(q)
    BY <2>2 DEF Sprung
  <2>6. q.name \notin InputNames
    BY <2>2, InputName
  <2>7. QED
    BY <1>1, <1>2, <2>2, <2>4, <2>5, <2>6 DEF Fine
<1>6. QED
  BY <1>4, <1>5

-----------------------------------------------------------------------------
(* Lists of files *)

LEMMA LeastOne ==
  ASSUME NEW S \in SUBSET Nat, S # {}
  PROVE  \E x \in S : \A y \in S : x <= y
<1>1. PICK x \in S : \A y \in S : <<y, x>> \notin OpToRel(<, Nat)
  BY WFMin, NatLessThanWellFounded, Zenon
<1>2. \A y \in S : ~(y < x)
  BY <1>1, Zenon DEF OpToRel
<1>3. QED
  BY <1>2

\* One step of the selection.
ChosenAt(fs, t, yes, c, n) ==
  IF n = 0 THEN <<>>
  ELSE IF (fs[n].type = t) = yes THEN Append(c[n - 1], fs[n]) ELSE c[n - 1]

\* The first m steps of it.
ChosenRow(fs, t, yes, m, c) == c = [n \in 0 .. m |-> ChosenAt(fs, t, yes, c, n)]

LEMMA ChosenExists ==
  ASSUME NEW fs, NEW t, NEW yes
  PROVE  \A m \in Nat : \E c : ChosenRow(fs, t, yes, m, c)
<1> USE DEF ChosenRow
<1> DEFINE Bad == {m \in Nat : ~\E c : c = [n \in 0 .. m |-> ChosenAt(fs, t, yes, c, n)]}
<1> SUFFICES ASSUME Bad # {} PROVE FALSE
  OBVIOUS
<1>1. PICK m \in Bad : \A y \in Bad : m <= y
  BY LeastOne
<1>2. m # 0
  <2>1. PICK c : c = [n \in 0 .. 0 |-> <<>>]
    OBVIOUS
  <2>2. c = [n \in 0 .. 0 |-> ChosenAt(fs, t, yes, c, n)]
    BY <2>1 DEF ChosenAt
  <2>3. QED
    BY <1>1, <2>2
<1>3. m \in Nat /\ m - 1 \in Nat /\ m - 1 \notin Bad
  BY <1>1, <1>2
<1>4. PICK c : c = [n \in 0 .. m - 1 |-> ChosenAt(fs, t, yes, c, n)]
  BY <1>3
<1>5. PICK v : v = [n \in 0 .. m |-> IF n < m THEN c[n] ELSE ChosenAt(fs, t, yes, c, m)]
  OBVIOUS
<1>6. ASSUME NEW n \in 0 .. m PROVE v[n] = ChosenAt(fs, t, yes, v, n)
  <2>1. n # 0 => n - 1 \in 0 .. m - 1 /\ v[n - 1] = c[n - 1]
    BY <1>3, <1>5
  <2>2. ChosenAt(fs, t, yes, v, n) = ChosenAt(fs, t, yes, c, n)
    BY <2>1 DEF ChosenAt
  <2>3. CASE n < m
    <3>1. n \in 0 .. m - 1
      BY <1>3, <2>3
    <3>2. c[n] = ChosenAt(fs, t, yes, c, n)
      BY <1>4, <3>1
    <3>3. QED
      BY <1>5, <2>2, <2>3, <3>2
  <2>4. CASE n = m
    BY <1>3, <1>5, <2>2, <2>4
  <2>5. QED
    BY <1>3, <2>3, <2>4
<1>7. v = [n \in 0 .. m |-> ChosenAt(fs, t, yes, v, n)]
  <2>1. v = [n \in 0 .. m |-> v[n]]
    BY <1>5
  <2>2. QED
    BY <1>6, <2>1
<1>8. QED
  BY <1>1, <1>7

LEMMA ToSetAppend ==
  ASSUME NEW S, NEW s \in Seq(S), NEW x \in S
  PROVE  ToSet(Append(s, x)) = ToSet(s) \cup {x}
<1>1. PICK L \in Nat : L = Len(s)
  OBVIOUS
<1>2. DOMAIN s = 1 .. L /\ DOMAIN Append(s, x) = 1 .. L + 1
  BY <1>1
<1>3. \A i \in 1 .. L : Append(s, x)[i] = s[i]
  BY <1>1
<1>4. Append(s, x)[L + 1] = x
  BY <1>1
<1>5. \A i : i \in 1 .. L + 1 <=> i \in 1 .. L \/ i = L + 1
  BY <1>1
<1>6. QED
  BY <1>2, <1>3, <1>4, <1>5 DEF ToSet

LEMMA ToSetHead ==
  ASSUME NEW S, NEW s \in Seq(S), s # <<>>
  PROVE  ToSet(s) = {Head(s)} \cup ToSet(Tail(s)) /\ Tail(s) \in Seq(S) /\ Head(s) \in S
<1>1. PICK L \in Nat \ {0} : L = Len(s)
  BY EmptySeq
<1>2. /\ Head(s) \in S /\ Head(s) = s[1] /\ Tail(s) \in Seq(S) /\ Len(Tail(s)) = L - 1
      /\ \A i \in 1 .. L - 1 : Tail(s)[i] = s[i + 1]
  BY <1>1, HeadTailProperties
<1>3. DOMAIN s = 1 .. L /\ DOMAIN Tail(s) = 1 .. L - 1
  BY <1>1, <1>2
<1>4. \A x : x \in ToSet(s) <=> \E i \in 1 .. L : s[i] = x
  BY <1>3 DEF ToSet
<1>5. \A x : x \in ToSet(Tail(s)) <=> \E i \in 1 .. L - 1 : s[i + 1] = x
  BY <1>2, <1>3 DEF ToSet
<1>6. ASSUME NEW x PROVE (\E i \in 1 .. L : s[i] = x) <=> s[1] = x \/ (\E i \in 1 .. L - 1 : s[i + 1] = x)
  <2>1. ASSUME NEW i \in 1 .. L, s[i] = x PROVE s[1] = x \/ (\E k \in 1 .. L - 1 : s[k + 1] = x)
    <3>1. CASE i = 1
      BY <2>1, <3>1
    <3>2. CASE i # 1
      <4>1. i - 1 \in 1 .. L - 1 /\ (i - 1) + 1 = i
        BY <1>1, <3>2
      <4>2. QED
        BY <2>1, <4>1
    <3>3. QED
      BY <3>1, <3>2
  <2>2. 1 \in 1 .. L /\ \A k \in 1 .. L - 1 : k + 1 \in 1 .. L
    BY <1>1
  <2>3. QED
    BY <2>1, <2>2
<1>7. QED
  BY <1>2, <1>4, <1>5, <1>6

LEMMA ToSetConcat ==
  ASSUME NEW S, NEW r \in Seq(S), NEW s \in Seq(S)
  PROVE  ToSet(r \o s) = ToSet(r) \cup ToSet(s) /\ r \o s \in Seq(S)
<1>1. PICK K \in Nat, L \in Nat : K = Len(r) /\ L = Len(s)
  OBVIOUS
<1>2. /\ r \o s \in Seq(S) /\ Len(r \o s) = K + L
      /\ \A i \in 1 .. K + L : (r \o s)[i] = IF i <= K THEN r[i] ELSE s[i - K]
  BY <1>1, ConcatProperties
<1>3. DOMAIN r = 1 .. K /\ DOMAIN s = 1 .. L /\ DOMAIN (r \o s) = 1 .. K + L
  BY <1>1, <1>2
<1>4. \A i \in 1 .. K : i \in 1 .. K + L /\ (r \o s)[i] = r[i]
  BY <1>1, <1>2
<1>5. \A i \in 1 .. L : K + i \in 1 .. K + L /\ (r \o s)[K + i] = s[i]
  <2>1. \A i \in 1 .. L : K + i \in 1 .. K + L /\ ~(K + i <= K) /\ (K + i) - K = i
    BY <1>1
  <2>2. QED
    BY <1>2, <2>1
<1>6. \A i \in 1 .. K + L : i \in 1 .. K \/ \E k \in 1 .. L : i = K + k
  <2> TAKE i \in 1 .. K + L
  <2>1. CASE i <= K
    BY <1>1, <2>1
  <2>2. CASE ~(i <= K)
    <3>1. i - K \in 1 .. L /\ i = K + (i - K)
      BY <1>1, <2>2
    <3>2. QED
      BY <3>1
  <2>3. QED
    BY <2>1, <2>2
<1>7. \A x : x \in ToSet(r \o s) <=> \E i \in 1 .. K + L : (r \o s)[i] = x
  BY <1>3 DEF ToSet
<1>8. \A x : (x \in ToSet(r) <=> \E i \in 1 .. K : r[i] = x) /\ (x \in ToSet(s) <=> \E i \in 1 .. L : s[i] = x)
  BY <1>3 DEF ToSet
<1>9. ASSUME NEW x PROVE x \in ToSet(r \o s) <=> x \in ToSet(r) \/ x \in ToSet(s)
  <2>1. ASSUME NEW i \in 1 .. K + L, (r \o s)[i] = x PROVE x \in ToSet(r) \/ x \in ToSet(s)
    <3>1. CASE i \in 1 .. K
      BY <1>4, <1>8, <2>1, <3>1
    <3>2. CASE \E k \in 1 .. L : i = K + k
      BY <1>5, <1>8, <2>1, <3>2
    <3>3. QED
      BY <1>6, <3>1, <3>2
  <2>2. QED
    BY <1>4, <1>5, <1>7, <1>8, <2>1
<1>10. QED
  BY <1>2, <1>9

\* The selection is made step by step.
LEMMA ChosenSteps ==
  ASSUME NEW fs, NEW t, NEW yes, NEW L \in Nat, L = Len(fs)
  PROVE  \E c : Chosen(fs, t, yes) = c[L] /\ \A n \in 0 .. L : c[n] = ChosenAt(fs, t, yes, c, n)
<1>1. \E c : ChosenRow(fs, t, yes, L, c)
  BY ChosenExists
<1>2. PICK d : d = CHOOSE c : ChosenRow(fs, t, yes, L, c)
  OBVIOUS
<1>3. ChosenRow(fs, t, yes, L, d)
  BY <1>1, <1>2
<1>4. Chosen(fs, t, yes) = d[L]
  BY <1>2 DEF Chosen, ChosenRow, ChosenAt
<1>5. \A n \in 0 .. L : d[n] = ChosenAt(fs, t, yes, d, n)
  BY <1>3, Zenon DEF ChosenRow
<1>6. QED
  BY <1>4, <1>5

\* The selection has the elements that it should have.
LEMMA ChosenIs ==
  ASSUME NEW S, NEW fs \in Seq(S), NEW t, NEW yes
  PROVE  /\ Chosen(fs, t, yes) \in Seq(S)
         /\ ToSet(Chosen(fs, t, yes)) = {f \in ToSet(fs) : (f.type = t) = yes}
<1>1. PICK L \in Nat : L = Len(fs)
  OBVIOUS
<1>2. PICK c : Chosen(fs, t, yes) = c[L] /\ \A n \in 0 .. L : c[n] = ChosenAt(fs, t, yes, c, n)
  BY <1>1, ChosenSteps
<1> DEFINE Good(n) == c[n] \in Seq(S) /\ ToSet(c[n]) = {fs[i] : i \in {k \in 1 .. n : (fs[k].type = t) = yes}}
           Bad == {n \in 0 .. L : ~Good(n)}
<1>3. \A n \in 0 .. L : c[n] = ChosenAt(fs, t, yes, c, n)
  BY <1>2
<1>4. Good(0)
  <2>1. c[0] = <<>>
    BY <1>1, <1>3 DEF ChosenAt
  <2>2. QED
    BY <2>1 DEF ToSet
<1>5. ASSUME NEW n \in 1 .. L, Good(n - 1) PROVE Good(n)
  <2>1. c[n] = IF (fs[n].type = t) = yes THEN Append(c[n - 1], fs[n]) ELSE c[n - 1]
    <3>1. n \in 0 .. L /\ n # 0
      BY <1>1
    <3>2. QED
      BY <1>3, <3>1 DEF ChosenAt
  <2>2. fs[n] \in S
    BY <1>1, ElementOfSeq
  <2>3. \A k : k \in 1 .. n <=> k \in 1 .. n - 1 \/ k = n
    BY <1>1
  <2>4. CASE (fs[n].type = t) = yes
    <3>1. c[n] = Append(c[n - 1], fs[n]) /\ c[n - 1] \in Seq(S)
      BY <1>5, <2>1, <2>4
    <3>2. c[n] \in Seq(S) /\ ToSet(c[n]) = ToSet(c[n - 1]) \cup {fs[n]}
      BY <2>2, <3>1, ToSetAppend, AppendProperties
    <3>3. {fs[i] : i \in {k \in 1 .. n : (fs[k].type = t) = yes}} =
          {fs[i] : i \in {k \in 1 .. n - 1 : (fs[k].type = t) = yes}} \cup {fs[n]}
      BY <2>3, <2>4
    <3>4. QED
      BY <1>5, <3>2, <3>3
  <2>5. CASE ~((fs[n].type = t) = yes)
    <3>1. {k \in 1 .. n : (fs[k].type = t) = yes} = {k \in 1 .. n - 1 : (fs[k].type = t) = yes}
      BY <2>3, <2>5
    <3>2. QED
      BY <1>5, <2>1, <2>5, <3>1
  <2>6. QED
    BY <2>4, <2>5
<1>6. Bad = {}
  <2> SUFFICES ASSUME Bad # {} PROVE FALSE
    OBVIOUS
  <2>1. Bad \in SUBSET Nat
    BY <1>1
  <2>2. PICK m \in Bad : \A y \in Bad : m <= y
    BY <2>1, LeastOne
  <2> HIDE DEF Good
  <2>3. m \in 0 .. L /\ ~Good(m) /\ m # 0
    BY <1>4, <2>2
  <2>4. m \in 1 .. L /\ m - 1 \in 0 .. L /\ m - 1 \notin Bad
    BY <1>1, <2>1, <2>2, <2>3
  <2>5. Good(m - 1)
    BY <2>4
  <2>6. QED
    BY <1>5, <2>3, <2>4, <2>5
<1>7. Good(L)
  <2> HIDE DEF Good
  <2>1. L \in 0 .. L
    BY <1>1
  <2>2. QED
    BY <1>6, <2>1
<1>8. ToSet(fs) = {fs[i] : i \in 1 .. L}
  BY <1>1 DEF ToSet
<1>9. QED
  BY <1>2, <1>7, <1>8

-----------------------------------------------------------------------------
(* The disk *)

Original(n) == [of |-> {i \in Ids : InputFile(i).name = n}, whole |-> TRUE]

\* The inputs are there as they were.
Safe(d) == \A n \in InputNames : n \in DOMAIN d /\ d[n] = Original(n)

\* Files that are not whole are temporary, or known to be spoiled.
Tidy(d, sp) == \A n \in DOMAIN d : d[n].whole \/ n \in sp \/ n.dir = "temp"

DiskOK(d, sp) == (NamesApart => Safe(d)) /\ (~args.flag_keep_err => Tidy(d, sp))

Ins(in) == \A f \in ToSet(in) : Fine(f)
Outs(out) == \A f \in ToSet(out) : Fine(f) /\ f.storage # "INPUT_FILE"

LEMMA DiskRemoved ==
  ASSUME NEW d, NEW sp, NEW X, DiskOK(d, sp), NamesApart => X \cap InputNames = {}
  PROVE  DiskOK(Removed(d, X), sp)
<1>1. DOMAIN Removed(d, X) = DOMAIN d \ X /\ \A n \in DOMAIN d \ X : Removed(d, X)[n] = d[n]
  BY DEF Removed
<1>2. NamesApart => Safe(Removed(d, X))
  BY <1>1 DEF DiskOK, Safe
<1>3. ~args.flag_keep_err => Tidy(Removed(d, X), sp)
  BY <1>1 DEF DiskOK, Tidy
<1>4. QED
  BY <1>2, <1>3 DEF DiskOK

\* What main_end leaves.
LEMMA DiskEnded ==
  ASSUME args \in DriverArg, NEW d, NEW sp, DiskOK(d, sp), NEW status
  PROVE  /\ DiskOK(RemoveTempdir(d, status), sp)
         /\ ~args.flag_keep_err => \A n \in DOMAIN RemoveTempdir(d, status) : n.dir # "temp"
<1>1. PICK r : r = RemoveTempdir(d, status)
  OBVIOUS
<1>2. (r = d /\ args.flag_keep_err) \/ r = [n \in {m \in DOMAIN d : m.dir # "temp"} |-> d[n]]
  BY <1>1 DEF RemoveTempdir
<1>3. CASE r = d /\ args.flag_keep_err
  BY <1>1, <1>3
<1>4. CASE r = [n \in {m \in DOMAIN d : m.dir # "temp"} |-> d[n]]
  <2>1. DOMAIN r = {m \in DOMAIN d : m.dir # "temp"} /\ \A n \in DOMAIN r : r[n] = d[n] /\ n \in DOMAIN d
    BY <1>4
  <2>2. NamesApart => Safe(r)
    BY <2>1, InputName DEF DiskOK, Safe
  <2>3. ~args.flag_keep_err => Tidy(r, sp)
    BY <2>1 DEF DiskOK, Tidy
  <2>4. QED
    BY <1>1, <2>1, <2>2, <2>3 DEF DiskOK
<1>5. QED
  BY <1>2, <1>3, <1>4

LEMMA OutNames ==
  ASSUME args \in DriverArg, NamesApart, NEW f, Fine(f), f.storage # "INPUT_FILE"
  PROVE  f.name \notin InputNames
<1>1. f.storage \in {"INPUT_FILE", "TEMP_FILE", "OUTPUT_FILE"}
  BY DEF Fine, FileRecords
<1>2. CASE f.storage = "TEMP_FILE"
  <2>1. f.name.dir = "temp"
    BY <1>2 DEF Fine
  <2>2. QED
    BY <2>1, InputName
<1>3. CASE f.storage = "OUTPUT_FILE"
  BY <1>3 DEF Fine
<1>4. QED
  BY <1>1, <1>2, <1>3

\* What execute may remove is not an input.
LEMMA MayRemove ==
  ASSUME args \in DriverArg, NamesApart, NEW in, NEW out, Ins(in), Outs(out)
  PROVE  (Unneeded(in) \cup Junk(out) \cup Names(out)) \cap InputNames = {}
<1>1. \A n \in Unneeded(in) : \E f \in ToSet(in) : n = f.name /\ f.storage = "TEMP_FILE"
  BY DEF Unneeded
<1>2. \A n \in Junk(out) \cup Names(out) : \E f \in ToSet(out) : n = f.name
  BY DEF Junk, Names
<1>3. \A n \in Unneeded(in) : n \notin InputNames
  BY <1>1, OutNames DEF Ins
<1>4. \A n \in Junk(out) \cup Names(out) : n \notin InputNames
  BY <1>2, OutNames DEF Outs
<1>5. QED
  BY <1>3, <1>4

LEMMA DiskWritten ==
  ASSUME args \in DriverArg, NEW sp, DiskOK(disk, sp), NEW in, NEW out, Ins(in), Outs(out)
  PROVE  /\ DiskOK(Written(in, out, TRUE), sp)
         /\ \A d \in FailedDisks(in, out) :
              /\ NamesApart => Safe(d)
              /\ DiskOK(Removed(d, Junk(out)), sp)
              /\ DiskOK(Removed(d, Unneeded(in) \cup Junk(out)), sp)
<1>1. ASSUME NEW w, NamesApart PROVE Safe(Written(in, out, w))
  <2>1. \A n \in InputNames : n \notin Names(out) /\ n \in DOMAIN disk /\ disk[n] = Original(n)
    BY <1>1, MayRemove DEF DiskOK, Safe
  <2>2. QED
    BY <2>1 DEF Written, Safe
<1>2. ASSUME ~args.flag_keep_err PROVE Tidy(Written(in, out, TRUE), sp)
  <2>1. \A n \in DOMAIN disk : disk[n].whole \/ n \in sp \/ n.dir = "temp"
    BY <1>2 DEF DiskOK, Tidy
  <2>2. QED
    BY <2>1 DEF Written, Tidy
<1>3. ASSUME NEW d \in FailedDisks(in, out)
      PROVE  /\ NamesApart => Safe(d)
             /\ DiskOK(Removed(d, Junk(out)), sp)
             /\ DiskOK(Removed(d, Unneeded(in) \cup Junk(out)), sp)
  <2>1. d = disk \/ d = Written(in, out, FALSE)
    BY <1>3 DEF FailedDisks
  <2>2. NamesApart => Safe(d)
    BY <1>1, <2>1 DEF DiskOK
  <2>3. ASSUME ~args.flag_keep_err, NEW X, Junk(out) \subseteq X
        PROVE  Tidy(Removed(d, X), sp)
    <3>1. \A n \in DOMAIN disk : disk[n].whole \/ n \in sp \/ n.dir = "temp"
      BY <2>3 DEF DiskOK, Tidy
    <3>2. ASSUME NEW n \in Names(out), n \notin X PROVE n.dir = "temp"
      <4>1. PICK f \in ToSet(out) : n = f.name
        BY <3>2 DEF Names
      <4>2. f.storage # "OUTPUT_FILE"
        BY <2>3, <3>2, <4>1 DEF Junk
      <4>3. f.storage = "TEMP_FILE"
        BY <4>1, <4>2 DEF Outs, Fine, FileRecords
      <4>4. QED
        BY <4>1, <4>3 DEF Outs, Fine
    <3>3. \A n \in DOMAIN d : n \notin X => d[n].whole \/ n \in sp \/ n.dir = "temp"
      BY <2>1, <3>1, <3>2 DEF Written
    <3>4. QED
      BY <3>3 DEF Tidy, Removed
  <2>4. ASSUME NEW X, Junk(out) \subseteq X, X \subseteq Unneeded(in) \cup Junk(out)
        PROVE  DiskOK(Removed(d, X), sp)
    <3>1. NamesApart => Safe(Removed(d, X))
      <4>1. NamesApart => X \cap InputNames = {}
        BY <2>4, MayRemove
      <4>2. QED
        BY <2>2, <4>1 DEF Safe, Removed
    <3>2. QED
      BY <2>3, <2>4, <3>1 DEF DiskOK
  <2>5. QED
    BY <2>2, <2>4
<1>4. QED
  BY <1>1, <1>2, <1>3 DEF DiskOK

\* A command, however it ends.
LEMMA DiskExecuted ==
  ASSUME args \in DriverArg, NEW sp, DiskOK(disk, sp), NEW in, NEW out, Ins(in), Outs(out), NEW r,
         execute(in, out, r)
  PROVE  DiskOK(disk', sp)
<1>1. NamesApart => (Unneeded(in) \cup Junk(out)) \cap InputNames = {}
  BY MayRemove
<1>2. CASE disk' = Removed(Written(in, out, TRUE), Unneeded(in))
  BY <1>1, <1>2, DiskWritten, DiskRemoved
<1>3. CASE \E d \in FailedDisks(in, out) : disk' = Removed(d, Unneeded(in) \cup Junk(out))
  BY <1>3, DiskWritten
<1>4. CASE disk' = Removed(RemoveTempdir(disk, "FAILURE"), Unneeded(in) \cup Junk(out))
  BY <1>1, <1>4, DiskEnded, DiskRemoved
<1>5. QED
  BY <1>2, <1>3, <1>4 DEF execute

-----------------------------------------------------------------------------
(* The lists of files *)

Files(s) == s \in Seq(FileRecords) /\ \A f \in ToSet(s) : Fine(f)

\* The capsules among the inputs are not lost before uniq_filename looks at them.
CapsulesKept ==
  \A i \in Ids : args.inputs[i].type = "j" =>
    /\ pc = "produce" =>
         InputFile(i) \in ToSet(todo) \/ InputFile(i) = cur \/ InputFile(i) \in ToSet(done)
    /\ pc = "build" => InputFile(i) \in ToSet(links)

Listed ==
  /\ args \in DriverArg /\ seq \in Nat
  /\ Files(todo) /\ Files(done) /\ Files(links)
  /\ \A f : f = cur /\ f # NULL => Fine(f)
  /\ pc \in {"produce", "build", "move"} => args.make_complex
  /\ pc = "move" => /\ Len(todo) = 2 /\ todo[1].storage = "TEMP_FILE"
                    /\ todo[2].storage # "INPUT_FILE"
  /\ CapsulesKept

\* The command line does not change, nor what is said of files on its account.
LEMMA Rigid ==
  ASSUME args' = args
  PROVE  /\ Ids' = Ids /\ InputNames' = InputNames /\ (NamesApart' <=> NamesApart)
         /\ \A i : InputFile(i)' = InputFile(i)
<1>1. Ids' = Ids
  BY DEF Ids
<1>2. \A i : InputFile(i)' = InputFile(i)
  BY DEF InputFile
<1>3. InputNames' = InputNames
  BY <1>1, <1>2 DEF InputNames
<1>4. NamesApart' <=> NamesApart
  BY <1>1 DEF NamesApart
<1>5. QED
  BY <1>1, <1>2, <1>3, <1>4

LEMMA RigidFine ==
  ASSUME args' = args
  PROVE  /\ \A f : Fine(f)' <=> Fine(f)
         /\ \A s : Files(s)' <=> Files(s)
<1>1. Ids' = Ids /\ InputNames' = InputNames /\ (NamesApart' <=> NamesApart)
  BY Rigid
<1>2. \A f : Sprung(f)' <=> Sprung(f)
  BY <1>1 DEF Sprung
<1>3. \A f : Fine(f)' <=> Fine(f)
  BY <1>1, <1>2 DEF Fine
<1>4. \A s : Files(s)' <=> Files(s)
  BY <1>3 DEF Files
<1>5. QED
  BY <1>3, <1>4

LEMMA FilesEmpty == Files(<<>>)
BY DEF Files, ToSet

LEMMA FilesAppend ==
  ASSUME NEW s, Files(s), NEW f, Fine(f)
  PROVE  Files(Append(s, f)) /\ ToSet(Append(s, f)) = ToSet(s) \cup {f}
<1>1. f \in FileRecords /\ s \in Seq(FileRecords)
  BY DEF Fine, Files
<1>2. Append(s, f) \in Seq(FileRecords) /\ ToSet(Append(s, f)) = ToSet(s) \cup {f}
  BY <1>1, ToSetAppend, AppendProperties
<1>3. QED
  BY <1>2 DEF Files

LEMMA FilesHead ==
  ASSUME NEW s, Files(s), s # <<>>
  PROVE  Fine(Head(s)) /\ Files(Tail(s)) /\ ToSet(s) = {Head(s)} \cup ToSet(Tail(s))
<1>1. s \in Seq(FileRecords)
  BY DEF Files
<1>2. ToSet(s) = {Head(s)} \cup ToSet(Tail(s)) /\ Tail(s) \in Seq(FileRecords)
  BY <1>1, ToSetHead
<1>3. QED
  BY <1>2 DEF Files

LEMMA FilesConcat ==
  ASSUME NEW r, NEW s, Files(r), Files(s)
  PROVE  Files(r \o s)
<1>1. ToSet(r \o s) = ToSet(r) \cup ToSet(s) /\ r \o s \in Seq(FileRecords)
  BY ToSetConcat DEF Files
<1>2. QED
  BY <1>1 DEF Files

LEMMA FilesOne ==
  ASSUME NEW f, Fine(f)
  PROVE  Files(<<f>>) /\ ToSet(<<f>>) = {f}
<1>1. f \in FileRecords
  BY DEF Fine
<1>2. <<f>> \in Seq(FileRecords) /\ DOMAIN <<f>> = 1 .. 1 /\ <<f>>[1] = f
  BY <1>1
<1>3. ToSet(<<f>>) = {f}
  BY <1>2 DEF ToSet
<1>4. QED
  BY <1>2, <1>3 DEF Files

LEMMA FilesTwo ==
  ASSUME NEW f, NEW g, Fine(f), Fine(g)
  PROVE  Files(<<f, g>>)
<1>1. f \in FileRecords /\ g \in FileRecords
  BY DEF Fine
<1>2. <<f, g>> \in Seq(FileRecords) /\ DOMAIN <<f, g>> = 1 .. 2 /\ <<f, g>>[1] = f /\ <<f, g>>[2] = g
  BY <1>1
<1>3. \A i \in 1 .. 2 : i = 1 \/ i = 2
  OBVIOUS
<1>4. \A x \in ToSet(<<f, g>>) : x = f \/ x = g
  BY <1>2, <1>3 DEF ToSet
<1>5. QED
  BY <1>2, <1>4 DEF Files

LEMMA FilesChosen ==
  ASSUME NEW s, Files(s), NEW t
  PROVE  /\ Files(OfType(s, t)) /\ Files(NotOfType(s, t))
         /\ ToSet(OfType(s, t)) = {f \in ToSet(s) : f.type = t}
         /\ ToSet(NotOfType(s, t)) = {f \in ToSet(s) : f.type # t}
<1>1. s \in Seq(FileRecords)
  BY DEF Files
<1>2. PICK y, n : y = TRUE /\ n = FALSE
  OBVIOUS
<1>3. Chosen(s, t, y) \in Seq(FileRecords) /\ ToSet(Chosen(s, t, y)) = {f \in ToSet(s) : (f.type = t) = y}
  BY <1>1, ChosenIs
<1>4. Chosen(s, t, n) \in Seq(FileRecords) /\ ToSet(Chosen(s, t, n)) = {f \in ToSet(s) : (f.type = t) = n}
  BY <1>1, ChosenIs
<1>5. OfType(s, t) = Chosen(s, t, y) /\ NotOfType(s, t) = Chosen(s, t, n)
  BY <1>2, Zenon DEF OfType, NotOfType
<1>6. ToSet(OfType(s, t)) = {f \in ToSet(s) : f.type = t} /\ ToSet(NotOfType(s, t)) = {f \in ToSet(s) : f.type # t}
  BY <1>2, <1>3, <1>4, <1>5
<1>7. QED
  BY <1>3, <1>4, <1>5, <1>6 DEF Files

LEMMA FilesInputs ==
  ASSUME args \in DriverArg
  PROVE  Files(InputList) /\ \A i \in Ids : InputFile(i) \in ToSet(InputList)
<1>1. Len(args.inputs) \in Nat
  BY DEF DriverArg
<1>2. \A i \in Ids : Fine(InputFile(i)) /\ InputFile(i) \in FileRecords
  BY InputIsFine DEF Fine
<1>3. InputList \in Seq(FileRecords)
  BY <1>1, <1>2 DEF InputList, Ids
<1>4. DOMAIN InputList = Ids /\ \A i \in Ids : InputList[i] = InputFile(i)
  BY DEF InputList
<1>5. ToSet(InputList) = {InputFile(i) : i \in Ids}
  BY <1>4 DEF ToSet
<1>6. QED
  BY <1>2, <1>3, <1>5 DEF Files

\* The capsule that -M makes does not have the name of an input, since those that
\* are capsules are among the files to be linked.
LEMMA BuiltName ==
  ASSUME args \in DriverArg, args.make_complex, NEW js, ToSet(js) \subseteq FileRecords,
         \A i \in Ids : args.inputs[i].type = "j" => InputFile(i) \in ToSet(js)
  PROVE  /\ Fine(UniqFilename(js, ComplexFile))
         /\ UniqFilename(js, ComplexFile).storage # "INPUT_FILE"
<1>1. PICK s : s = where("J") /\ s \in Storages
  BY WhereIs
<1>2. PICK q : q = ComplexFile
  OBVIOUS
<1>3. q = [name |-> [dir |-> DirOf(s), base |-> "a", no |-> 0, type |-> "j"], base |-> "a", no |-> 0,
           type |-> "j", storage |-> Storage(s)]
  BY <1>1, <1>2 DEF ComplexFile, NameOf
<1>4. /\ Storage(s) \in {"TEMP_FILE", "OUTPUT_FILE"} /\ DirOf(s) \in {"temp", "work"}
      /\ Storage(s) = "TEMP_FILE" => DirOf(s) = "temp"
  BY <1>1 DEF Storage, Storages, DirOf
<1>5. PICK v : v = UniqFilename(js, q)
  OBVIOUS
<1>6. PICK e \in {"j", "j+"} :
        /\ v = [name |-> [dir |-> DirOf(s), base |-> "a", no |-> 0, type |-> e], base |-> "a", no |-> 0,
                type |-> "j", storage |-> Storage(s)]
        /\ e = "j" => ~\E f \in Clashes(js, q) : f.storage # "TEMP_FILE"
  <2>1. CASE \E f \in Clashes(js, q) : f.storage # "TEMP_FILE"
    <3>1. v = [q EXCEPT !.name.type = "j+"]
      BY <1>5, <2>1 DEF UniqFilename
    <3>2. v = [name |-> [dir |-> DirOf(s), base |-> "a", no |-> 0, type |-> "j+"], base |-> "a", no |-> 0,
                type |-> "j", storage |-> Storage(s)]
      BY <1>3, <3>1
    <3>3. QED
      BY <3>2
  <2>2. CASE ~\E f \in Clashes(js, q) : f.storage # "TEMP_FILE"
    BY <1>3, <1>5, <2>2 DEF UniqFilename
  <2>3. QED
    BY <2>1, <2>2
<1>7. v.name \in DiskNames
  BY <1>4, <1>6 DEF DiskNames, Bases
<1>8. v \in FileRecords
  BY <1>4, <1>6, <1>7 DEF FileRecords, Bases
<1>9. Sprung(v)
  BY <1>6 DEF Sprung
<1>10. ASSUME v.name \in InputNames PROVE FALSE
  <2>1. PICK i \in Ids : v.name = InputFile(i).name
    BY <1>10 DEF InputNames
  <2>2. v.name = NameOf(args.inputs[i].dir, args.inputs[i].base, 0, args.inputs[i].type)
    BY <2>1 DEF InputFile
  <2>3. e = args.inputs[i].type /\ e = "j"
    BY <1>6, <2>2, InputTyped DEF NameOf
  <2>4. InputFile(i) \in ToSet(js) /\ InputFile(i).storage = "INPUT_FILE"
    BY <2>3, InputIsFine
  <2>5. InputFile(i).name = q.name
    BY <1>3, <1>6, <2>1, <2>3
  <2>6. QED
    BY <1>6, <2>3, <2>4, <2>5 DEF Clashes
<1>11. /\ v.storage = Storage(s) /\ v.name.dir = DirOf(s) /\ v.type = "j"
  BY <1>6
<1>12. QED
  BY <1>2, <1>4, <1>5, <1>8, <1>9, <1>10, <1>11 DEF Fine

\* Where the output goes at first.
LEMMA BuiltTemp ==
  ASSUME args \in DriverArg, seq \in Nat, args.make_complex, NEW js, ToSet(js) \subseteq FileRecords,
         \A i \in Ids : args.inputs[i].type = "j" => InputFile(i) \in ToSet(js)
  PROVE  /\ Fine(UniqTempfile(js, ComplexFile))
         /\ UniqTempfile(js, ComplexFile).storage # "INPUT_FILE"
         /\ \/ UniqTempfile(js, ComplexFile) = UniqFilename(js, ComplexFile)
            \/ UniqTempfile(js, ComplexFile).storage = "TEMP_FILE"
<1>1. PICK v : v = make_filename(NULL, "j", "TEMP_FILE")
  OBVIOUS
<1>2. ~SameType(NULL, "j") /\ ~SharesName(NULL, "j", "TEMP_FILE") /\ MakesUp(NULL, "j", "TEMP_FILE")
  BY DEF SameType, SharesName, MakesUp
<1>3. v = [name |-> [dir |-> "temp", base |-> "_tcc", no |-> seq + 1, type |-> "j"], base |-> "_tcc",
           no |-> seq + 1, type |-> "j", storage |-> "TEMP_FILE"]
  BY <1>1, <1>2 DEF make_filename, NameOf, DirOf, Storage
<1>4. v.name \in DiskNames
  BY <1>3 DEF DiskNames, Bases
<1>5. v \in FileRecords
  BY <1>3, <1>4 DEF FileRecords, Bases
<1>6. Fine(v) /\ v.storage = "TEMP_FILE"
  BY <1>3, <1>5 DEF Fine, Sprung
<1>7. UniqTempfile(js, ComplexFile) \in {v, UniqFilename(js, ComplexFile)}
  BY <1>1 DEF UniqTempfile
<1>8. QED
  BY <1>6, <1>7, BuiltName

LEMMA ExecutableIsFine ==
  ASSUME args \in DriverArg
  PROVE  Fine(ExecutableFile) /\ ExecutableFile.storage = "OUTPUT_FILE"
<1>1. PICK v : v = ExecutableFile
  OBVIOUS
<1>2. v = [name |-> [dir |-> "work", base |-> "a.out", no |-> 0, type |-> "x"], base |-> "a.out", no |-> 0,
           type |-> "x", storage |-> "OUTPUT_FILE"]
  BY <1>1 DEF ExecutableFile, NameOf
<1>3. v.name \in DiskNames
  BY <1>2 DEF DiskNames, Bases
<1>4. v \in FileRecords
  BY <1>2, <1>3 DEF FileRecords, Bases
<1>5. v.name \notin InputNames
  BY <1>2, InputName
<1>6. QED
  BY <1>1, <1>2, <1>4, <1>5 DEF Fine, Sprung

LEMMA ListedNext ==
  ASSUME Listed, args' = args, seq' \in Nat, Files(todo'), Files(done'), Files(links'),
         \A f : f = cur' /\ f # NULL => Fine(f),
         pc' \in {"produce", "build", "move"} => args.make_complex,
         pc' = "move" => /\ Len(todo') = 2 /\ todo'[1].storage = "TEMP_FILE"
                         /\ todo'[2].storage # "INPUT_FILE",
         \A i \in Ids : args.inputs[i].type = "j" =>
           /\ pc' = "produce" =>
                InputFile(i) \in ToSet(todo') \/ InputFile(i) = cur' \/ InputFile(i) \in ToSet(done')
           /\ pc' = "build" => InputFile(i) \in ToSet(links')
  PROVE  Listed'
<1>1. CapsulesKept'
  BY Rigid DEF CapsulesKept
<1>2. Files(todo)' /\ Files(done)' /\ Files(links)'
  BY RigidFine
<1>3. \A f : f = cur' /\ f # NULL => Fine(f)'
  BY RigidFine
<1>4. QED
  BY <1>1, <1>2, <1>3 DEF Listed

\* A step that leaves the lists alone and does not begin another phase with them.
LEMMA ListedStays ==
  ASSUME Listed, args' = args, UNCHANGED <<seq, todo, cur, done, links>>,
         pc' = pc \/ pc' \notin {"produce", "build", "move"}
  PROVE  Listed'
<1>1. /\ Files(todo') /\ Files(done') /\ Files(links') /\ seq' \in Nat
      /\ \A f : f = cur' /\ f # NULL => Fine(f)
  BY DEF Listed
<1>2. /\ pc' \in {"produce", "build", "move"} => args.make_complex
      /\ pc' = "move" => /\ Len(todo') = 2 /\ todo'[1].storage = "TEMP_FILE"
                         /\ todo'[2].storage # "INPUT_FILE"
  BY DEF Listed
<1>3. \A i \in Ids : args.inputs[i].type = "j" =>
        /\ pc' = "produce" =>
             InputFile(i) \in ToSet(todo') \/ InputFile(i) = cur' \/ InputFile(i) \in ToSet(done')
        /\ pc' = "build" => InputFile(i) \in ToSet(links')
  BY DEF Listed, CapsulesKept
<1>4. QED
  BY <1>1, <1>2, <1>3, ListedNext

LEMMA StoppedLists ==
  ASSUME Listed, NEW in, NEW out, StoppedIn(in, out)
  PROVE  Listed'
<1>1. args' = args /\ UNCHANGED <<seq, todo, cur, done, links>> /\ pc' \in {"exited", "killed"}
  BY DEF StoppedIn, Signalled, Interrupted, main_end
<1>2. QED
  BY <1>1, ListedStays

LEMMA ListedInit ==
  ASSUME DriverInit
  PROVE  Listed
<1>1. args \in DriverArg
  BY DriverAssumption DEF DriverInit
<1>2. Files(todo) /\ Files(done) /\ Files(links)
  BY FilesEmpty DEF DriverInit
<1>3. QED
  BY <1>1, <1>2 DEF DriverInit, Listed, CapsulesKept

LEMMA TakeFileListed ==
  ASSUME Listed, TakeFile
  PROVE  Listed'
<1>1. /\ cur = NULL /\ cur' = Head(todo) /\ todo' = Tail(todo) /\ args' = args /\ pc' = pc
      /\ UNCHANGED <<seq, done, links>> /\ pc \in {"produce", "compile"}
  BY DEF TakeFile
<1>2. Fine(Head(todo)) /\ Files(Tail(todo)) /\ ToSet(todo) = {Head(todo)} \cup ToSet(Tail(todo))
  BY FilesHead DEF Listed, TakeFile
<1>3. \A i \in Ids : InputFile(i) # NULL
  BY InputNotNull DEF Listed
<1>4. seq' \in Nat /\ Files(todo') /\ Files(done') /\ Files(links') /\ \A f : f = cur' /\ f # NULL => Fine(f)
  BY <1>1, <1>2 DEF Listed
<1>5. \A i \in Ids : args.inputs[i].type = "j" =>
        /\ pc' = "produce" =>
             InputFile(i) \in ToSet(todo') \/ InputFile(i) = cur' \/ InputFile(i) \in ToSet(done')
        /\ pc' = "build" => InputFile(i) \in ToSet(links')
  BY <1>1, <1>2, <1>3 DEF Listed, CapsulesKept
<1>6. /\ pc' \in {"produce", "build", "move"} => args.make_complex
      /\ pc' # "move"
  BY <1>1 DEF Listed
<1>7. QED
  BY <1>1, <1>4, <1>5, <1>6, ListedNext

LEMMA FileDoneListed ==
  ASSUME Listed, FileDone
  PROVE  Listed'
<1>1. /\ cur # NULL /\ cur' = NULL /\ done' = Append(done, cur) /\ args' = args /\ pc' = pc
      /\ UNCHANGED <<seq, todo, links>> /\ pc \in {"produce", "compile"}
  BY DEF FileDone
<1>2. Files(done') /\ ToSet(done') = ToSet(done) \cup {cur}
  BY <1>1, FilesAppend DEF Listed
<1>3. seq' \in Nat /\ Files(todo') /\ Files(links')
  BY <1>1 DEF Listed
<1>4. \A i \in Ids : args.inputs[i].type = "j" =>
        /\ pc' = "produce" =>
             InputFile(i) \in ToSet(todo') \/ InputFile(i) = cur' \/ InputFile(i) \in ToSet(done')
        /\ pc' = "build" => InputFile(i) \in ToSet(links')
  BY <1>1, <1>2 DEF Listed, CapsulesKept
<1>5. /\ pc' \in {"produce", "build", "move"} => args.make_complex
      /\ pc' # "move"
  BY <1>1 DEF Listed
<1>6. QED
  BY <1>1, <1>2, <1>3, <1>4, <1>5, ListedNext

\* The output of the stage that a file is given to.
LEMMA StageFine ==
  ASSUME Listed, cur # NULL, HasStage(cur), NEW t, t = NextType[cur.type], NEW out,
         out = make_filename(cur, t, where(t))
  PROVE  /\ Fine(cur) /\ Fine(out) /\ out.storage # "INPUT_FILE" /\ SeqAfter(cur, t, where(t)) \in Nat
         /\ cur.type \in {"c", "j", "t", "s"} /\ (pc = "produce" => cur.type = "c")
<1>1. Fine(cur) /\ args \in DriverArg /\ seq \in Nat
  BY DEF Listed
<1>2. cur.type \in {"c", "j", "t", "s"} /\ (pc = "produce" => cur.type = "c")
  BY DEF HasStage
<1>3. where(t) \in Storages
  BY WhereIs
<1>4. QED
  BY <1>1, <1>2, <1>3, StageOutput

LEMMA RunStageListed ==
  ASSUME Listed, RunStage
  PROVE  Listed'
<1>1. cur # NULL /\ HasStage(cur) /\ pc \in {"produce", "compile"}
  BY DEF RunStage
<1>2. PICK t, out : t = NextType[cur.type] /\ out = make_filename(cur, t, where(t))
  OBVIOUS
<1>3. \/ /\ cur' \in {out, NULL} /\ seq' = SeqAfter(cur, t, where(t))
         /\ UNCHANGED <<args, pc, todo, done, links>>
      \/ StoppedIn(<<cur>>, <<out>>)
  BY <1>2 DEF RunStage
<1>4. CASE StoppedIn(<<cur>>, <<out>>)
  BY <1>4, StoppedLists
<1>5. CASE /\ cur' \in {out, NULL} /\ seq' = SeqAfter(cur, t, where(t))
           /\ UNCHANGED <<args, pc, todo, done, links>>
  <2>1. Fine(out) /\ seq' \in Nat /\ (pc = "produce" => cur.type = "c")
    BY <1>1, <1>2, <1>5, StageFine
  <2>2. Files(todo') /\ Files(done') /\ Files(links') /\ \A f : f = cur' /\ f # NULL => Fine(f)
    BY <1>5, <2>1 DEF Listed
  <2>3. \A i \in Ids : args.inputs[i].type = "j" => InputFile(i).type = "j"
    BY DEF InputFile
  <2>4. \A i \in Ids : args.inputs[i].type = "j" =>
          /\ pc' = "produce" =>
               InputFile(i) \in ToSet(todo') \/ InputFile(i) = cur' \/ InputFile(i) \in ToSet(done')
          /\ pc' = "build" => InputFile(i) \in ToSet(links')
    BY <1>1, <1>5, <2>1, <2>3 DEF Listed, CapsulesKept
  <2>5. /\ pc' \in {"produce", "build", "move"} => args.make_complex
        /\ pc' # "move"
    BY <1>1, <1>5 DEF Listed
  <2>6. QED
    BY <1>5, <2>1, <2>2, <2>4, <2>5, ListedNext
<1>6. QED
  BY <1>3, <1>4, <1>5

LEMMA EndCompileListed ==
  ASSUME Listed, EndCompile
  PROVE  Listed'
<1>1. /\ cur = NULL /\ todo = <<>> /\ links' = done /\ done' = <<>> /\ args' = args
      /\ UNCHANGED <<seq, todo, cur>> /\ pc \in {"produce", "compile"}
      /\ pc' = IF pc = "produce" THEN "build" ELSE "link"
  BY DEF EndCompile
<1>2. seq' \in Nat /\ Files(todo') /\ Files(done') /\ Files(links') /\ \A f : f = cur' /\ f # NULL => Fine(f)
  BY <1>1, FilesEmpty DEF Listed
<1>3. ToSet(<<>>) = {}
  BY DEF ToSet
<1>4. \A i \in Ids : InputFile(i) # NULL
  BY InputNotNull DEF Listed
<1>5. \A i \in Ids : args.inputs[i].type = "j" =>
        /\ pc' = "produce" =>
             InputFile(i) \in ToSet(todo') \/ InputFile(i) = cur' \/ InputFile(i) \in ToSet(done')
        /\ pc' = "build" => InputFile(i) \in ToSet(links')
  BY <1>1, <1>3, <1>4 DEF Listed, CapsulesKept
<1>6. /\ pc' \in {"produce", "build", "move"} => args.make_complex
      /\ pc' # "move"
  BY <1>1 DEF Listed
<1>7. QED
  BY <1>1, <1>2, <1>5, <1>6, ListedNext

LEMMA MkdirListed ==
  ASSUME Listed, temp_mkdir
  PROVE  Listed'
<1>1. /\ args' = args /\ UNCHANGED <<seq, cur, done, links>> /\ pc = "mkdir"
      /\ \/ todo' = InputList /\ pc' = IF args.make_complex THEN "produce" ELSE "compile"
         \/ UNCHANGED <<pc, todo>>
  BY DEF temp_mkdir
<1>2. CASE UNCHANGED <<pc, todo>>
  BY <1>1, <1>2, ListedStays
<1>3. CASE todo' = InputList /\ pc' = IF args.make_complex THEN "produce" ELSE "compile"
  <2>1. Files(todo') /\ \A i \in Ids : InputFile(i) \in ToSet(todo')
    BY <1>3, FilesInputs DEF Listed
  <2>2. seq' \in Nat /\ Files(done') /\ Files(links') /\ \A f : f = cur' /\ f # NULL => Fine(f)
    BY <1>1 DEF Listed
  <2>3. /\ pc' \in {"produce", "build", "move"} => args.make_complex
        /\ pc' # "move" /\ pc' # "build"
    BY <1>3
  <2>4. QED
    BY <1>1, <2>1, <2>2, <2>3, ListedNext
<1>4. QED
  BY <1>1, <1>2, <1>3

\* What is compiled after the capsule has been built, or not.
LEMMA GoOnListed ==
  ASSUME Listed, NEW built, Files(built), GoOn(built), args' = args, seq' \in Nat,
         UNCHANGED <<cur, done>>
  PROVE  Listed'
<1>1. /\ pc' = "compile" /\ todo' = built \o NotOfType(links, "j") /\ links' = <<>>
  BY DEF GoOn
<1>2. Files(NotOfType(links, "j"))
  BY FilesChosen DEF Listed
<1>3. Files(todo') /\ Files(links') /\ Files(done') /\ \A f : f = cur' /\ f # NULL => Fine(f)
  BY <1>1, <1>2, FilesConcat, FilesEmpty DEF Listed
<1>4. QED
  BY <1>1, <1>3, ListedNext

\* The capsules to be linked, and the file that is to hold the result.
LEMMA BuildFine ==
  ASSUME Listed, pc = "build", NEW js, js = OfType(links, "j")
  PROVE  /\ Files(js)
         /\ Fine(UniqFilename(js, ComplexFile)) /\ UniqFilename(js, ComplexFile).storage # "INPUT_FILE"
         /\ Fine(UniqTempfile(js, ComplexFile)) /\ UniqTempfile(js, ComplexFile).storage # "INPUT_FILE"
         /\ \/ UniqTempfile(js, ComplexFile) = UniqFilename(js, ComplexFile)
            \/ UniqTempfile(js, ComplexFile).storage = "TEMP_FILE"
<1>1. Files(js) /\ ToSet(js) = {f \in ToSet(links) : f.type = "j"}
  BY FilesChosen DEF Listed
<1>2. ToSet(js) \subseteq FileRecords
  BY <1>1 DEF Files, Fine
<1>3. \A i \in Ids : args.inputs[i].type = "j" => InputFile(i).type = "j"
  BY DEF InputFile
<1>4. \A i \in Ids : args.inputs[i].type = "j" => InputFile(i) \in ToSet(js)
  BY <1>1, <1>3 DEF Listed, CapsulesKept
<1>5. args \in DriverArg /\ seq \in Nat /\ args.make_complex
  BY DEF Listed
<1>6. QED
  BY <1>1, <1>2, <1>4, <1>5, BuiltName, BuiltTemp

LEMMA BuildListed ==
  ASSUME Listed, do_tdf_build
  PROVE  Listed'
<1>1. PICK js, file, temp :
        /\ js = OfType(links, "j") /\ file = UniqFilename(js, ComplexFile)
        /\ temp = UniqTempfile(js, ComplexFile)
  OBVIOUS
<1>2. \/ /\ GoOn(<<>>) /\ UNCHANGED <<args, seq, cur, done>>
      \/ /\ \E r : IF r = "ok" /\ temp # file
                   THEN /\ pc' = "move" /\ todo' = <<temp, file>> /\ UNCHANGED links
                   ELSE GoOn(IF r = "ok" THEN <<file>> ELSE <<>>)
         /\ seq' = IF temp # file THEN seq + 1 ELSE seq
         /\ UNCHANGED <<args, cur, done>>
      \/ StoppedIn(js, <<temp>>)
  BY <1>1 DEF do_tdf_build
<1>3. /\ Fine(file) /\ file.storage # "INPUT_FILE" /\ Fine(temp)
      /\ temp = file \/ temp.storage = "TEMP_FILE"
  BY <1>1, BuildFine DEF do_tdf_build
<1>4. CASE GoOn(<<>>) /\ UNCHANGED <<args, seq, cur, done>>
  BY <1>4, FilesEmpty, GoOnListed DEF Listed
<1>5. CASE StoppedIn(js, <<temp>>)
  BY <1>5, StoppedLists
<1>6. CASE /\ \E r : IF r = "ok" /\ temp # file
                     THEN /\ pc' = "move" /\ todo' = <<temp, file>> /\ UNCHANGED links
                     ELSE GoOn(IF r = "ok" THEN <<file>> ELSE <<>>)
           /\ seq' = IF temp # file THEN seq + 1 ELSE seq
           /\ UNCHANGED <<args, cur, done>>
  <2>1. seq' \in Nat
    BY <1>6 DEF Listed
  <2>2. CASE GoOn(<<file>>) \/ GoOn(<<>>)
    BY <1>3, <1>6, <2>1, <2>2, FilesEmpty, FilesOne, GoOnListed
  <2>3. CASE temp # file /\ pc' = "move" /\ todo' = <<temp, file>> /\ UNCHANGED links
    <3>1. Files(todo')
      BY <1>3, <2>3, FilesTwo
    <3>2. Len(todo') = 2 /\ todo'[1] = temp /\ todo'[2] = file
      BY <2>3
    <3>3. Files(done') /\ Files(links') /\ \A f : f = cur' /\ f # NULL => Fine(f)
      BY <1>6, <2>3 DEF Listed
    <3>4. args.make_complex
      BY DEF Listed, do_tdf_build
    <3>5. QED
      BY <1>3, <1>6, <2>1, <2>3, <3>1, <3>2, <3>3, <3>4, ListedNext
  <2>4. QED
    BY <1>6, <2>2, <2>3
<1>7. QED
  BY <1>2, <1>4, <1>5, <1>6

\* The two files of do_move.
LEMMA MoveFine ==
  ASSUME Listed, pc = "move"
  PROVE  /\ Fine(todo[1]) /\ todo[1].storage = "TEMP_FILE"
         /\ Fine(todo[2]) /\ todo[2].storage # "INPUT_FILE"
<1>1. todo \in Seq(FileRecords) /\ Len(todo) = 2 /\ \A f \in ToSet(todo) : Fine(f)
  BY DEF Listed, Files
<1>2. DOMAIN todo = 1 .. 2
  BY <1>1
<1>3. todo[1] \in ToSet(todo) /\ todo[2] \in ToSet(todo)
  BY <1>2 DEF ToSet
<1>4. QED
  BY <1>1, <1>3 DEF Listed

LEMMA MoveListed ==
  ASSUME Listed, do_move
  PROVE  Listed'
<1>1. PICK from, to : from = todo[1] /\ to = todo[2]
  OBVIOUS
<1>2. \/ /\ GoOn(<<to>>) \/ GoOn(<<>>)
         /\ UNCHANGED <<args, seq, cur, done>>
      \/ StoppedIn(<<from>>, <<to>>)
  BY <1>1 DEF do_move
<1>3. Fine(to)
  BY <1>1, MoveFine DEF do_move
<1>4. Files(<<>>) /\ Files(<<to>>)
  BY <1>3, FilesOne, FilesEmpty
<1>5. QED
  BY <1>2, <1>4, GoOnListed, StoppedLists DEF Listed

LEMMA LinkListed ==
  ASSUME Listed, apply_link
  PROVE  Listed'
<1>1. PICK os, others : os = OfType(links, "o") /\ others = NotOfType(links, "o")
  OBVIOUS
<1>2. \/ /\ args' = args /\ UNCHANGED <<seq, cur, links>> /\ pc' \in {"keep", "return"}
         /\ \/ todo' = links /\ done' = <<>>
            \/ todo' = todo /\ done' \in {os \o others, <<ExecutableFile>> \o others}
      \/ StoppedIn(os, <<ExecutableFile>>)
  BY <1>1 DEF apply_link
<1>3. Files(os) /\ Files(others) /\ Files(<<ExecutableFile>>)
  BY <1>1, FilesChosen, ExecutableIsFine, FilesOne DEF Listed
<1>4. Files(os \o others) /\ Files(<<ExecutableFile>> \o others)
  BY <1>3, FilesConcat
<1>5. CASE StoppedIn(os, <<ExecutableFile>>)
  BY <1>5, StoppedLists
<1>6. CASE /\ args' = args /\ UNCHANGED <<seq, cur, links>> /\ pc' \in {"keep", "return"}
           /\ \/ todo' = links /\ done' = <<>>
              \/ todo' = todo /\ done' \in {os \o others, <<ExecutableFile>> \o others}
  <2>1. /\ seq' \in Nat /\ Files(todo') /\ Files(done') /\ Files(links')
        /\ \A f : f = cur' /\ f # NULL => Fine(f)
    BY <1>4, <1>6, FilesEmpty DEF Listed
  <2>2. QED
    BY <1>6, <2>1, ListedNext
<1>7. QED
  BY <1>2, <1>5, <1>6

\* The object that do_keep moves, and where to.
LEMMA KeepFine ==
  ASSUME Listed, pc = "keep", todo # <<>>, NEW p, p = Head(todo)
  PROVE  /\ Fine(p) /\ Files(Tail(todo))
         /\ MustKeep(p) => /\ p.name.dir = "temp"
                           /\ Fine(make_filename(p, p.type, "PRESERVED_FILE"))
                           /\ make_filename(p, p.type, "PRESERVED_FILE").storage = "OUTPUT_FILE"
<1>1. Fine(p) /\ Files(Tail(todo))
  BY FilesHead DEF Listed
<1>2. QED
  BY <1>1, KeptOutput DEF Listed

LEMMA KeepListed ==
  ASSUME Listed, KeepObject
  PROVE  Listed'
<1>1. PICK p, q : p = Head(todo) /\ q = make_filename(p, p.type, "PRESERVED_FILE")
  OBVIOUS
<1>2. \/ /\ UNCHANGED <<args, pc, seq, cur, links>> /\ todo' = Tail(todo)
         /\ done' = done \/ done' = Append(done, p) \/ (MustKeep(p) /\ done' = Append(done, q))
      \/ args' = args /\ UNCHANGED <<seq, todo, cur, done, links>> /\ pc' \in {"exited", "killed"}
  BY <1>1 DEF KeepObject, main_end, Interrupted
<1>3. pc = "keep" /\ todo # <<>>
  BY DEF KeepObject
<1>4. CASE args' = args /\ UNCHANGED <<seq, todo, cur, done, links>> /\ pc' \in {"exited", "killed"}
  BY <1>4, ListedStays
<1>5. CASE /\ UNCHANGED <<args, pc, seq, cur, links>> /\ todo' = Tail(todo)
           /\ done' = done \/ done' = Append(done, p) \/ (MustKeep(p) /\ done' = Append(done, q))
  <2>1. Fine(p) /\ Files(Tail(todo)) /\ (MustKeep(p) => Fine(q))
    BY <1>1, <1>3, KeepFine
  <2>2. Files(done')
    BY <1>5, <2>1, FilesAppend DEF Listed
  <2>3. /\ seq' \in Nat /\ Files(todo') /\ Files(links') /\ \A f : f = cur' /\ f # NULL => Fine(f)
    BY <1>5, <2>1 DEF Listed
  <2>4. QED
    BY <1>3, <1>5, <2>2, <2>3, ListedNext
<1>6. QED
  BY <1>2, <1>4, <1>5

LEMMA ListedStep ==
  ASSUME Listed, [DriverNext]_driverVars
  PROVE  Listed'
<1>1. CASE ProcessOption \/ EndOptions \/ RetryLimitReached \/ EndKeep \/ Return
  <2>1. args' = args /\ UNCHANGED <<seq, todo, cur, done, links>> /\ pc' \notin {"produce", "build", "move"}
    BY <1>1 DEF ProcessOption, EndOptions, RetryLimitReached, EndKeep, Return, main_end
  <2>2. QED
    BY <2>1, ListedStays
<1>2. CASE UNCHANGED driverVars
  <2>1. args' = args /\ UNCHANGED <<seq, todo, cur, done, links>> /\ pc' = pc
    BY <1>2 DEF driverVars, ctlVars
  <2>2. QED
    BY <2>1, ListedStays
<1>3. CASE temp_mkdir
  BY <1>3, MkdirListed
<1>4. CASE TakeFile
  BY <1>4, TakeFileListed
<1>5. CASE RunStage
  BY <1>5, RunStageListed
<1>6. CASE FileDone
  BY <1>6, FileDoneListed
<1>7. CASE EndCompile
  BY <1>7, EndCompileListed
<1>8. CASE do_tdf_build
  BY <1>8, BuildListed
<1>9. CASE do_move
  BY <1>9, MoveListed
<1>10. CASE apply_link
  BY <1>10, LinkListed
<1>11. CASE KeepObject
  BY <1>11, KeepListed
<1>12. CASE MkdirStopped
  BY <1>12, StoppedLists DEF MkdirStopped
<1>13. QED
  BY <1>1, <1>2, <1>3, <1>4, <1>5, <1>6, <1>7, <1>8, <1>9, <1>10, <1>11, <1>12 DEF DriverNext, Exited

-----------------------------------------------------------------------------
(* The disk in every state *)

DiskInv ==
  /\ NamesApart => Safe(disk)
  /\ ~args.flag_keep_err /\ pc # "killed" => Tidy(disk, spoiled)
  /\ ~args.flag_keep_err /\ pc = "exited" /\ tempdir # "made" =>
       \A n \in DOMAIN disk : n.dir # "temp"

LEMMA DiskNext ==
  ASSUME args' = args, NamesApart => Safe(disk'),
         ~args.flag_keep_err /\ pc' # "killed" => Tidy(disk', spoiled'),
         ~args.flag_keep_err /\ pc' = "exited" /\ tempdir' # "made" =>
           \A n \in DOMAIN disk' : n.dir # "temp"
  PROVE  DiskInv'
<1>1. Ids' = Ids /\ InputNames' = InputNames /\ (NamesApart' <=> NamesApart) /\ \A i : InputFile(i)' = InputFile(i)
  BY Rigid
<1>2. \A n : Original(n)' = Original(n)
  BY <1>1 DEF Original
<1>3. Safe(disk') => Safe(disk)'
  BY <1>1, <1>2 DEF Safe
<1>4. QED
  BY <1>1, <1>3 DEF DiskInv, Tidy

LEMMA DiskGoesOn ==
  ASSUME args' = args, DiskOK(disk', spoiled'), pc' # "exited"
  PROVE  DiskInv'
BY DiskNext DEF DiskOK

LEMMA DiskStays ==
  ASSUME DiskInv, pc # "killed", UNCHANGED <<args, disk, spoiled>>, pc' # "exited"
  PROVE  DiskInv'
BY DiskNext DEF DiskInv

LEMMA DiskAtEnd ==
  ASSUME args \in DriverArg, args' = args, NEW d, DiskOK(d, spoiled'), NEW status, main_end(d, status)
  PROVE  DiskInv'
<1>1. CASE disk' = RemoveTempdir(d, status)
  BY <1>1, DiskEnded, DiskNext DEF DiskOK
<1>2. CASE tempdir' = "made" /\ disk' \in Leftovers(d)
  <2>1. PICK X : X \subseteq {n \in DOMAIN d : n.dir = "temp"} /\ disk' = Removed(d, X)
    BY <1>2 DEF Leftovers
  <2>2. X \cap InputNames = {}
    BY <2>1, InputName
  <2>3. DiskOK(disk', spoiled')
    BY <2>1, <2>2, DiskRemoved
  <2>4. QED
    BY <1>2, <2>3, DiskNext DEF DiskOK
<1>3. QED
  BY <1>1, <1>2 DEF main_end

LEMMA DiskStopped ==
  ASSUME Listed, DiskOK(disk, spoiled), NEW in, NEW out, Ins(in), Outs(out), StoppedIn(in, out)
  PROVE  DiskInv'
<1>1. args \in DriverArg
  BY DEF Listed
<1>2. CASE Signalled(in, out)
  <2>1. PICK d \in FailedDisks(in, out) : main_end(Removed(d, Junk(out)), "FAILURE")
    BY <1>2 DEF Signalled
  <2>2. args' = args /\ spoiled' = spoiled
    BY <1>2 DEF Signalled
  <2>3. DiskOK(Removed(d, Junk(out)), spoiled')
    BY <1>1, <2>1, <2>2, DiskWritten
  <2>4. QED
    BY <1>1, <2>1, <2>2, <2>3, DiskAtEnd
<1>3. CASE Interrupted(in, out)
  <2>1. disk' \in FailedDisks(in, out) /\ pc' = "killed" /\ args' = args
    BY <1>3 DEF Interrupted
  <2>2. NamesApart => Safe(disk')
    BY <1>1, <2>1, DiskWritten
  <2>3. QED
    BY <2>1, <2>2, DiskNext
<1>4. QED
  BY <1>2, <1>3 DEF StoppedIn

LEMMA OneIn ==
  ASSUME NEW f, Fine(f)
  PROVE  Ins(<<f>>) /\ (f.storage # "INPUT_FILE" => Outs(<<f>>))
BY FilesOne DEF Ins, Outs

LEMMA DiskInit ==
  ASSUME DriverInit
  PROVE  DiskInv
<1>1. DOMAIN disk = InputNames /\ \A n \in InputNames : disk[n] = Original(n)
  BY DEF DriverInit, Original
<1>2. Safe(disk)
  BY <1>1 DEF Safe
<1>3. Tidy(disk, spoiled)
  BY <1>1 DEF Tidy, Original
<1>4. pc = "options"
  BY DEF DriverInit
<1>5. QED
  BY <1>2, <1>3, <1>4 DEF DiskInv

LEMMA RunStageDisk ==
  ASSUME Listed, DiskInv, RunStage
  PROVE  DiskInv'
<1>1. cur # NULL /\ HasStage(cur) /\ pc \in {"produce", "compile"}
  BY DEF RunStage
<1>2. PICK t, out : t = NextType[cur.type] /\ out = make_filename(cur, t, where(t))
  OBVIOUS
<1>3. DiskOK(disk, spoiled) /\ args \in DriverArg
  BY <1>1 DEF DiskInv, DiskOK, Listed
<1>4. Ins(<<cur>>) /\ Outs(<<out>>)
  BY <1>1, <1>2, StageFine, OneIn
<1>5. \/ /\ \E r : execute(<<cur>>, <<out>>, r)
         /\ UNCHANGED <<args, pc, spoiled>>
      \/ StoppedIn(<<cur>>, <<out>>)
  BY <1>2 DEF RunStage
<1>6. CASE StoppedIn(<<cur>>, <<out>>)
  BY <1>3, <1>4, <1>6, DiskStopped
<1>7. CASE /\ \E r : execute(<<cur>>, <<out>>, r)
           /\ UNCHANGED <<args, pc, spoiled>>
  <2>1. DiskOK(disk', spoiled)
    BY <1>3, <1>4, <1>7, DiskExecuted
  <2>2. QED
    BY <1>1, <1>7, <2>1, DiskGoesOn
<1>8. QED
  BY <1>5, <1>6, <1>7

LEMMA BuildDisk ==
  ASSUME Listed, DiskInv, do_tdf_build
  PROVE  DiskInv'
<1>1. PICK js, file, temp :
        /\ js = OfType(links, "j") /\ file = UniqFilename(js, ComplexFile)
        /\ temp = UniqTempfile(js, ComplexFile)
  OBVIOUS
<1>2. pc = "build"
  BY DEF do_tdf_build
<1>3. DiskOK(disk, spoiled) /\ args \in DriverArg
  BY <1>2 DEF DiskInv, DiskOK, Listed
<1>4. Ins(js) /\ Outs(<<temp>>)
  BY <1>1, <1>2, BuildFine, OneIn DEF Files, Ins
<1>5. \/ UNCHANGED <<args, disk, spoiled>> /\ pc' = "compile"
      \/ /\ \E r : execute(js, <<temp>>, r)
         /\ pc' \in {"move", "compile"} /\ UNCHANGED <<args, spoiled>>
      \/ StoppedIn(js, <<temp>>)
  BY <1>1 DEF do_tdf_build, GoOn
<1>6. CASE UNCHANGED <<args, disk, spoiled>> /\ pc' = "compile"
  BY <1>2, <1>6, DiskStays
<1>7. CASE StoppedIn(js, <<temp>>)
  BY <1>3, <1>4, <1>7, DiskStopped
<1>8. CASE /\ \E r : execute(js, <<temp>>, r)
           /\ pc' \in {"move", "compile"} /\ UNCHANGED <<args, spoiled>>
  <2>1. DiskOK(disk', spoiled)
    BY <1>3, <1>4, <1>8, DiskExecuted
  <2>2. QED
    BY <1>8, <2>1, DiskGoesOn
<1>9. QED
  BY <1>5, <1>6, <1>7, <1>8

\* A file that was moved is not an input.
LEMMA DiskMoved ==
  ASSUME args \in DriverArg, NEW sp, DiskOK(disk, sp), NEW p, NEW q, Fine(p), Fine(q),
         p.storage = "TEMP_FILE", q.storage # "INPUT_FILE"
  PROVE  DiskOK(Removed(Written(<<p>>, <<q>>, TRUE), {p.name}), sp)
<1>1. NamesApart => {p.name} \cap InputNames = {}
  BY OutNames
<1>2. DiskOK(Written(<<p>>, <<q>>, TRUE), sp)
  BY OneIn, DiskWritten
<1>3. QED
  BY <1>1, <1>2, DiskRemoved

LEMMA MoveDisk ==
  ASSUME Listed, DiskInv, do_move
  PROVE  DiskInv'
<1>1. PICK from, to : from = todo[1] /\ to = todo[2]
  OBVIOUS
<1>2. pc = "move"
  BY DEF do_move
<1>3. DiskOK(disk, spoiled) /\ args \in DriverArg
  BY <1>2 DEF DiskInv, DiskOK, Listed
<1>4. /\ Fine(from) /\ from.storage = "TEMP_FILE" /\ Fine(to) /\ to.storage # "INPUT_FILE"
  BY <1>1, <1>2, MoveFine
<1>5. Ins(<<from>>) /\ Outs(<<to>>)
  BY <1>4, OneIn
<1>6. \/ /\ \/ \E r : execute(<<from>>, <<to>>, r)
            \/ disk' = Removed(Written(<<from>>, <<to>>, TRUE), {from.name})
         /\ pc' = "compile" /\ UNCHANGED <<args, spoiled>>
      \/ StoppedIn(<<from>>, <<to>>)
  BY <1>1 DEF do_move, GoOn
<1>7. CASE StoppedIn(<<from>>, <<to>>)
  BY <1>3, <1>5, <1>7, DiskStopped
<1>8. CASE /\ \/ \E r : execute(<<from>>, <<to>>, r)
              \/ disk' = Removed(Written(<<from>>, <<to>>, TRUE), {from.name})
           /\ pc' = "compile" /\ UNCHANGED <<args, spoiled>>
  <2>1. DiskOK(disk', spoiled)
    BY <1>3, <1>4, <1>5, <1>8, DiskExecuted, DiskMoved
  <2>2. QED
    BY <1>8, <2>1, DiskGoesOn
<1>9. QED
  BY <1>6, <1>7, <1>8

LEMMA LinkDisk ==
  ASSUME Listed, DiskInv, apply_link
  PROVE  DiskInv'
<1>1. PICK os, exe : os = OfType(links, "o") /\ exe = <<ExecutableFile>>
  OBVIOUS
<1>2. pc = "link"
  BY DEF apply_link
<1>3. DiskOK(disk, spoiled) /\ args \in DriverArg
  BY <1>2 DEF DiskInv, DiskOK, Listed
<1>4. Ins(os)
  BY <1>1, FilesChosen DEF Listed, Files, Ins
<1>5. Outs(exe)
  BY <1>1, <1>3, ExecutableIsFine, OneIn
<1>6. \/ UNCHANGED <<args, disk, spoiled>> /\ pc' \in {"keep", "return"}
      \/ /\ \E r : execute(os, exe, r)
         /\ pc' \in {"keep", "return"} /\ UNCHANGED <<args, spoiled>>
      \/ StoppedIn(os, exe)
  BY <1>1 DEF apply_link
<1>7. CASE UNCHANGED <<args, disk, spoiled>> /\ pc' \in {"keep", "return"}
  BY <1>2, <1>7, DiskStays
<1>8. CASE StoppedIn(os, exe)
  BY <1>3, <1>4, <1>5, <1>8, DiskStopped
<1>9. CASE /\ \E r : execute(os, exe, r)
           /\ pc' \in {"keep", "return"} /\ UNCHANGED <<args, spoiled>>
  <2>1. DiskOK(disk', spoiled)
    BY <1>3, <1>4, <1>5, <1>9, DiskExecuted
  <2>2. QED
    BY <1>9, <2>1, DiskGoesOn
<1>10. QED
  BY <1>6, <1>7, <1>8, <1>9

\* What do_keep could not move is spoiled, if it was begun.
LEMMA KeepDisk ==
  ASSUME Listed, DiskInv, KeepObject
  PROVE  DiskInv'
<1>1. PICK p, q : p = Head(todo) /\ q = make_filename(p, p.type, "PRESERVED_FILE")
  OBVIOUS
<1>2. pc = "keep" /\ todo # <<>>
  BY DEF KeepObject
<1>3. DiskOK(disk, spoiled) /\ args \in DriverArg
  BY <1>2 DEF DiskInv, DiskOK, Listed
<1>4. CASE ~MustKeep(p)
  <2>1. UNCHANGED <<args, disk, spoiled, pc>>
    BY <1>1, <1>4 DEF KeepObject
  <2>2. QED
    BY <1>2, <2>1, DiskStays
<1>5. CASE MustKeep(p)
  <2>1. Fine(p) /\ p.storage = "TEMP_FILE" /\ Fine(q) /\ q.storage # "INPUT_FILE"
    BY <1>1, <1>2, <1>5, KeepFine DEF MustKeep
  <2>2. Ins(<<p>>) /\ Outs(<<q>>) /\ ToSet(<<q>>) = {q}
    BY <2>1, OneIn, FilesOne
  <2>3. \A n \in Names(<<q>>) : n = q.name
    BY <2>2 DEF Names
  <2>4. ASSUME NEW d \in FailedDisks(<<p>>, <<q>>), NEW sp, spoiled \subseteq sp,
               CanRun(<<p>>, <<q>>) => q.name \in sp
        PROVE  DiskOK(d, sp)
    <3>1. NamesApart => Safe(d)
      BY <1>3, <2>2, DiskWritten
    <3>2. ASSUME ~args.flag_keep_err PROVE Tidy(d, sp)
      <4>1. \A n \in DOMAIN disk : disk[n].whole \/ n \in sp \/ n.dir = "temp"
        BY <1>3, <2>4, <3>2 DEF DiskOK, Tidy
      <4>2. CASE d = disk
        BY <4>1, <4>2 DEF Tidy
      <4>3. CASE d = Written(<<p>>, <<q>>, FALSE) /\ q.name \in sp
        <5>1. \A n \in DOMAIN d : n \in Names(<<q>>) \/ (n \in DOMAIN disk /\ d[n] = disk[n])
          BY <4>3 DEF Written
        <5>2. QED
          BY <2>3, <4>1, <4>3, <5>1 DEF Tidy
      <4>4. QED
        BY <2>4, <4>2, <4>3 DEF FailedDisks
    <3>3. QED
      BY <3>1, <3>2 DEF DiskOK
  <2>5. \/ /\ \E r : /\ spoiled' = IF r # "ok" /\ CanRun(<<p>>, <<q>>)
                                   THEN spoiled \cup {q.name} ELSE spoiled
                     /\ \/ r = "ok" /\ disk' = Removed(Written(<<p>>, <<q>>, TRUE), {p.name})
                        \/ r = "fail" /\ disk' \in FailedDisks(<<p>>, <<q>>)
                        \/ r = "noexec" /\ execute(<<>>, <<>>, r)
           /\ UNCHANGED <<args, pc>>
        \/ /\ \E d \in FailedDisks(<<p>>, <<q>>) : main_end(d, "FAILURE")
           /\ spoiled' = spoiled \cup {q.name} /\ args' = args
        \/ Interrupted(<<p>>, <<q>>)
    BY <1>1, <1>5 DEF KeepObject
  <2>6. CASE Interrupted(<<p>>, <<q>>)
    BY <1>3, <2>2, <2>6, DiskStopped DEF StoppedIn
  <2>7. CASE /\ \E d \in FailedDisks(<<p>>, <<q>>) : main_end(d, "FAILURE")
             /\ spoiled' = spoiled \cup {q.name} /\ args' = args
    <3>1. PICK d \in FailedDisks(<<p>>, <<q>>) : main_end(d, "FAILURE")
      BY <2>7
    <3>2. DiskOK(d, spoiled')
      BY <2>4, <2>7
    <3>3. QED
      BY <1>3, <2>7, <3>1, <3>2, DiskAtEnd
  <2>8. CASE /\ \E r : /\ spoiled' = IF r # "ok" /\ CanRun(<<p>>, <<q>>)
                                     THEN spoiled \cup {q.name} ELSE spoiled
                       /\ \/ r = "ok" /\ disk' = Removed(Written(<<p>>, <<q>>, TRUE), {p.name})
                          \/ r = "fail" /\ disk' \in FailedDisks(<<p>>, <<q>>)
                          \/ r = "noexec" /\ execute(<<>>, <<>>, r)
             /\ UNCHANGED <<args, pc>>
    <3>1. CASE spoiled' = spoiled /\ disk' = Removed(Written(<<p>>, <<q>>, TRUE), {p.name})
      <4>1. DiskOK(disk', spoiled')
        BY <1>3, <2>1, <3>1, DiskMoved
      <4>2. QED
        BY <1>2, <2>8, <4>1, DiskGoesOn
    <3>2. CASE /\ spoiled' = IF CanRun(<<p>>, <<q>>) THEN spoiled \cup {q.name} ELSE spoiled
               /\ disk' \in FailedDisks(<<p>>, <<q>>)
      <4>1. DiskOK(disk', spoiled')
        BY <2>4, <3>2
      <4>2. QED
        BY <1>2, <2>8, <4>1, DiskGoesOn
    <3>3. CASE spoiled \subseteq spoiled' /\ execute(<<>>, <<>>, "noexec")
      <4>1. Ins(<<>>) /\ Outs(<<>>)
        BY DEF Ins, Outs, ToSet
      <4>2. DiskOK(disk', spoiled)
        BY <1>3, <3>3, <4>1, DiskExecuted
      <4>3. DiskOK(disk', spoiled')
        BY <3>3, <4>2 DEF DiskOK, Tidy
      <4>4. QED
        BY <1>2, <2>8, <4>3, DiskGoesOn
    <3>4. QED
      BY <2>8, <3>1, <3>2, <3>3
  <2>9. QED
    BY <2>5, <2>6, <2>7, <2>8
<1>6. QED
  BY <1>4, <1>5

LEMMA DiskStep ==
  ASSUME Listed, DiskInv, [DriverNext]_driverVars
  PROVE  DiskInv'
<1>1. CASE ProcessOption \/ EndOptions \/ temp_mkdir \/ TakeFile \/ FileDone \/ EndCompile \/ EndKeep
  <2>1. UNCHANGED <<args, disk, spoiled>> /\ pc # "killed" /\ pc' # "exited"
    BY <1>1 DEF ProcessOption, EndOptions, temp_mkdir, TakeFile, FileDone, EndCompile, EndKeep
  <2>2. QED
    BY <2>1, DiskStays
<1>2. CASE UNCHANGED driverVars
  <2>1. UNCHANGED <<args, disk, spoiled, pc, tempdir>>
    BY <1>2 DEF driverVars, ctlVars
  <2>2. QED
    BY <2>1, DiskNext DEF DiskInv
<1>3. CASE RetryLimitReached \/ Return
  <2>1. (\E status : main_end(disk, status)) /\ UNCHANGED <<args, spoiled>> /\ pc # "killed"
    BY <1>3 DEF RetryLimitReached, Return
  <2>2. DiskOK(disk, spoiled') /\ args \in DriverArg
    BY <2>1 DEF DiskInv, DiskOK, Listed
  <2>3. QED
    BY <2>1, <2>2, DiskAtEnd
<1>4. CASE RunStage
  BY <1>4, RunStageDisk
<1>5. CASE do_tdf_build
  BY <1>5, BuildDisk
<1>6. CASE do_move
  BY <1>6, MoveDisk
<1>7. CASE apply_link
  BY <1>7, LinkDisk
<1>8. CASE KeepObject
  BY <1>8, KeepDisk
<1>9. CASE MkdirStopped
  <2>1. Ins(<<>>) /\ Outs(<<>>)
    BY DEF Ins, Outs, ToSet
  <2>2. DiskOK(disk, spoiled) /\ StoppedIn(<<>>, <<>>)
    BY <1>9 DEF MkdirStopped, DiskInv, DiskOK
  <2>3. QED
    BY <2>1, <2>2, DiskStopped
<1>10. QED
  BY <1>1, <1>2, <1>3, <1>4, <1>5, <1>6, <1>7, <1>8, <1>9 DEF DriverNext, Exited

\* In every state the lists hold files whose names are accounted for, and the disk
\* holds the inputs as they were and nothing in part but temporary or spoiled files.
THEOREM DriverInvariant == DriverSpec => [](Listed /\ DiskInv)
<1>1. DriverInit => Listed /\ DiskInv
  BY ListedInit, DiskInit
<1>2. (Listed /\ DiskInv) /\ [DriverNext]_driverVars => (Listed /\ DiskInv)'
  BY ListedStep, DiskStep
<1>3. QED
  BY <1>1, <1>2, PTL DEF DriverSpec

\* No input is removed or written to, however the commands end (execute, remove_junk,
\* do_keep, main_end), if names are made up or the inputs have names of their own.
THEOREM InputsUntouchedInvariant == DriverSpec => []InputsUntouched
<1>1. DiskInv => InputsUntouched
  BY DEF DiskInv, Safe, Original, InputsUntouched
<1>2. QED
  BY <1>1, DriverInvariant, PTL

\* When tcc exits there is no file in part, except one that do_keep could not move
\* and those of a temporary directory that could not be removed (remove_junk,
\* main_end), unless -keep_errors told it to keep what is there.
THEOREM NoPartialButKeptInvariant == DriverSpec => []NoPartialButKept
<1>1. DiskInv => NoPartialButKept
  BY DEF DiskInv, Tidy, NoPartialButKept
<1>2. QED
  BY <1>1, DriverInvariant, PTL

-----------------------------------------------------------------------------
(* The objects: none takes the name of another *)

\* An object that tcc made.
Obj(f) == f.type = "o" /\ f.storage # "INPUT_FILE"

\* A file that does not share its name with others that are made.
Owns(f) == Obj(f) \/ f.storage = "OUTPUT_FILE"

\* The name of such a file is told by its base, its number and its type; the numbers
\* up to sq have been used.
Plain(f, sq) ==
  /\ f.no <= sq
  /\ f.type = "o" <=> f.name.type = "o"
  /\ f.name.type = f.type \/ (f.type = "j" /\ f.name.type = "j+")
  /\ Owns(f) => f.name.base = f.base /\ f.name.no = f.no
  /\ f.storage = "OUTPUT_FILE" => f.name.dir = "work"

Plains(s, sq) == \A f \in ToSet(s) : Plain(f, sq)

PlainInv ==
  /\ Plains(todo, seq) /\ Plains(done, seq) /\ Plains(links, seq)
  /\ cur # NULL => Plain(cur, seq)

\* The bases of the files in a list, and that they are all different.
BasesOf(s) == {f.base : f \in ToSet(s)}
NoDup(s) == \A i, j \in DOMAIN s : s[i].base = s[j].base => i = j

\* The capsule "a" that -M builds is not taken for a file that it does not include.
OffA(f) == f.type \in {"c", "j"} \/ f.base # "a"

Alone == NamesApart /\ ~args.make_up_names

Line(p, td, dn, lk, c) ==
  /\ p \in {"options", "mkdir", "build", "move"} => dn = <<>> /\ c = NULL
  /\ p \in {"produce", "compile"} => \A f \in ToSet(td) : ~Obj(f)
  /\ p = "produce" => (\A f \in ToSet(dn) : ~Obj(f) /\ f.type # "c") /\ (c # NULL => ~Obj(c))
  /\ p \in {"build", "move"} => \A f \in ToSet(lk) : ~Obj(f) /\ f.type # "c"

Kinds(p, td, dn, lk, c) ==
  /\ p \in {"produce", "compile"} =>
       /\ NoDup(td) /\ BasesOf(td) \cap BasesOf(dn) = {}
       /\ c # NULL => c.base \notin BasesOf(td) \cup BasesOf(dn)
  /\ p = "produce" => /\ NoDup(dn) /\ \A f \in ToSet(td) \cup ToSet(dn) : OffA(f)
                      /\ c # NULL => OffA(c)
  /\ p \in {"build", "move"} => NoDup(lk) /\ \A f \in ToSet(lk) : OffA(f)

LineInv == Line(pc, todo, done, links, cur) /\ (Alone => Kinds(pc, todo, done, links, cur))

LEMMA LineNext ==
  ASSUME args' = args, Line(pc', todo', done', links', cur'),
         Alone => Kinds(pc', todo', done', links', cur')
  PROVE  LineInv'
<1>1. Alone' <=> Alone
  BY Rigid DEF Alone
<1>2. QED
  BY <1>1 DEF LineInv, Line, Kinds

LEMMA PlainLater ==
  ASSUME NEW f \in FileRecords, NEW a \in Nat, NEW b \in Nat, a <= b, Plain(f, a)
  PROVE  Plain(f, b)
<1>1. f.no \in Nat
  BY DEF FileRecords
<1>2. f.no <= b
  BY <1>1 DEF Plain
<1>3. QED
  BY <1>2 DEF Plain

LEMMA PlainsLater ==
  ASSUME NEW s, Files(s), NEW a \in Nat, NEW b \in Nat, a <= b, Plains(s, a)
  PROVE  Plains(s, b)
BY PlainLater DEF Plains, Files, Fine

LEMMA InputPlain ==
  ASSUME args \in DriverArg, NEW i \in Ids, NEW sq \in Nat
  PROVE  Plain(InputFile(i), sq) /\ ~Obj(InputFile(i))
<1>1. /\ InputFile(i).name.type = args.inputs[i].type /\ InputFile(i).no = 0
      /\ InputFile(i).type = args.inputs[i].type /\ InputFile(i).storage = "INPUT_FILE"
  BY DEF InputFile, NameOf
<1>2. QED
  BY <1>1 DEF Plain, Owns, Obj

\* What a stage makes: its number has been used, and it keeps the base unless names
\* are made up, when it has a number of its own.
LEMMA StagePlain ==
  ASSUME args \in DriverArg, seq \in Nat, NEW p, Fine(p), p # NULL, Plain(p, seq),
         p.type \in {"c", "j", "t", "s"}, NEW t, t = NextType[p.type], NEW s \in Storages,
         NEW out, out = make_filename(p, t, s)
  PROVE  /\ SeqAfter(p, t, s) \in Nat /\ seq <= SeqAfter(p, t, s) /\ Plain(out, SeqAfter(p, t, s))
         /\ out.type = t /\ out.name.type = t
         /\ ~args.make_up_names => out.base = p.base
         /\ Owns(out) \/ (t = "j" /\ args.make_complex) =>
              /\ out.name.base = out.base /\ out.name.no = out.no
              /\ args.make_up_names => out.no = seq + 1
<1>1. t \in {"j", "t", "s", "o"} /\ t # p.type
  BY DEF NextType
<1>2. ~SameType(p, t) /\ p \in FileRecords /\ p.no \in Nat /\ p.no <= seq
  BY <1>1 DEF SameType, Fine, FileRecords, Plain
<1>3. PICK b, k : /\ b = IF MakesUp(p, t, s) THEN "_tcc" ELSE p.base
                  /\ k = IF MakesUp(p, t, s) THEN seq + 1 ELSE p.no
  OBVIOUS
<1>4. /\ out.base = b /\ out.no = k /\ out.type = t
      /\ out.name = IF SharesName(p, t, s) THEN NameOf(DirOf(s), "_tcc", 0, t) ELSE NameOf(DirOf(s), b, k, t)
      /\ out.storage = Storage(s)
  BY <1>2, <1>3 DEF make_filename
<1>5. out.name.type = t
  BY <1>4 DEF NameOf
<1>6. /\ SeqAfter(p, t, s) = IF MakesUp(p, t, s) THEN seq + 1 ELSE seq
      /\ MakesUp(p, t, s) <=> ~SharesName(p, t, s) /\ args.make_up_names
  BY <1>2 DEF SeqAfter, MakesUp
<1>7. k <= SeqAfter(p, t, s) /\ SeqAfter(p, t, s) \in Nat /\ seq <= SeqAfter(p, t, s)
  BY <1>2, <1>3, <1>6
<1>8. Owns(out) \/ (t = "j" /\ args.make_complex) => ~SharesName(p, t, s)
  BY <1>4 DEF Owns, Obj, Storage, SharesName
<1>9. Owns(out) \/ (t = "j" /\ args.make_complex) => out.name.base = out.base /\ out.name.no = out.no
  BY <1>4, <1>8 DEF NameOf
<1>10. out.storage = "OUTPUT_FILE" => out.name.dir = "work"
  BY <1>4 DEF NameOf, DirOf, Storage
<1>11. Plain(out, SeqAfter(p, t, s))
  BY <1>4, <1>5, <1>7, <1>9, <1>10 DEF Plain
<1>12. QED
  BY <1>3, <1>4, <1>5, <1>6, <1>7, <1>8, <1>9, <1>11

LEMMA KeptPlain ==
  ASSUME args \in DriverArg, seq \in Nat, NEW p, Fine(p), Plain(p, seq), MustKeep(p), NEW q,
         q = make_filename(p, p.type, "PRESERVED_FILE")
  PROVE  Plain(q, seq) /\ q.name = [p.name EXCEPT !.dir = "work"] /\ p.name.dir = "temp"
<1>1. p \in FileRecords /\ p.type = "o" /\ p.storage = "TEMP_FILE" /\ p.name.dir = "temp"
      /\ p.name \in DiskNames
  BY DEF MustKeep, Fine, FileRecords
<1>2. p # NULL
  BY <1>1, DriverAssumption
<1>3. SameType(p, p.type) /\ DirOf("PRESERVED_FILE") = "work"
  BY <1>2 DEF SameType, DirOf
<1>4. /\ q.name = [dir |-> "work", base |-> p.name.base, no |-> p.name.no, type |-> p.name.type]
      /\ q.base = p.base /\ q.no = p.no /\ q.type = "o"
  BY <1>1, <1>3 DEF make_filename, MakesUp, NameOf
<1>5. q.name = [p.name EXCEPT !.dir = "work"]
  BY <1>1, <1>4 DEF DiskNames
<1>6. /\ p.no <= seq /\ p.name.type = "o" /\ p.name.base = p.base /\ p.name.no = p.no
  BY <1>1 DEF Plain, Owns, Obj
<1>7. Plain(q, seq)
  BY <1>4, <1>6 DEF Plain
<1>8. QED
  BY <1>1, <1>5, <1>7

\* The two names of the capsule that is built.
LEMMA BuiltPlain ==
  ASSUME seq \in Nat, NEW js, NEW file, NEW temp, file = UniqFilename(js, ComplexFile),
         temp = UniqTempfile(js, ComplexFile)
  PROVE  /\ file.type = "j" /\ file.base = "a" /\ Plain(file, seq)
         /\ temp = file \/ (Plain(temp, seq + 1) /\ temp.name # file.name)
<1>1. PICK q : q = ComplexFile
  OBVIOUS
<1>2. q = [name |-> [dir |-> DirOf(where("J")), base |-> "a", no |-> 0, type |-> "j"], base |-> "a",
           no |-> 0, type |-> "j", storage |-> Storage(where("J"))]
  BY <1>1 DEF ComplexFile, NameOf
<1>3. file = q \/ file = [q EXCEPT !.name.type = "j+"]
  BY <1>1 DEF UniqFilename
<1>4. /\ file.type = "j" /\ file.base = "a" /\ file.no = 0 /\ file.name.type \in {"j", "j+"}
      /\ file.name.base = "a" /\ file.name.no = 0 /\ file.name.dir = DirOf(where("J"))
      /\ file.storage = Storage(where("J"))
  BY <1>2, <1>3
<1>5. Plain(file, seq)
  <2>1. file.storage = "OUTPUT_FILE" => file.name.dir = "work"
    BY <1>4 DEF DirOf, Storage
  <2>2. QED
    BY <1>4, <2>1 DEF Plain
<1>6. PICK v : v = make_filename(NULL, "j", "TEMP_FILE")
  OBVIOUS
<1>7. temp = file \/ temp = v
  BY <1>6 DEF UniqTempfile
<1>8. ~SameType(NULL, "j") /\ ~SharesName(NULL, "j", "TEMP_FILE") /\ MakesUp(NULL, "j", "TEMP_FILE")
  BY DEF SameType, SharesName, MakesUp
<1>9. /\ v.no = seq + 1 /\ v.type = "j" /\ v.name.type = "j" /\ v.storage = "TEMP_FILE"
      /\ v.name.no = seq + 1
  BY <1>6, <1>8 DEF make_filename, NameOf, Storage
<1>10. Plain(v, seq + 1) /\ v.name # file.name
  BY <1>4, <1>9 DEF Plain, Owns, Obj
<1>11. QED
  BY <1>4, <1>5, <1>7, <1>10

LEMMA PlainInit ==
  ASSUME DriverInit
  PROVE  PlainInv
BY DEF DriverInit, PlainInv, Plains, ToSet

\* The lists change only by files that are plain.
LEMMA PlainStep ==
  ASSUME Listed, PlainInv, [DriverNext]_driverVars
  PROVE  PlainInv'
<1>1. args \in DriverArg /\ seq \in Nat /\ Files(todo) /\ Files(done) /\ Files(links)
  BY DEF Listed
<1>2. Plains(todo, seq) /\ Plains(done, seq) /\ Plains(links, seq) /\ (cur # NULL => Plain(cur, seq))
  BY DEF PlainInv
<1>3. CASE UNCHANGED <<seq, todo, cur, done, links>>
  BY <1>2, <1>3 DEF PlainInv, Plains
<1>4. ASSUME NEW in, NEW out, StoppedIn(in, out) PROVE PlainInv'
  BY <1>3, <1>4 DEF StoppedIn, Signalled, Interrupted, main_end
<1>5. CASE ProcessOption \/ EndOptions \/ MkdirStopped \/ RetryLimitReached \/ EndKeep \/ Return
  BY <1>3, <1>4, <1>5 DEF ProcessOption, EndOptions, MkdirStopped, RetryLimitReached, EndKeep, Return, main_end
<1>6. CASE UNCHANGED driverVars
  BY <1>3, <1>6 DEF driverVars, ctlVars
<1>7. CASE temp_mkdir
  <2>1. UNCHANGED <<seq, cur, done, links>> /\ (todo' = todo \/ todo' = InputList)
    BY <1>7 DEF temp_mkdir
  <2>2. ToSet(InputList) = {InputFile(i) : i \in Ids}
    BY DEF InputList, ToSet
  <2>3. Plains(InputList, seq)
    BY <1>1, <2>2, InputPlain DEF Plains
  <2>4. QED
    BY <1>2, <2>1, <2>3 DEF PlainInv
<1>8. CASE TakeFile
  <2>1. cur' = Head(todo) /\ todo' = Tail(todo) /\ UNCHANGED <<seq, done, links>> /\ todo # <<>>
    BY <1>8 DEF TakeFile
  <2>2. ToSet(todo) = {Head(todo)} \cup ToSet(Tail(todo))
    BY <1>1, <2>1, FilesHead
  <2>3. QED
    BY <1>2, <2>1, <2>2 DEF PlainInv, Plains
<1>9. CASE RunStage
  <2>1. PICK t, out : t = NextType[cur.type] /\ out = make_filename(cur, t, where(t))
    OBVIOUS
  <2>2. \/ /\ cur' \in {out, NULL} /\ seq' = SeqAfter(cur, t, where(t))
           /\ UNCHANGED <<todo, done, links>>
        \/ StoppedIn(<<cur>>, <<out>>)
    BY <1>9, <2>1 DEF RunStage
  <2>3. cur # NULL /\ HasStage(cur)
    BY <1>9 DEF RunStage
  <2>4. Fine(cur) /\ cur.type \in {"c", "j", "t", "s"}
    BY <2>1, <2>3, StageFine
  <2>5. where(t) \in Storages
    BY WhereIs
  <2>6. PICK n : n = SeqAfter(cur, t, where(t)) /\ n \in Nat /\ seq <= n /\ Plain(out, n)
    BY <1>1, <1>2, <2>1, <2>3, <2>4, <2>5, StagePlain
  <2>7. Plains(todo, n) /\ Plains(done, n) /\ Plains(links, n)
    BY <1>1, <1>2, <2>6, PlainsLater
  <2>8. QED
    BY <1>4, <2>2, <2>6, <2>7 DEF PlainInv
<1>10. CASE FileDone
  <2>1. done' = Append(done, cur) /\ cur' = NULL /\ UNCHANGED <<seq, todo, links>> /\ cur # NULL
    BY <1>10 DEF FileDone
  <2>2. ToSet(done') = ToSet(done) \cup {cur}
    BY <1>1, <2>1, FilesAppend DEF Listed
  <2>3. QED
    BY <1>2, <2>1, <2>2 DEF PlainInv, Plains
<1>11. CASE EndCompile
  <2>1. links' = done /\ done' = <<>> /\ UNCHANGED <<seq, todo, cur>>
    BY <1>11 DEF EndCompile
  <2>2. Plains(<<>>, seq)
    BY DEF Plains, ToSet
  <2>3. QED
    BY <1>2, <2>1, <2>2 DEF PlainInv
<1>12. ASSUME NEW built, Files(built), Plains(built, seq), GoOn(built), UNCHANGED <<cur, done>>,
              seq' = seq \/ seq' = seq + 1
       PROVE  PlainInv'
  <2>1. todo' = built \o NotOfType(links, "j") /\ links' = <<>>
    BY <1>12 DEF GoOn
  <2>2. Files(NotOfType(links, "j")) /\ ToSet(NotOfType(links, "j")) \subseteq ToSet(links)
    BY <1>1, FilesChosen
  <2>3. ToSet(todo') = ToSet(built) \cup ToSet(NotOfType(links, "j"))
    BY <1>12, <2>1, <2>2, ToSetConcat DEF Files
  <2>4. Files(todo')
    BY <1>12, <2>1, <2>2, FilesConcat
  <2>5. Plains(todo', seq) /\ Plains(<<>>, seq')
    BY <1>2, <1>12, <2>2, <2>3 DEF Plains, ToSet
  <2>6. seq' \in Nat /\ seq <= seq'
    BY <1>1, <1>12
  <2>7. Plains(todo', seq') /\ Plains(done, seq')
    BY <1>1, <1>2, <2>4, <2>5, <2>6, PlainsLater
  <2>8. cur # NULL => Plain(cur, seq')
    BY <1>1, <1>2, <2>6, PlainLater DEF Listed, Fine
  <2>9. QED
    BY <1>12, <2>1, <2>5, <2>7, <2>8 DEF PlainInv
<1>13. Plains(<<>>, seq) /\ \A f : Plain(f, seq) /\ Fine(f) => Plains(<<f>>, seq)
  BY FilesOne DEF Plains, ToSet
<1>14. CASE do_tdf_build
  <2>1. PICK js, file, temp :
          /\ js = OfType(links, "j") /\ file = UniqFilename(js, ComplexFile)
          /\ temp = UniqTempfile(js, ComplexFile)
    OBVIOUS
  <2>2. \/ GoOn(<<>>) /\ UNCHANGED <<seq, cur, done>>
        \/ /\ \/ temp # file /\ todo' = <<temp, file>> /\ UNCHANGED links
              \/ GoOn(<<file>>) \/ GoOn(<<>>)
           /\ seq' = IF temp # file THEN seq + 1 ELSE seq
           /\ UNCHANGED <<cur, done>>
        \/ StoppedIn(js, <<temp>>)
    BY <1>14, <2>1 DEF do_tdf_build
  <2>3. Fine(file) /\ Fine(temp)
    BY <1>14, <2>1, BuildFine DEF do_tdf_build
  <2>4. Plain(file, seq) /\ (temp = file \/ Plain(temp, seq + 1))
    BY <1>1, <2>1, BuiltPlain
  <2>5. CASE GoOn(<<>>) \/ GoOn(<<file>>)
    BY <1>4, <1>12, <1>13, <2>2, <2>3, <2>4, <2>5, FilesOne, FilesEmpty
  <2>6. CASE temp # file /\ todo' = <<temp, file>> /\ UNCHANGED <<links, cur, done>> /\ seq' = seq + 1
    <3>1. ToSet(todo') = {temp, file}
      <4>1. DOMAIN <<temp, file>> = 1 .. 2 /\ \A i \in 1 .. 2 : i = 1 \/ i = 2
        OBVIOUS
      <4>2. QED
        BY <2>6, <4>1 DEF ToSet
    <3>2. seq + 1 \in Nat /\ seq <= seq + 1
      BY <1>1
    <3>3. Plain(file, seq + 1)
      BY <1>1, <2>3, <2>4, <3>2, PlainLater DEF Fine
    <3>4. Plains(todo', seq + 1)
      BY <2>4, <2>6, <3>1, <3>3 DEF Plains
    <3>5. Plains(done, seq + 1) /\ Plains(links, seq + 1)
      BY <1>1, <1>2, <3>2, PlainsLater
    <3>6. cur # NULL => Plain(cur, seq + 1)
      BY <1>1, <1>2, <3>2, PlainLater DEF Listed, Fine
    <3>7. QED
      BY <2>6, <3>4, <3>5, <3>6 DEF PlainInv
  <2>7. QED
    BY <1>4, <2>2, <2>5, <2>6
<1>15. CASE do_move
  <2>1. PICK from, to : from = todo[1] /\ to = todo[2]
    OBVIOUS
  <2>2. \/ (GoOn(<<to>>) \/ GoOn(<<>>)) /\ UNCHANGED <<seq, cur, done>>
        \/ StoppedIn(<<from>>, <<to>>)
    BY <1>15, <2>1 DEF do_move
  <2>3. Fine(to) /\ to \in ToSet(todo)
    <3>1. Len(todo) = 2 /\ todo \in Seq(FileRecords)
      BY <1>1, <1>15 DEF Listed, do_move, Files
    <3>2. 2 \in DOMAIN todo
      BY <3>1
    <3>3. QED
      BY <1>1, <2>1, <3>2 DEF Files, ToSet
  <2>4. Plains(<<to>>, seq)
    BY <1>2, <1>13, <2>3 DEF Plains
  <2>5. QED
    BY <1>4, <1>12, <1>13, <2>2, <2>3, <2>4, FilesOne, FilesEmpty
<1>16. CASE apply_link
  <2>1. PICK os, others : os = OfType(links, "o") /\ others = NotOfType(links, "o")
    OBVIOUS
  <2>2. \/ /\ UNCHANGED <<seq, cur, links>>
           /\ \/ todo' = links /\ done' = <<>>
              \/ todo' = todo /\ done' \in {os \o others, <<ExecutableFile>> \o others}
        \/ StoppedIn(os, <<ExecutableFile>>)
    BY <1>16, <2>1 DEF apply_link
  <2>3. /\ Files(os) /\ Files(others) /\ ToSet(os) \subseteq ToSet(links) /\ ToSet(others) \subseteq ToSet(links)
    BY <1>1, <2>1, FilesChosen
  <2>4. Files(<<ExecutableFile>>) /\ ToSet(<<ExecutableFile>>) = {ExecutableFile}
    BY <1>1, ExecutableIsFine, FilesOne
  <2>5. Plain(ExecutableFile, seq)
    BY <1>1 DEF ExecutableFile, Plain, Obj, NameOf
  <2>6. /\ ToSet(os \o others) = ToSet(os) \cup ToSet(others)
        /\ ToSet(<<ExecutableFile>> \o others) = {ExecutableFile} \cup ToSet(others)
    <3>1. os \in Seq(FileRecords) /\ others \in Seq(FileRecords) /\ <<ExecutableFile>> \in Seq(FileRecords)
      BY <2>3, <2>4 DEF Files
    <3>2. ToSet(os \o others) = ToSet(os) \cup ToSet(others)
      BY <3>1, ToSetConcat
    <3>3. ToSet(<<ExecutableFile>> \o others) = ToSet(<<ExecutableFile>>) \cup ToSet(others)
      BY <3>1, ToSetConcat
    <3>4. QED
      BY <2>4, <3>2, <3>3
  <2>7. Plains(os \o others, seq) /\ Plains(<<ExecutableFile>> \o others, seq)
    BY <1>2, <2>3, <2>5, <2>6 DEF Plains
  <2>8. QED
    BY <1>2, <1>4, <1>13, <2>2, <2>7 DEF PlainInv
<1>17. CASE KeepObject
  <2>1. PICK p, q : p = Head(todo) /\ q = make_filename(p, p.type, "PRESERVED_FILE")
    OBVIOUS
  <2>2. \/ /\ UNCHANGED <<seq, cur, links>> /\ todo' = Tail(todo)
           /\ done' = done \/ done' = Append(done, p) \/ (MustKeep(p) /\ done' = Append(done, q))
        \/ UNCHANGED <<seq, todo, cur, done, links>>
    BY <1>17, <2>1 DEF KeepObject, main_end, Interrupted
  <2>3. todo # <<>>
    BY <1>17 DEF KeepObject
  <2>4. Fine(p) /\ ToSet(todo) = {p} \cup ToSet(Tail(todo))
    BY <1>1, <2>1, <2>3, FilesHead
  <2>5. Plain(p, seq) /\ Plains(Tail(todo), seq)
    BY <1>2, <2>4 DEF Plains
  <2>6. MustKeep(p) => Fine(q) /\ Plain(q, seq)
    BY <1>1, <2>1, <2>4, <2>5, KeptOutput, KeptPlain
  <2>7. CASE UNCHANGED <<seq, todo, cur, done, links>>
    BY <1>3, <2>7
  <2>8. CASE /\ UNCHANGED <<seq, cur, links>> /\ todo' = Tail(todo)
             /\ done' = done \/ done' = Append(done, p) \/ (MustKeep(p) /\ done' = Append(done, q))
    <3>1. done' = done \/ \E f : Fine(f) /\ Plain(f, seq) /\ done' = Append(done, f)
      BY <2>4, <2>5, <2>6, <2>8
    <3>2. Plains(done', seq)
      <4>1. CASE done' = done
        BY <1>2, <4>1
      <4>2. ASSUME NEW f, Fine(f), Plain(f, seq), done' = Append(done, f) PROVE Plains(done', seq)
        <5>1. ToSet(done') = ToSet(done) \cup {f}
          BY <1>1, <4>2, FilesAppend
        <5>2. QED
          BY <1>2, <4>2, <5>1 DEF Plains
      <4>3. QED
        BY <3>1, <4>1, <4>2
    <3>3. QED
      BY <1>2, <2>5, <2>8, <3>2 DEF PlainInv
  <2>9. QED
    BY <2>2, <2>7, <2>8
<1>18. QED
  BY <1>5, <1>6, <1>7, <1>8, <1>9, <1>10, <1>11, <1>14, <1>15, <1>16, <1>17 DEF DriverNext, Exited

-----------------------------------------------------------------------------
(* Lists of files with different bases *)

LEMMA NoDupTail ==
  ASSUME NEW s, Files(s), s # <<>>, NoDup(s)
  PROVE  NoDup(Tail(s)) /\ Head(s).base \notin BasesOf(Tail(s))
<1>1. s \in Seq(FileRecords)
  BY DEF Files
<1>2. PICK L \in Nat \ {0} : L = Len(s)
  BY <1>1, EmptySeq
<1>3. /\ Head(s) = s[1] /\ Tail(s) \in Seq(FileRecords) /\ Len(Tail(s)) = L - 1
      /\ \A i \in 1 .. L - 1 : Tail(s)[i] = s[i + 1]
  BY <1>1, <1>2, HeadTailProperties
<1>4. DOMAIN s = 1 .. L /\ DOMAIN Tail(s) = 1 .. L - 1
  BY <1>1, <1>2, <1>3
<1>5. 1 \in 1 .. L /\ \A i \in 1 .. L - 1 : i + 1 \in 1 .. L /\ i + 1 # 1
  BY <1>2
<1>6. ASSUME NEW i \in 1 .. L - 1, NEW j \in 1 .. L - 1, Tail(s)[i].base = Tail(s)[j].base
      PROVE  i = j
  <2>1. s[i + 1].base = s[j + 1].base
    BY <1>3, <1>6
  <2>2. i + 1 = j + 1
    BY <1>4, <1>5, <2>1 DEF NoDup
  <2>3. QED
    BY <2>2
<1>7. \A i \in 1 .. L - 1 : Tail(s)[i].base # Head(s).base
  BY <1>3, <1>4, <1>5 DEF NoDup
<1>8. QED
  BY <1>4, <1>6, <1>7 DEF NoDup, BasesOf, ToSet

LEMMA NoDupAppend ==
  ASSUME NEW S, NEW s \in Seq(S), NoDup(s), NEW f \in S, f.base \notin BasesOf(s)
  PROVE  NoDup(Append(s, f))
<1>1. PICK L \in Nat : L = Len(s)
  OBVIOUS
<1>2. DOMAIN s = 1 .. L /\ DOMAIN Append(s, f) = 1 .. L + 1
  BY <1>1
<1>3. (\A i \in 1 .. L : Append(s, f)[i] = s[i]) /\ Append(s, f)[L + 1] = f
  BY <1>1
<1>4. \A i \in 1 .. L + 1 : i \in 1 .. L \/ i = L + 1
  BY <1>1
<1>5. \A i \in 1 .. L : s[i].base # f.base
  BY <1>2 DEF BasesOf, ToSet
<1>6. ASSUME NEW i \in 1 .. L + 1, NEW j \in 1 .. L + 1, Append(s, f)[i].base = Append(s, f)[j].base
      PROVE  i = j
  <2>1. CASE i \in 1 .. L /\ j \in 1 .. L
    BY <1>2, <1>3, <1>6, <2>1 DEF NoDup
  <2>2. CASE i \in 1 .. L /\ j = L + 1
    BY <1>3, <1>5, <1>6, <2>2
  <2>3. CASE i = L + 1 /\ j \in 1 .. L
    BY <1>3, <1>5, <1>6, <2>3
  <2>4. QED
    BY <1>4, <2>1, <2>2, <2>3
<1>7. QED
  BY <1>2, <1>6 DEF NoDup

LEMMA NoDupCons ==
  ASSUME NEW f, Fine(f), NEW s, Files(s), NoDup(s), f.base \notin BasesOf(s)
  PROVE  NoDup(<<f>> \o s)
<1>1. s \in Seq(FileRecords) /\ f \in FileRecords
  BY DEF Files, Fine
<1>2. PICK L \in Nat : L = Len(s)
  BY <1>1
<1>3. <<f>> \in Seq(FileRecords) /\ Len(<<f>>) = 1 /\ <<f>>[1] = f
  BY <1>1
<1>4. PICK w : w = <<f>> \o s
  OBVIOUS
<1>5. /\ w \in Seq(FileRecords) /\ Len(w) = 1 + L
      /\ \A i \in 1 .. 1 + L : w[i] = IF i <= 1 THEN <<f>>[i] ELSE s[i - 1]
  BY <1>1, <1>2, <1>3, <1>4, ConcatProperties
<1>6. DOMAIN s = 1 .. L /\ DOMAIN w = 1 .. 1 + L
  BY <1>1, <1>2, <1>5
<1>7. \A i \in 1 .. 1 + L : i = 1 \/ (~(i <= 1) /\ i - 1 \in 1 .. L)
  BY <1>2
<1>8. w[1] = f /\ \A i \in 1 .. 1 + L : i # 1 => w[i] = s[i - 1]
  BY <1>2, <1>3, <1>5
<1>9. \A i \in 1 .. L : s[i].base # f.base
  BY <1>6 DEF BasesOf, ToSet
<1>10. ASSUME NEW i \in 1 .. 1 + L, NEW j \in 1 .. 1 + L, w[i].base = w[j].base
       PROVE  i = j
  <2>1. CASE i # 1 /\ j # 1
    <3>1. s[i - 1].base = s[j - 1].base /\ i - 1 \in 1 .. L /\ j - 1 \in 1 .. L
      BY <1>7, <1>8, <1>10, <2>1
    <3>2. i - 1 = j - 1
      BY <1>6, <3>1 DEF NoDup
    <3>3. QED
      BY <3>2
  <2>2. CASE i = 1 /\ j # 1
    BY <1>7, <1>8, <1>9, <1>10, <2>2
  <2>3. CASE i # 1 /\ j = 1
    BY <1>7, <1>8, <1>9, <1>10, <2>3
  <2>4. QED
    BY <2>1, <2>2, <2>3
<1>11. QED
  BY <1>4, <1>6, <1>10 DEF NoDup

LEMMA NoDupChosen ==
  ASSUME NEW S, NEW fs \in Seq(S), NoDup(fs), NEW t, NEW yes
  PROVE  NoDup(Chosen(fs, t, yes))
<1>1. PICK L \in Nat : L = Len(fs)
  OBVIOUS
<1>2. PICK c : Chosen(fs, t, yes) = c[L] /\ \A n \in 0 .. L : c[n] = ChosenAt(fs, t, yes, c, n)
  BY <1>1, ChosenSteps
<1> DEFINE Good(n) == c[n] \in Seq(S) /\ NoDup(c[n]) /\ ToSet(c[n]) \subseteq {fs[i] : i \in 1 .. n}
           Bad == {n \in 0 .. L : ~Good(n)}
<1>3. Good(0)
  <2>1. c[0] = <<>>
    BY <1>1, <1>2 DEF ChosenAt
  <2>2. QED
    BY <2>1 DEF ToSet, NoDup
<1>4. ASSUME NEW n \in 1 .. L, Good(n - 1) PROVE Good(n)
  <2>1. c[n] = IF (fs[n].type = t) = yes THEN Append(c[n - 1], fs[n]) ELSE c[n - 1]
    <3>1. n \in 0 .. L /\ n # 0
      BY <1>1
    <3>2. QED
      BY <1>2, <3>1 DEF ChosenAt
  <2>2. fs[n] \in S
    BY <1>1, ElementOfSeq
  <2>3. n \in 1 .. n /\ \A k \in 1 .. n - 1 : k \in 1 .. n /\ k # n
    BY <1>1
  <2>4. \A k \in 1 .. n : k \in DOMAIN fs
    BY <1>1
  <2>5. \A k \in 1 .. n - 1 : fs[k].base # fs[n].base
    BY <2>3, <2>4 DEF NoDup
  <2>6. fs[n].base \notin BasesOf(c[n - 1])
    BY <1>4, <2>5 DEF BasesOf
  <2>7. CASE c[n] = c[n - 1]
    BY <1>4, <2>3, <2>7
  <2>8. CASE c[n] = Append(c[n - 1], fs[n])
    <3>1. c[n] \in Seq(S) /\ ToSet(c[n]) = ToSet(c[n - 1]) \cup {fs[n]}
      BY <1>4, <2>2, <2>8, ToSetAppend, AppendProperties
    <3>2. NoDup(c[n])
      BY <1>4, <2>2, <2>6, <2>8, NoDupAppend
    <3>3. ToSet(c[n]) \subseteq {fs[i] : i \in 1 .. n}
      BY <1>4, <2>3, <3>1
    <3>4. QED
      BY <3>1, <3>2, <3>3
  <2>9. QED
    BY <2>1, <2>7, <2>8
<1>5. Bad = {}
  <2> SUFFICES ASSUME Bad # {} PROVE FALSE
    OBVIOUS
  <2>1. Bad \in SUBSET Nat
    BY <1>1
  <2>2. PICK m \in Bad : \A y \in Bad : m <= y
    BY <2>1, LeastOne
  <2> HIDE DEF Good
  <2>3. m \in 0 .. L /\ ~Good(m) /\ m # 0
    BY <1>3, <2>2
  <2>4. m \in 1 .. L /\ m - 1 \in 0 .. L /\ m - 1 \notin Bad
    BY <1>1, <2>1, <2>2, <2>3
  <2>5. Good(m - 1)
    BY <2>4
  <2>6. QED
    BY <1>4, <2>3, <2>4, <2>5
<1>6. Good(L)
  <2> HIDE DEF Good
  <2>1. L \in 0 .. L
    BY <1>1
  <2>2. QED
    BY <1>5, <2>1
<1>7. QED
  BY <1>2, <1>6

LEMMA InputsNoDup ==
  ASSUME args \in DriverArg, Alone
  PROVE  /\ NoDup(InputList)
         /\ args.make_complex => \A f \in ToSet(InputList) : OffA(f)
<1>1. DOMAIN InputList = Ids /\ \A i \in Ids : InputList[i] = InputFile(i)
  BY DEF InputList
<1>2. \A i \in Ids : InputFile(i).base = args.inputs[i].base /\ InputFile(i).type = args.inputs[i].type
  BY DEF InputFile
<1>3. NoDup(InputList)
  BY <1>1, <1>2 DEF NoDup, Alone, NamesApart
<1>4. args.make_complex => \A i \in Ids : OffA(InputFile(i))
  BY <1>2 DEF OffA, Alone, NamesApart
<1>5. ToSet(InputList) = {InputFile(i) : i \in Ids}
  BY <1>1 DEF ToSet
<1>6. QED
  BY <1>3, <1>4, <1>5

-----------------------------------------------------------------------------
(* No file is in two places of the lists *)

LEMMA LineInit ==
  ASSUME DriverInit
  PROVE  LineInv
BY DEF DriverInit, LineInv, Line, Kinds

LEMMA EmptyList == ToSet(<<>>) = {} /\ BasesOf(<<>>) = {} /\ NoDup(<<>>)
BY DEF ToSet, BasesOf, NoDup

LEMMA MkdirLine ==
  ASSUME Listed, LineInv, temp_mkdir
  PROVE  LineInv'
<1>1. /\ args' = args /\ UNCHANGED <<cur, done, links>> /\ pc = "mkdir"
      /\ \/ todo' = InputList /\ pc' = IF args.make_complex THEN "produce" ELSE "compile"
         \/ UNCHANGED <<pc, todo>>
  BY DEF temp_mkdir
<1>2. args \in DriverArg /\ done = <<>> /\ cur = NULL
  BY <1>1 DEF Listed, LineInv, Line
<1>3. CASE UNCHANGED <<pc, todo>>
  BY <1>1, <1>3, LineNext DEF LineInv
<1>4. CASE todo' = InputList /\ pc' = IF args.make_complex THEN "produce" ELSE "compile"
  <2>1. \A f \in ToSet(InputList) : ~Obj(f)
    <3>1. ToSet(InputList) = {InputFile(i) : i \in Ids}
      BY DEF InputList, ToSet
    <3>2. QED
      BY <1>2, <3>1, InputPlain
  <2>2. Line(pc', todo', done', links', cur')
    BY <1>1, <1>2, <1>4, <2>1, EmptyList DEF Line
  <2>3. Alone => Kinds(pc', todo', done', links', cur')
    BY <1>1, <1>2, <1>4, EmptyList, InputsNoDup DEF Kinds
  <2>4. QED
    BY <1>1, <2>2, <2>3, LineNext
<1>5. QED
  BY <1>1, <1>3, <1>4

LEMMA TakeFileLine ==
  ASSUME Listed, LineInv, TakeFile
  PROVE  LineInv'
<1>1. /\ cur = NULL /\ cur' = Head(todo) /\ todo' = Tail(todo) /\ args' = args /\ pc' = pc
      /\ UNCHANGED <<done, links>> /\ pc \in {"produce", "compile"} /\ todo # <<>> /\ Files(todo)
  BY DEF TakeFile, Listed
<1>2. ToSet(todo) = {Head(todo)} \cup ToSet(Tail(todo))
  BY <1>1, FilesHead
<1>3. Line(pc', todo', done', links', cur')
  BY <1>1, <1>2 DEF LineInv, Line
<1>4. ASSUME Alone PROVE Kinds(pc', todo', done', links', cur')
  <2>1. Kinds(pc, todo, done, links, cur)
    BY <1>4 DEF LineInv
  <2>2. NoDup(Tail(todo)) /\ Head(todo).base \notin BasesOf(Tail(todo))
    BY <1>1, <2>1, NoDupTail DEF Kinds
  <2>3. BasesOf(todo) = {Head(todo).base} \cup BasesOf(Tail(todo))
    BY <1>2 DEF BasesOf
  <2>4. QED
    BY <1>1, <1>2, <2>1, <2>2, <2>3 DEF Kinds
<1>5. QED
  BY <1>1, <1>3, <1>4, LineNext

LEMMA FileDoneLine ==
  ASSUME Listed, LineInv, FileDone
  PROVE  LineInv'
<1>1. /\ cur # NULL /\ cur' = NULL /\ done' = Append(done, cur) /\ args' = args /\ pc' = pc
      /\ UNCHANGED <<todo, links>> /\ pc \in {"produce", "compile"}
  BY DEF FileDone
<1>2. Files(done) /\ Fine(cur)
  BY <1>1 DEF Listed
<1>3. ToSet(done') = ToSet(done) \cup {cur}
  BY <1>1, <1>2, FilesAppend
<1>4. Line(pc', todo', done', links', cur')
  <2>1. cur.type # "c"
    BY DEF FileDone, HasStage
  <2>2. QED
    BY <1>1, <1>3, <2>1 DEF LineInv, Line
<1>5. ASSUME Alone PROVE Kinds(pc', todo', done', links', cur')
  <2>1. Kinds(pc, todo, done, links, cur)
    BY <1>5 DEF LineInv
  <2>2. BasesOf(done') = BasesOf(done) \cup {cur.base}
    BY <1>3 DEF BasesOf
  <2>3. pc = "produce" => NoDup(done')
    BY <1>1, <1>2, <2>1, NoDupAppend DEF Kinds, Files, Fine
  <2>4. QED
    BY <1>1, <1>3, <2>1, <2>2, <2>3 DEF Kinds
<1>6. QED
  BY <1>1, <1>4, <1>5, LineNext

LEMMA RunStageLine ==
  ASSUME Listed, PlainInv, LineInv, RunStage
  PROVE  LineInv'
<1>1. cur # NULL /\ HasStage(cur) /\ pc \in {"produce", "compile"}
  BY DEF RunStage
<1>2. PICK t, out : t = NextType[cur.type] /\ out = make_filename(cur, t, where(t))
  OBVIOUS
<1>3. \/ cur' \in {out, NULL} /\ UNCHANGED <<args, pc, todo, done, links>>
      \/ args' = args /\ pc' \in {"exited", "killed"}
  BY <1>2 DEF RunStage, StoppedIn, Signalled, Interrupted, main_end
<1>4. CASE args' = args /\ pc' \in {"exited", "killed"}
  <2>1. Line(pc', todo', done', links', cur') /\ Kinds(pc', todo', done', links', cur')
    BY <1>4 DEF Line, Kinds
  <2>2. QED
    BY <1>4, <2>1, LineNext
<1>5. CASE cur' \in {out, NULL} /\ UNCHANGED <<args, pc, todo, done, links>>
  <2>1. /\ Fine(cur) /\ cur.type \in {"c", "j", "t", "s"} /\ (pc = "produce" => cur.type = "c")
        /\ Plain(cur, seq) /\ where(t) \in Storages /\ args \in DriverArg /\ seq \in Nat
    BY <1>1, <1>2, StageFine, WhereIs DEF PlainInv, Listed
  <2>2. out.type = t /\ (~args.make_up_names => out.base = cur.base)
    BY <1>1, <1>2, <2>1, StagePlain
  <2>3. pc = "produce" => out.type = "j"
    BY <1>2, <2>1, <2>2 DEF NextType
  <2>4. Line(pc', todo', done', links', cur')
    BY <1>1, <1>5, <2>3 DEF LineInv, Line, Obj
  <2>5. Alone => Kinds(pc', todo', done', links', cur')
    BY <1>1, <1>5, <2>2, <2>3 DEF LineInv, Kinds, Alone, OffA
  <2>6. QED
    BY <1>5, <2>4, <2>5, LineNext
<1>6. QED
  BY <1>3, <1>4, <1>5

LEMMA EndCompileLine ==
  ASSUME Listed, LineInv, EndCompile
  PROVE  LineInv'
<1>1. /\ cur = NULL /\ todo = <<>> /\ links' = done /\ done' = <<>> /\ args' = args
      /\ UNCHANGED <<todo, cur>> /\ pc \in {"produce", "compile"}
      /\ pc' = IF pc = "produce" THEN "build" ELSE "link"
  BY DEF EndCompile
<1>2. Line(pc', todo', done', links', cur')
  BY <1>1 DEF LineInv, Line
<1>3. Alone => Kinds(pc', todo', done', links', cur')
  BY <1>1 DEF LineInv, Kinds
<1>4. QED
  BY <1>1, <1>2, <1>3, LineNext

\* The capsule that was built, and the inputs that are no capsules.
LEMMA GoOnLine ==
  ASSUME Listed, LineInv, pc \in {"build", "move"}, args' = args, NEW built, GoOn(built),
         UNCHANGED <<cur, done>>,
         built = <<>> \/ \E f : Fine(f) /\ built = <<f>> /\ f.type = "j" /\ f.base = "a"
  PROVE  LineInv'
<1>1. PICK rest : rest = NotOfType(links, "j")
  OBVIOUS
<1>2. pc' = "compile" /\ todo' = built \o rest /\ done' = <<>> /\ cur' = NULL
  BY <1>1 DEF GoOn, LineInv, Line
<1>3. Files(rest) /\ ToSet(rest) = {f \in ToSet(links) : f.type # "j"} /\ Files(built) /\ Files(links)
  BY <1>1, FilesChosen, FilesOne, FilesEmpty DEF Listed
<1>4. ToSet(todo') = ToSet(built) \cup ToSet(rest)
  BY <1>2, <1>3, ToSetConcat DEF Files
<1>5. \A f \in ToSet(built) : f.type = "j"
  BY EmptyList, FilesOne
<1>6. Line(pc', todo', done', links', cur')
  BY <1>2, <1>3, <1>4, <1>5 DEF LineInv, Line, Obj
<1>7. ASSUME Alone PROVE Kinds(pc', todo', done', links', cur')
  <2>1. NoDup(links) /\ \A f \in ToSet(links) : OffA(f)
    BY <1>7 DEF LineInv, Kinds
  <2>2. NoDup(rest)
    BY <1>1, <1>3, <2>1, NoDupChosen DEF NotOfType, Files
  <2>3. NoDup(todo')
    <3>1. CASE built = <<>>
      <4>1. todo' = rest
        BY <1>2, <1>3, <3>1 DEF Files
      <4>2. QED
        BY <2>2, <4>1
    <3>2. ASSUME NEW f, Fine(f), built = <<f>>, f.type = "j", f.base = "a" PROVE NoDup(todo')
      <4>1. \A g \in ToSet(rest) : g.base # "a"
        <5>1. \A g \in ToSet(rest) : Fine(g) /\ g.type # "j" /\ OffA(g)
          BY <1>3, <2>1 DEF Files
        <5>2. \A g \in ToSet(rest) : g.type # "c"
          BY <1>3 DEF LineInv, Line
        <5>3. QED
          BY <5>1, <5>2 DEF OffA
      <4>2. f.base \notin BasesOf(rest)
        BY <3>2, <4>1 DEF BasesOf
      <4>3. QED
        BY <1>2, <1>3, <2>2, <3>2, <4>2, NoDupCons
    <3>3. QED
      BY <3>1, <3>2
  <2>4. QED
    BY <1>2, <2>3, EmptyList DEF Kinds
<1>8. QED
  BY <1>6, <1>7, LineNext

LEMMA StoppedLine ==
  ASSUME LineInv, args' = args, pc' \notin {"options", "mkdir", "build", "move", "produce", "compile"}
  PROVE  LineInv'
<1>1. Line(pc', todo', done', links', cur') /\ Kinds(pc', todo', done', links', cur')
  BY DEF Line, Kinds
<1>2. QED
  BY <1>1, LineNext

LEMMA BuildLine ==
  ASSUME Listed, LineInv, do_tdf_build
  PROVE  LineInv'
<1>1. PICK js, file, temp :
        /\ js = OfType(links, "j") /\ file = UniqFilename(js, ComplexFile)
        /\ temp = UniqTempfile(js, ComplexFile)
  OBVIOUS
<1>2. \/ /\ GoOn(<<>>) \/ GoOn(<<file>>)
         /\ UNCHANGED <<args, cur, done>>
      \/ pc' = "move" /\ UNCHANGED <<args, cur, done, links>>
      \/ args' = args /\ pc' \in {"exited", "killed"}
  BY <1>1 DEF do_tdf_build, StoppedIn, Signalled, Interrupted, main_end
<1>3. pc = "build" /\ seq \in Nat
  BY DEF do_tdf_build, Listed
<1>4. Fine(file) /\ file.type = "j" /\ file.base = "a"
  BY <1>1, <1>3, BuildFine, BuiltPlain
<1>5. CASE (GoOn(<<>>) \/ GoOn(<<file>>)) /\ UNCHANGED <<args, cur, done>>
  BY <1>3, <1>4, <1>5, GoOnLine
<1>6. CASE pc' = "move" /\ UNCHANGED <<args, cur, done, links>>
  <2>1. Line(pc', todo', done', links', cur') /\ (Alone => Kinds(pc', todo', done', links', cur'))
    BY <1>3, <1>6 DEF LineInv, Line, Kinds
  <2>2. QED
    BY <1>6, <2>1, LineNext
<1>7. CASE args' = args /\ pc' \in {"exited", "killed"}
  BY <1>7, StoppedLine
<1>8. QED
  BY <1>2, <1>5, <1>6, <1>7

\* The file that do_move makes is the one that do_tdf_build wanted.
MoveInv == pc = "move" => todo[2].type = "j" /\ todo[2].base = "a"

LEMMA MoveInvStep ==
  ASSUME Listed, MoveInv, [DriverNext]_driverVars
  PROVE  MoveInv'
<1>1. CASE do_tdf_build
  <2>1. PICK js, file, temp :
          /\ js = OfType(links, "j") /\ file = UniqFilename(js, ComplexFile)
          /\ temp = UniqTempfile(js, ComplexFile)
    OBVIOUS
  <2>2. file.type = "j" /\ file.base = "a"
    BY <2>1, BuiltPlain DEF Listed
  <2>3. pc' = "move" => todo' = <<temp, file>>
    BY <1>1, <2>1 DEF do_tdf_build, GoOn, StoppedIn, Signalled, Interrupted, main_end
  <2>4. QED
    BY <2>2, <2>3 DEF MoveInv
<1>2. CASE UNCHANGED driverVars
  BY <1>2 DEF MoveInv, driverVars, ctlVars
<1>3. CASE ProcessOption \/ EndOptions \/ temp_mkdir \/ MkdirStopped \/ RetryLimitReached \/ TakeFile
           \/ FileDone \/ EndCompile \/ EndKeep \/ Return
  <2>1. pc' # "move"
    BY <1>3 DEF ProcessOption, EndOptions, temp_mkdir, MkdirStopped, RetryLimitReached, TakeFile, FileDone,
                EndCompile, EndKeep, Return, main_end, StoppedIn, Signalled, Interrupted
  <2>2. QED
    BY <2>1 DEF MoveInv
<1>4. CASE RunStage \/ do_move \/ apply_link \/ KeepObject
  <2>1. pc' # "move"
    BY <1>4 DEF RunStage, do_move, GoOn, apply_link, KeepObject, StoppedIn, Signalled, Interrupted, main_end
  <2>2. QED
    BY <2>1 DEF MoveInv
<1>5. QED
  BY <1>1, <1>2, <1>3, <1>4 DEF DriverNext, Exited

LEMMA MoveLine ==
  ASSUME Listed, LineInv, MoveInv, do_move
  PROVE  LineInv'
<1>1. PICK from, to : from = todo[1] /\ to = todo[2]
  OBVIOUS
<1>2. \/ /\ GoOn(<<to>>) \/ GoOn(<<>>)
         /\ UNCHANGED <<args, cur, done>>
      \/ args' = args /\ pc' \in {"exited", "killed"}
  BY <1>1 DEF do_move, StoppedIn, Signalled, Interrupted, main_end
<1>3. pc = "move" /\ Fine(to) /\ to.type = "j" /\ to.base = "a"
  BY <1>1, MoveFine DEF do_move, MoveInv
<1>4. CASE (GoOn(<<to>>) \/ GoOn(<<>>)) /\ UNCHANGED <<args, cur, done>>
  BY <1>3, <1>4, GoOnLine
<1>5. CASE args' = args /\ pc' \in {"exited", "killed"}
  BY <1>5, StoppedLine
<1>6. QED
  BY <1>2, <1>4, <1>5

LEMMA LineStep ==
  ASSUME Listed, PlainInv, MoveInv, LineInv, [DriverNext]_driverVars
  PROVE  LineInv'
<1>1. CASE ProcessOption \/ EndOptions \/ UNCHANGED driverVars
  <2>1. UNCHANGED <<args, todo, done, links, cur>> /\ (pc' = pc \/ (pc = "options" /\ pc' = "mkdir"))
    BY <1>1 DEF ProcessOption, EndOptions, driverVars, ctlVars
  <2>2. Line(pc', todo', done', links', cur') /\ (Alone => Kinds(pc', todo', done', links', cur'))
    BY <2>1 DEF LineInv, Line, Kinds
  <2>3. QED
    BY <2>1, <2>2, LineNext
<1>2. CASE MkdirStopped \/ RetryLimitReached \/ apply_link \/ KeepObject \/ EndKeep \/ Return
  <2>1. args' = args /\ pc' \notin {"options", "mkdir", "build", "move", "produce", "compile"}
    BY <1>2 DEF MkdirStopped, RetryLimitReached, apply_link, KeepObject, EndKeep, Return, main_end, StoppedIn, Signalled,
                Interrupted
  <2>2. QED
    BY <2>1, StoppedLine
<1>3. CASE temp_mkdir
  BY <1>3, MkdirLine
<1>4. CASE TakeFile
  BY <1>4, TakeFileLine
<1>5. CASE RunStage
  BY <1>5, RunStageLine
<1>6. CASE FileDone
  BY <1>6, FileDoneLine
<1>7. CASE EndCompile
  BY <1>7, EndCompileLine
<1>8. CASE do_tdf_build
  BY <1>8, BuildLine
<1>9. CASE do_move
  BY <1>9, MoveLine
<1>10. QED
  BY <1>1, <1>2, <1>3, <1>4, <1>5, <1>6, <1>7, <1>8, <1>9 DEF DriverNext, Exited

-----------------------------------------------------------------------------
(* The objects that were made are there *)

There(d, f) == f.name \in DOMAIN d /\ d[f.name].whole
Kept(d, sp, f) ==
  LET n == [f.name EXCEPT !.dir = "work"] IN n \in sp \/ (n \in DOMAIN d /\ d[n].whole)

\* exec_error is what main returns an error for.
ErrInv == pc \notin {"exited", "killed"} /\ exit_status = "FAILURE" => exec_error

\* Where the objects are, at each stage of the program.
Objects(p, d, sp, td, dn, lk, c) ==
  /\ p = "compile" => /\ \A f \in ToSet(dn) : Obj(f) => There(d, f)
                      /\ c # NULL /\ Obj(c) => There(d, c)
  /\ p = "link" => \A f \in ToSet(lk) : Obj(f) => There(d, f)
  /\ p = "keep" => \A f \in ToSet(lk) : Obj(f) =>
                     Kept(d, sp, f) \/ (f \in ToSet(td) /\ There(d, f))

ObjInv ==
  NamesApart /\ tempdir = "made" =>
    /\ Objects(pc, disk, spoiled, todo, done, links, cur)
    /\ pc = "return" /\ exit_status = "FAILURE" /\ "o" \notin stop =>
         \A f \in ToSet(links) : Obj(f) => Kept(disk, spoiled, f)

LEMMA ObjNext ==
  ASSUME args' = args,
         NamesApart /\ tempdir' = "made" =>
           /\ Objects(pc', disk', spoiled', todo', done', links', cur')
           /\ pc' = "return" /\ exit_status' = "FAILURE" /\ "o" \notin stop' =>
                \A f \in ToSet(links') : Obj(f) => Kept(disk', spoiled', f)
  PROVE  ObjInv'
<1>1. NamesApart' <=> NamesApart
  BY Rigid
<1>2. QED
  BY <1>1 DEF ObjInv

\* Elsewhere nothing is said of objects.
LEMMA ObjElsewhere ==
  ASSUME args' = args, pc' \notin {"compile", "link", "keep", "return"}
  PROVE  ObjInv'
<1>1. Objects(pc', disk', spoiled', todo', done', links', cur')
  BY DEF Objects
<1>2. QED
  BY <1>1, ObjNext

LEMMA ErrStep ==
  ASSUME ErrInv, [DriverNext]_driverVars
  PROVE  ErrInv'
<1>1. ASSUME NEW in, NEW out, NEW r, execute(in, out, r) PROVE UNCHANGED <<exec_error, exit_status>> \/ exec_error'
  BY <1>1 DEF execute
<1>2. \/ pc' \in {"exited", "killed"}
      \/ pc \notin {"exited", "killed"} /\ (UNCHANGED <<exec_error, exit_status>> \/ exec_error')
      \/ UNCHANGED <<pc, exec_error, exit_status>>
  <2>1. CASE ProcessOption \/ EndOptions \/ temp_mkdir \/ MkdirStopped \/ RetryLimitReached \/ TakeFile
             \/ FileDone \/ EndCompile \/ EndKeep \/ Return
    BY <2>1 DEF ProcessOption, EndOptions, temp_mkdir, MkdirStopped, RetryLimitReached, TakeFile, FileDone,
                EndCompile, EndKeep, Return, main_end, StoppedIn, Signalled, Interrupted
  <2>2. CASE UNCHANGED driverVars
    BY <2>2 DEF driverVars, ctlVars
  <2>3. CASE RunStage
    <3>1. pc \notin {"exited", "killed"}
      BY <2>3 DEF RunStage
    <3>2. \/ \E in, out, r : execute(in, out, r)
          \/ pc' \in {"exited", "killed"}
      BY <2>3 DEF RunStage, StoppedIn, Signalled, Interrupted, main_end
    <3>3. QED
      BY <1>1, <3>1, <3>2
  <2>4. CASE do_tdf_build
    <3>1. pc \notin {"exited", "killed"}
      BY <2>4 DEF do_tdf_build
    <3>2. \/ \E in, out, r : execute(in, out, r)
          \/ pc' \in {"exited", "killed"} \/ UNCHANGED <<exec_error, exit_status>>
      BY <2>4 DEF do_tdf_build, StoppedIn, Signalled, Interrupted, main_end
    <3>3. QED
      BY <1>1, <3>1, <3>2
  <2>5. CASE do_move
    <3>1. pc \notin {"exited", "killed"}
      BY <2>5 DEF do_move
    <3>2. \/ \E in, out, r : execute(in, out, r)
          \/ pc' \in {"exited", "killed"} \/ UNCHANGED <<exec_error, exit_status>>
      BY <2>5 DEF do_move, StoppedIn, Signalled, Interrupted, main_end
    <3>3. QED
      BY <1>1, <3>1, <3>2
  <2>6. CASE apply_link
    <3>1. pc \notin {"exited", "killed"}
      BY <2>6 DEF apply_link
    <3>2. \/ \E in, out, r : execute(in, out, r)
          \/ pc' \in {"exited", "killed"} \/ UNCHANGED <<exec_error, exit_status>>
      BY <2>6 DEF apply_link, StoppedIn, Signalled, Interrupted, main_end
    <3>3. QED
      BY <1>1, <3>1, <3>2
  <2>7. CASE KeepObject
    <3>1. pc \notin {"exited", "killed"}
      BY <2>7 DEF KeepObject
    <3>2. \/ \E in, out, r : execute(in, out, r)
          \/ pc' \in {"exited", "killed"} \/ UNCHANGED <<exec_error, exit_status>> \/ exec_error'
      BY <2>7 DEF KeepObject, Interrupted, main_end
    <3>3. QED
      BY <1>1, <3>1, <3>2
  <2>8. QED
    BY <2>1, <2>2, <2>3, <2>4, <2>5, <2>6, <2>7 DEF DriverNext, Exited
<1>3. QED
  BY <1>2 DEF ErrInv

\* A command leaves whole objects alone that it does not make.
LEMMA ExecuteKeeps ==
  ASSUME NEW in, NEW out, NEW r, execute(in, out, r), tempdir' = "made",
         \A f \in ToSet(in) : f.type = "o" <=> f.name.type = "o",
         NEW n, n.type = "o", n \in DOMAIN disk, disk[n].whole, n \notin Names(out)
  PROVE  n \in DOMAIN disk' /\ disk'[n].whole
<1>1. n \notin Unneeded(in)
  BY DEF Unneeded
<1>2. n \notin Junk(out)
  BY DEF Junk, Names
<1>3. \A w : n \in DOMAIN Written(in, out, w) /\ Written(in, out, w)[n] = disk[n]
  BY DEF Written
<1>4. \A d, X : n \in DOMAIN d /\ n \notin X => n \in DOMAIN Removed(d, X) /\ Removed(d, X)[n] = d[n]
  BY DEF Removed
<1>5. CASE disk' = Removed(Written(in, out, TRUE), Unneeded(in))
  BY <1>1, <1>3, <1>4, <1>5
<1>6. CASE \E d \in FailedDisks(in, out) : disk' = Removed(d, Unneeded(in) \cup Junk(out))
  <2>1. PICK d \in FailedDisks(in, out) : disk' = Removed(d, Unneeded(in) \cup Junk(out))
    BY <1>6
  <2>2. n \in DOMAIN d /\ d[n] = disk[n]
    BY <1>3, <2>1 DEF FailedDisks
  <2>3. QED
    BY <1>1, <1>2, <1>4, <2>1, <2>2
<1>7. CASE /\ disk' = Removed(RemoveTempdir(disk, "FAILURE"), Unneeded(in) \cup Junk(out))
           /\ tempdir' = IF args.flag_keep_err \/ tempdir = "none" THEN tempdir ELSE "gone"
  <2>1. args.flag_keep_err
    BY <1>7
  <2>2. RemoveTempdir(disk, "FAILURE") = disk
    BY <2>1 DEF RemoveTempdir
  <2>3. QED
    BY <1>1, <1>2, <1>4, <1>7, <2>2
<1>8. QED
  BY <1>5, <1>6, <1>7 DEF execute

\* The directory was there before the command.
LEMMA ExecuteDir ==
  ASSUME NEW in, NEW out, NEW r, execute(in, out, r), tempdir' = "made"
  PROVE  tempdir = "made"
BY DEF execute

\* What a stage makes has another name than what it is made from.
LEMMA StageApart ==
  ASSUME NEW p, NEW sq, Plain(p, sq), p.type \in {"c", "j", "t", "s"}, NEW out,
         out.name.type = NextType[p.type], ToSet(<<p>>) = {p}
  PROVE  out.name \notin Unneeded(<<p>>)
<1>1. out.name.type # p.name.type
  BY DEF Plain, NextType
<1>2. Unneeded(<<p>>) \subseteq {p.name}
  BY DEF Unneeded
<1>3. QED
  BY <1>1, <1>2

\* What a command made is there.
LEMMA ExecuteMakes ==
  ASSUME NEW in, NEW out, execute(in, out, "ok"), NEW f \in ToSet(out), f.name \notin Unneeded(in)
  PROVE  There(disk', f)
<1>1. disk' = Removed(Written(in, out, TRUE), Unneeded(in))
  BY DEF execute
<1>2. f.name \in Names(out)
  BY DEF Names
<1>3. f.name \in DOMAIN Written(in, out, TRUE) /\ Written(in, out, TRUE)[f.name].whole
  BY <1>2 DEF Written
<1>4. QED
  BY <1>1, <1>2, <1>3 DEF There, Removed

LEMMA RunStageObj ==
  ASSUME Listed, PlainInv, LineInv, ObjInv, RunStage
  PROVE  ObjInv'
<1>1. cur # NULL /\ HasStage(cur) /\ pc \in {"produce", "compile"}
  BY DEF RunStage
<1>2. PICK t, out : t = NextType[cur.type] /\ out = make_filename(cur, t, where(t))
  OBVIOUS
<1>3. \/ /\ \E r : execute(<<cur>>, <<out>>, r) /\ cur' = IF r = "ok" THEN out ELSE NULL
         /\ UNCHANGED <<args, pc, todo, done, links, spoiled>>
      \/ args' = args /\ pc' \in {"exited", "killed"}
  BY <1>2 DEF RunStage, StoppedIn, Signalled, Interrupted, main_end
<1>4. CASE args' = args /\ pc' \in {"exited", "killed"}
  BY <1>4, ObjElsewhere
<1>5. CASE /\ \E r : execute(<<cur>>, <<out>>, r) /\ cur' = IF r = "ok" THEN out ELSE NULL
           /\ UNCHANGED <<args, pc, todo, done, links, spoiled>>
  <2>1. PICK r : execute(<<cur>>, <<out>>, r) /\ cur' = IF r = "ok" THEN out ELSE NULL
    BY <1>5
  <2>2. CASE pc = "produce"
    BY <1>5, <2>2, ObjElsewhere
  <2>3. CASE pc = "compile"
    <3>1. /\ Fine(cur) /\ Fine(out) /\ cur.type \in {"c", "j", "t", "s"}
          /\ Plain(cur, seq) /\ where(t) \in Storages /\ args \in DriverArg /\ seq \in Nat
      BY <1>1, <1>2, StageFine, WhereIs DEF PlainInv, Listed
    <3>2. /\ out.type = t /\ out.name.type = t /\ Plain(out, SeqAfter(cur, t, where(t)))
          /\ ~args.make_up_names => out.base = cur.base
          /\ args.make_up_names /\ Owns(out) => out.no = seq + 1
      BY <1>1, <1>2, <3>1, StagePlain
    <3>3. ToSet(<<cur>>) = {cur} /\ ToSet(<<out>>) = {out}
      BY <3>1, FilesOne
    <3>4. out.storage # "INPUT_FILE"
      BY <1>1, <1>2, StageFine
    <3>5. ASSUME NamesApart, NEW f \in ToSet(done), Obj(f) PROVE f.name # out.name
      <4>1. Plain(f, seq) /\ Fine(f)
        BY <3>5 DEF PlainInv, Plains, Listed, Files
      <4>2. CASE t # "o"
        BY <3>2, <3>5, <4>1, <4>2 DEF Plain, Obj
      <4>3. CASE t = "o" /\ args.make_up_names
        <5>1. out.name.no = seq + 1
          BY <3>2, <3>4, <4>3 DEF Plain, Owns, Obj
        <5>2. f.name.no <= seq /\ f.name.no \in Nat
          BY <3>5, <4>1 DEF Plain, Owns, Obj, Fine, FileRecords
        <5>3. QED
          BY <3>1, <5>1, <5>2
      <4>4. CASE t = "o" /\ ~args.make_up_names
        <5>1. out.name.base = cur.base
          BY <3>2, <3>4, <4>4 DEF Plain, Owns, Obj
        <5>2. f.name.base = f.base
          BY <3>5, <4>1 DEF Plain, Owns, Obj
        <5>3. cur.base \notin BasesOf(done)
          BY <1>1, <2>3, <3>5, <4>4 DEF LineInv, Kinds, Alone
        <5>4. QED
          BY <5>1, <5>2, <5>3 DEF BasesOf
      <4>5. QED
        BY <4>2, <4>3, <4>4
    <3>6. ASSUME NamesApart, tempdir' = "made", NEW f \in ToSet(done), Obj(f) PROVE There(disk', f)
      <4>1. tempdir = "made"
        BY <2>1, <3>6, ExecuteDir
      <4>2. There(disk, f)
        BY <2>3, <3>6, <4>1 DEF ObjInv, Objects
      <4>3. f.name.type = "o"
        BY <3>6 DEF PlainInv, Plains, Plain, Obj
      <4>4. f.name \notin Names(<<out>>)
        BY <3>3, <3>5, <3>6 DEF Names
      <4>5. cur.type = "o" <=> cur.name.type = "o"
        BY <3>1 DEF Plain
      <4>6. QED
        BY <2>1, <3>3, <3>6, <4>2, <4>3, <4>4, <4>5, ExecuteKeeps DEF There
    <3>7. cur' # NULL => There(disk', cur')
      <4>1. out.name \notin Unneeded(<<cur>>)
        BY <1>2, <3>1, <3>2, <3>3, StageApart
      <4>2. QED
        BY <2>1, <3>3, <4>1, ExecuteMakes
    <3>8. NamesApart /\ tempdir' = "made" => Objects(pc', disk', spoiled', todo', done', links', cur')
      BY <1>5, <2>3, <3>6, <3>7 DEF Objects
    <3>9. QED
      BY <1>5, <2>3, <3>8, ObjNext
  <2>4. QED
    BY <1>1, <2>2, <2>3
<1>6. QED
  BY <1>3, <1>4, <1>5

\* Before the first file is compiled there is no object.
LEMMA CompileBegins ==
  ASSUME args' = args, pc' = "compile", done' = <<>>, cur' = NULL
  PROVE  ObjInv'
<1>1. Objects(pc', disk', spoiled', todo', done', links', cur')
  BY EmptyList DEF Objects
<1>2. QED
  BY <1>1, ObjNext

LEMMA LinkObj ==
  ASSUME Listed, PlainInv, ErrInv, ObjInv, apply_link
  PROVE  ObjInv'
<1>1. PICK os, exe : os = OfType(links, "o") /\ exe = <<ExecutableFile>>
  OBVIOUS
<1>2. pc = "link"
  BY DEF apply_link
<1>3. Files(os) /\ ToSet(os) = {f \in ToSet(links) : f.type = "o"}
  BY <1>1, FilesChosen DEF Listed
<1>4. Names(exe) = {ExecutableFile.name} /\ ExecutableFile.name.type = "x"
  <2>1. ToSet(exe) = {ExecutableFile}
    BY <1>1, ExecutableIsFine, FilesOne DEF Listed
  <2>2. QED
    BY <2>1 DEF Names, ExecutableFile, NameOf
<1>5. \/ /\ os = <<>> \/ "o" \in stop
         /\ pc' = "return" /\ UNCHANGED <<args, stop, links, tempdir, disk, spoiled, exit_status>>
      \/ /\ pc' = "keep" /\ todo' = links /\ UNCHANGED <<args, links, tempdir, disk, spoiled>>
      \/ /\ ~exec_error /\ args' = args
         /\ \E r : /\ execute(os, exe, r) /\ UNCHANGED <<links, spoiled>>
                   /\ \/ r = "ok" /\ pc' = "return"
                      \/ pc' = "keep" /\ todo' = links
      \/ args' = args /\ pc' \in {"exited", "killed"}
  BY <1>1 DEF apply_link, StoppedIn, Signalled, Interrupted, main_end
<1>6. CASE args' = args /\ pc' \in {"exited", "killed"}
  BY <1>6, ObjElsewhere
<1>7. CASE /\ os = <<>> \/ "o" \in stop
           /\ pc' = "return" /\ UNCHANGED <<args, stop, links, tempdir, disk, spoiled, exit_status>>
  <2>1. "o" \notin stop' => \A f \in ToSet(links') : ~Obj(f)
    BY <1>3, <1>7, EmptyList DEF Obj
  <2>2. Objects(pc', disk', spoiled', todo', done', links', cur')
    BY <1>7 DEF Objects
  <2>3. QED
    BY <1>7, <2>1, <2>2, ObjNext
<1>8. CASE pc' = "keep" /\ todo' = links /\ UNCHANGED <<args, links, tempdir, disk, spoiled>>
  <2>1. NamesApart /\ tempdir' = "made" => Objects(pc', disk', spoiled', todo', done', links', cur')
    BY <1>2, <1>8 DEF ObjInv, Objects
  <2>2. QED
    BY <1>8, <2>1, ObjNext
<1>9. ASSUME ~exec_error, args' = args, NEW r, execute(os, exe, r), UNCHANGED <<links, spoiled>>,
             (r = "ok" /\ pc' = "return") \/ (pc' = "keep" /\ todo' = links)
      PROVE  ObjInv'
  <2>1. CASE r = "ok" /\ pc' = "return"
    <3>1. exit_status' = exit_status
      BY <1>9, <2>1 DEF execute
    <3>2. exit_status' # "FAILURE"
      BY <1>2, <1>9, <3>1 DEF ErrInv
    <3>3. Objects(pc', disk', spoiled', todo', done', links', cur')
      BY <2>1 DEF Objects
    <3>4. QED
      BY <1>9, <3>2, <3>3, ObjNext
  <2>2. CASE pc' = "keep" /\ todo' = links
    <3>1. \A f \in ToSet(os) : f.type = "o" <=> f.name.type = "o"
      BY <1>3 DEF PlainInv, Plains, Plain
    <3>2. ASSUME NamesApart, tempdir' = "made", NEW f \in ToSet(links), Obj(f) PROVE There(disk', f)
      <4>1. tempdir = "made"
        BY <1>9, <3>2, ExecuteDir
      <4>2. There(disk, f)
        BY <1>2, <3>2, <4>1 DEF ObjInv, Objects
      <4>3. f.name.type = "o"
        BY <3>2 DEF PlainInv, Plains, Plain, Obj
      <4>4. f.name \notin Names(exe)
        BY <1>4, <4>3
      <4>5. QED
        BY <1>9, <3>1, <3>2, <4>2, <4>3, <4>4, ExecuteKeeps DEF There
    <3>3. NamesApart /\ tempdir' = "made" => Objects(pc', disk', spoiled', todo', done', links', cur')
      BY <1>9, <2>2, <3>2 DEF Objects
    <3>4. QED
      BY <1>9, <2>2, <3>3, ObjNext
  <2>3. QED
    BY <1>9, <2>1, <2>2
<1>10. QED
  BY <1>5, <1>6, <1>7, <1>8, <1>9

\* A move, well or badly: what was kept is kept, and what is still to be kept is
\* there, or has been kept.
LEMMA MoveKeeps ==
  ASSUME NEW p, NEW q, NEW d, NEW sp, p.name \in DiskNames, p.name.dir = "temp",
         q.name = [p.name EXCEPT !.dir = "work"], ToSet(<<q>>) = {q}, spoiled \subseteq sp,
         \/ d = Removed(Written(<<p>>, <<q>>, TRUE), {p.name})
         \/ DOMAIN d = DOMAIN disk /\ \A m \in DOMAIN disk : d[m] = disk[m]
         \/ d = Written(<<p>>, <<q>>, FALSE) /\ q.name \in sp,
         NEW f, f.name \in DiskNames
  PROVE  /\ Kept(disk, spoiled, f) => Kept(d, sp, f)
         /\ There(disk, f) => Kept(d, sp, f) \/ There(d, f)
<1>1. PICK n : n = [f.name EXCEPT !.dir = "work"]
  OBVIOUS
<1>2. /\ n.dir = "work" /\ q.name.dir = "work" /\ n # p.name /\ q.name # p.name
      /\ f.name.dir = "work" => n = f.name
      /\ f.name = p.name => n = q.name
  BY <1>1 DEF DiskNames
<1>3. Names(<<q>>) = {q.name}
  BY DEF Names
<1>4. \A w : /\ DOMAIN Written(<<p>>, <<q>>, w) = DOMAIN disk \cup {q.name}
             /\ Written(<<p>>, <<q>>, w)[q.name].whole = w
             /\ \A m \in DOMAIN disk : m # q.name => Written(<<p>>, <<q>>, w)[m] = disk[m]
  BY <1>3 DEF Written
<1>5. CASE DOMAIN d = DOMAIN disk /\ \A m \in DOMAIN disk : d[m] = disk[m]
  BY <1>5 DEF Kept, There
<1>6. CASE d = Written(<<p>>, <<q>>, FALSE) /\ q.name \in sp
  <2>1. /\ DOMAIN d = DOMAIN disk \cup {q.name}
        /\ \A m \in DOMAIN disk : m # q.name => d[m] = disk[m]
    BY <1>4, <1>6
  <2>2. Kept(disk, spoiled, f) => Kept(d, sp, f)
    BY <1>1, <1>6, <2>1 DEF Kept
  <2>3. There(disk, f) => Kept(d, sp, f) \/ There(d, f)
    <3>1. CASE f.name = q.name
      BY <1>1, <1>2, <1>6, <3>1 DEF Kept
    <3>2. CASE f.name # q.name
      <4>1. There(disk, f) => f.name \in DOMAIN d /\ d[f.name] = disk[f.name]
        BY <2>1, <3>2 DEF There
      <4>2. QED
        BY <4>1 DEF There
    <3>3. QED
      BY <3>1, <3>2
  <2>4. QED
    BY <2>2, <2>3
<1>7. CASE d = Removed(Written(<<p>>, <<q>>, TRUE), {p.name})
  <2>1. /\ DOMAIN d = (DOMAIN disk \cup {q.name}) \ {p.name}
        /\ d[q.name].whole
        /\ \A m \in DOMAIN disk : m # q.name /\ m # p.name => d[m] = disk[m]
    <3>1. PICK w : w = Written(<<p>>, <<q>>, TRUE)
      OBVIOUS
    <3>2. /\ DOMAIN d = DOMAIN w \ {p.name}
          /\ \A m \in DOMAIN w : m # p.name => d[m] = w[m]
      BY <1>7, <3>1 DEF Removed
    <3>3. /\ DOMAIN w = DOMAIN disk \cup {q.name} /\ w[q.name].whole
          /\ \A m \in DOMAIN disk : m # q.name => w[m] = disk[m]
      BY <1>4, <3>1
    <3>4. QED
      BY <1>2, <3>2, <3>3
  <2>2. Kept(disk, spoiled, f) => Kept(d, sp, f)
    BY <1>1, <1>2, <2>1 DEF Kept
  <2>3. There(disk, f) => Kept(d, sp, f) \/ There(d, f)
    <3>1. CASE f.name = q.name \/ f.name = p.name
      <4>1. n = q.name
        BY <1>2, <3>1
      <4>2. QED
        BY <1>1, <1>2, <2>1, <4>1 DEF Kept
    <3>2. CASE f.name # q.name /\ f.name # p.name
      <4>1. There(disk, f) => f.name \in DOMAIN d /\ d[f.name] = disk[f.name]
        BY <2>1, <3>2 DEF There
      <4>2. QED
        BY <4>1 DEF There
    <3>3. QED
      BY <3>1, <3>2
  <2>4. QED
    BY <2>2, <2>3
<1>8. QED
  BY <1>5, <1>6, <1>7

\* A command that is not there: the directory is, because errors are kept.
LEMMA MissingKeeps ==
  ASSUME execute(<<>>, <<>>, "noexec"), tempdir' = "made"
  PROVE  DOMAIN disk' = DOMAIN disk /\ \A m \in DOMAIN disk : disk'[m] = disk[m]
<1>1. /\ disk' = Removed(RemoveTempdir(disk, "FAILURE"), Unneeded(<<>>) \cup Junk(<<>>))
      /\ tempdir' = IF args.flag_keep_err \/ tempdir = "none" THEN tempdir ELSE "gone"
  BY DEF execute
<1>2. RemoveTempdir(disk, "FAILURE") = disk
  BY <1>1 DEF RemoveTempdir
<1>3. Unneeded(<<>>) = {} /\ Junk(<<>>) = {}
  BY EmptyList DEF Unneeded, Junk
<1>4. QED
  BY <1>1, <1>2, <1>3 DEF Removed

LEMMA KeepObj ==
  ASSUME Listed, PlainInv, ObjInv, KeepObject
  PROVE  ObjInv'
<1>1. PICK p, q : p = Head(todo) /\ q = make_filename(p, p.type, "PRESERVED_FILE")
  OBVIOUS
<1>2. pc = "keep" /\ todo # <<>>
  BY DEF KeepObject
<1>3. /\ args \in DriverArg /\ seq \in Nat /\ ToSet(todo) = {p} \cup ToSet(Tail(todo))
      /\ Fine(p) /\ Plain(p, seq) /\ p \in FileRecords /\ p.name \in DiskNames
  <2>1. ToSet(todo) = {p} \cup ToSet(Tail(todo)) /\ Fine(p)
    BY <1>1, <1>2, FilesHead DEF Listed
  <2>2. QED
    BY <2>1 DEF Listed, PlainInv, Plains, Fine, FileRecords
<1>4. \A f \in ToSet(links) : f.name \in DiskNames
  BY DEF Listed, Files, Fine, FileRecords
<1>5. ASSUME UNCHANGED <<args, pc, links>>, todo' = Tail(todo), NamesApart /\ tempdir' = "made" => tempdir = "made",
             ASSUME NamesApart, tempdir' = "made", NEW f \in ToSet(links), Obj(f)
             PROVE  /\ Kept(disk, spoiled, f) => Kept(disk', spoiled', f)
                    /\ There(disk, f) => \/ Kept(disk', spoiled', f)
                                         \/ f # p /\ There(disk', f)
      PROVE  ObjInv'
  <2>1. ASSUME NamesApart, tempdir' = "made", NEW f \in ToSet(links), Obj(f)
        PROVE  Kept(disk', spoiled', f) \/ (f \in ToSet(todo') /\ There(disk', f))
    <3>1. Kept(disk, spoiled, f) \/ (f \in ToSet(todo) /\ There(disk, f))
      BY <1>2, <1>5, <2>1 DEF ObjInv, Objects
    <3>2. QED
      BY <1>3, <1>5, <2>1, <3>1
  <2>2. NamesApart /\ tempdir' = "made" => Objects(pc', disk', spoiled', todo', done', links', cur')
    BY <1>2, <1>5, <2>1 DEF Objects
  <2>3. QED
    BY <1>2, <1>5, <2>2, ObjNext
<1>6. CASE ~MustKeep(p)
  <2>1. UNCHANGED <<args, pc, links, tempdir, disk, spoiled>> /\ todo' = Tail(todo)
    BY <1>1, <1>6 DEF KeepObject
  <2>2. ASSUME Obj(p), There(disk, p) PROVE Kept(disk, spoiled, p)
    <3>1. p.storage = "OUTPUT_FILE"
      BY <1>3, <1>6, <2>2 DEF MustKeep, Obj, FileRecords
    <3>2. p.name.dir = "work"
      BY <1>3, <2>2, <3>1 DEF Plain
    <3>3. [p.name EXCEPT !.dir = "work"] = p.name
      BY <1>3, <3>2 DEF DiskNames
    <3>4. QED
      BY <2>2, <3>3 DEF Kept, There
  <2>3. QED
    BY <1>5, <2>1, <2>2
<1>7. CASE MustKeep(p)
  <2>1. q.name = [p.name EXCEPT !.dir = "work"] /\ p.name.dir = "temp" /\ q.name.dir = "work"
    BY <1>1, <1>3, <1>7, KeptPlain DEF DiskNames
  <2>2. Fine(q) /\ ToSet(<<q>>) = {q} /\ ToSet(<<p>>) = {p}
    BY <1>1, <1>3, <1>7, KeptOutput, FilesOne
  <2>3. There(disk, p) => CanRun(<<p>>, <<q>>)
    BY <2>1, <2>2 DEF There, CanRun, Names
  <2>4. \/ /\ \E r : /\ spoiled' = IF r # "ok" /\ CanRun(<<p>>, <<q>>)
                                   THEN spoiled \cup {q.name} ELSE spoiled
                     /\ \/ /\ r = "ok" /\ disk' = Removed(Written(<<p>>, <<q>>, TRUE), {p.name})
                           /\ tempdir' = tempdir
                        \/ r = "fail" /\ disk' \in FailedDisks(<<p>>, <<q>>) /\ tempdir' = tempdir
                        \/ r = "noexec" /\ execute(<<>>, <<>>, r)
           /\ UNCHANGED <<args, pc, links>> /\ todo' = Tail(todo)
        \/ args' = args /\ pc' \in {"exited", "killed"}
    BY <1>1, <1>7 DEF KeepObject, Interrupted, main_end
  <2>5. CASE args' = args /\ pc' \in {"exited", "killed"}
    BY <2>5, ObjElsewhere
  <2>6. ASSUME UNCHANGED <<args, pc, links>>, todo' = Tail(todo), NEW r,
               spoiled' = IF r # "ok" /\ CanRun(<<p>>, <<q>>) THEN spoiled \cup {q.name} ELSE spoiled,
               \/ /\ r = "ok" /\ disk' = Removed(Written(<<p>>, <<q>>, TRUE), {p.name})
                  /\ tempdir' = tempdir
               \/ r = "fail" /\ disk' \in FailedDisks(<<p>>, <<q>>) /\ tempdir' = tempdir
               \/ r = "noexec" /\ execute(<<>>, <<>>, r)
        PROVE  ObjInv'
    <3>1. tempdir' = "made" => tempdir = "made"
      BY <2>6, ExecuteDir
    <3>2. spoiled \subseteq spoiled'
      BY <2>6
    <3>3. tempdir' = "made" =>
            \/ disk' = Removed(Written(<<p>>, <<q>>, TRUE), {p.name})
            \/ DOMAIN disk' = DOMAIN disk /\ \A m \in DOMAIN disk : disk'[m] = disk[m]
            \/ disk' = Written(<<p>>, <<q>>, FALSE) /\ q.name \in spoiled'
      BY <2>6, MissingKeeps DEF FailedDisks
    <3>4. ASSUME There(disk, p), tempdir' = "made" PROVE Kept(disk', spoiled', p)
      <4>1. CASE r = "ok"
        <5>1. q.name # p.name /\ q.name \in Names(<<q>>)
          BY <2>1, <2>2 DEF Names
        <5>2. disk' = Removed(Written(<<p>>, <<q>>, TRUE), {p.name})
          BY <2>6, <4>1
        <5>3. q.name \in DOMAIN disk' /\ disk'[q.name].whole
          BY <5>1, <5>2 DEF Removed, Written
        <5>4. QED
          BY <2>1, <5>3 DEF Kept
      <4>2. CASE r # "ok"
        BY <2>1, <2>3, <2>6, <3>4, <4>2 DEF Kept
      <4>3. QED
        BY <4>1, <4>2
    <3>5. ASSUME tempdir' = "made", NEW f \in ToSet(links)
          PROVE  /\ Kept(disk, spoiled, f) => Kept(disk', spoiled', f)
                 /\ There(disk, f) => Kept(disk', spoiled', f) \/ There(disk', f)
      BY <1>3, <1>4, <2>1, <2>2, <3>2, <3>3, <3>5, MoveKeeps
    <3>6. QED
      BY <1>5, <2>6, <3>1, <3>4, <3>5
  <2>7. QED
    BY <2>4, <2>5, <2>6
<1>8. QED
  BY <1>6, <1>7

LEMMA ObjStep ==
  ASSUME Listed, PlainInv, LineInv, ErrInv, ObjInv, [DriverNext]_driverVars
  PROVE  ObjInv'
<1>1. CASE ProcessOption \/ EndOptions \/ MkdirStopped \/ RetryLimitReached \/ Return
  <2>1. args' = args /\ pc' \in {"options", "mkdir", "exited", "killed"}
    BY <1>1 DEF ProcessOption, EndOptions, MkdirStopped, RetryLimitReached, Return, main_end, StoppedIn,
                Signalled, Interrupted
  <2>2. QED
    BY <2>1, ObjElsewhere
<1>2. CASE UNCHANGED driverVars
  <2>1. UNCHANGED <<args, pc, disk, spoiled, todo, done, links, cur, tempdir, exit_status, stop>>
    BY <1>2 DEF driverVars, ctlVars, stageVars
  <2>2. QED
    BY <2>1, ObjNext DEF ObjInv
<1>3. CASE temp_mkdir
  <2>1. args' = args /\ pc = "mkdir" /\ UNCHANGED <<done, cur>> /\ pc' \in {"mkdir", "produce", "compile"}
    BY <1>3 DEF temp_mkdir
  <2>2. done' = <<>> /\ cur' = NULL
    BY <2>1 DEF LineInv, Line
  <2>3. QED
    BY <2>1, <2>2, CompileBegins, ObjElsewhere
<1>4. CASE TakeFile
  <2>1. /\ UNCHANGED <<args, pc, done, links, disk, spoiled, tempdir>> /\ pc \in {"produce", "compile"}
        /\ todo # <<>> /\ cur' = Head(todo) /\ Files(todo)
    BY <1>4 DEF TakeFile, Listed
  <2>2. ~Obj(cur')
    BY <2>1, FilesHead DEF LineInv, Line
  <2>3. NamesApart /\ tempdir' = "made" => Objects(pc', disk', spoiled', todo', done', links', cur')
    BY <2>1, <2>2 DEF ObjInv, Objects
  <2>4. QED
    BY <2>1, <2>3, ObjNext
<1>5. CASE RunStage
  BY <1>5, RunStageObj
<1>6. CASE FileDone
  <2>1. /\ UNCHANGED <<args, pc, todo, links, disk, spoiled, tempdir>> /\ pc \in {"produce", "compile"}
        /\ cur # NULL /\ cur' = NULL /\ done' = Append(done, cur)
    BY <1>6 DEF FileDone
  <2>2. ToSet(done') = ToSet(done) \cup {cur}
    BY <2>1, FilesAppend DEF Listed
  <2>3. NamesApart /\ tempdir' = "made" => Objects(pc', disk', spoiled', todo', done', links', cur')
    BY <2>1, <2>2 DEF ObjInv, Objects
  <2>4. QED
    BY <2>1, <2>3, ObjNext
<1>7. CASE EndCompile
  <2>1. /\ UNCHANGED <<args, disk, spoiled, tempdir>> /\ pc \in {"produce", "compile"}
        /\ pc' = IF pc = "produce" THEN "build" ELSE "link"
        /\ links' = done
    BY <1>7 DEF EndCompile
  <2>2. NamesApart /\ tempdir' = "made" => Objects(pc', disk', spoiled', todo', done', links', cur')
    BY <2>1 DEF ObjInv, Objects
  <2>3. QED
    BY <2>1, <2>2, ObjNext
<1>8. CASE do_tdf_build \/ do_move
  <2>1. /\ args' = args /\ pc \in {"build", "move"}
        /\ \/ pc' = "compile" /\ UNCHANGED <<done, cur>>
           \/ pc' \in {"move", "exited", "killed"}
    BY <1>8 DEF do_tdf_build, do_move, GoOn, StoppedIn, Signalled, Interrupted, main_end
  <2>2. done = <<>> /\ cur = NULL
    BY <2>1 DEF LineInv, Line
  <2>3. QED
    BY <2>1, <2>2, CompileBegins, ObjElsewhere
<1>9. CASE apply_link
  BY <1>9, LinkObj
<1>10. CASE KeepObject
  BY <1>10, KeepObj
<1>11. CASE EndKeep
  <2>1. /\ UNCHANGED <<args, links, disk, spoiled, tempdir>> /\ pc = "keep" /\ todo = <<>> /\ pc' = "return"
    BY <1>11 DEF EndKeep
  <2>2. NamesApart /\ tempdir' = "made" => \A f \in ToSet(links') : Obj(f) => Kept(disk', spoiled', f)
    BY <2>1, EmptyList DEF ObjInv, Objects
  <2>3. Objects(pc', disk', spoiled', todo', done', links', cur')
    BY <2>1 DEF Objects
  <2>4. QED
    BY <2>1, <2>2, <2>3, ObjNext
<1>12. QED
  BY <1>1, <1>2, <1>3, <1>4, <1>5, <1>6, <1>7, <1>8, <1>9, <1>10, <1>11 DEF DriverNext, Exited

\* Between the compilation of a file and the end of do_keep every object that was made
\* is on the disk: the names of no two of them agree, because no two files in hand have
\* a base in common or because every number that was made up is new.
THEOREM ObjectsInvariant ==
  DriverSpec => [](Listed /\ PlainInv /\ MoveInv /\ LineInv /\ ErrInv /\ ObjInv)
<1> DEFINE Inv == Listed /\ PlainInv /\ MoveInv /\ LineInv /\ ErrInv /\ ObjInv
<1>1. DriverInit => Inv
  <2>1. SUFFICES ASSUME DriverInit PROVE Inv
    OBVIOUS
  <2>2. MoveInv /\ ErrInv /\ ObjInv
    BY <2>1 DEF DriverInit, MoveInv, ErrInv, ObjInv, Objects
  <2>3. QED
    BY <2>1, <2>2, ListedInit, PlainInit, LineInit
<1>2. Inv /\ [DriverNext]_driverVars => Inv'
  BY ListedStep, PlainStep, MoveInvStep, LineStep, ErrStep, ObjStep
<1>3. QED
  BY <1>1, <1>2, PTL DEF DriverSpec

\* When main returns in spite of an error each object that was made is in the directory
\* that tcc works in, or do_keep could not move it (apply_link, do_keep), as long as
\* there is a temporary directory that it could be moved from.
THEOREM FailedLinkKeepsObjectsMadeInvariant == DriverSpec => []FailedLinkKeepsObjectsMade
<1>1. ObjInv => FailedLinkKeepsObjectsMade
  BY DEF ObjInv, Obj, Kept, FailedLinkKeepsObjectsMade
<1>2. QED
  BY <1>1, ObjectsInvariant, PTL

-----------------------------------------------------------------------------
(* What the files were made from, as long as nothing has failed *)

IsIn(f) == f.storage = "INPUT_FILE"
InHand(c) == {c} \ {NULL}
Src(d, F) == UNION {d[f.name].of : f \in F}
HasAll(d, F) == (\A f \in F : There(d, f)) /\ Src(d, F) = Ids

\* Temporary files other than objects may be overwritten by those of another input.
Lasting(f) == f.name.dir # "temp" \/ f.type = "o"
LastingHaveAll(d, F, G) ==
  /\ \A f \in G : Lasting(f) => There(d, f)
  /\ (\A f \in G : Lasting(f)) => Src(d, F \cup G) = Ids
  /\ \A f \in F \cup G : IsIn(f) \/ f.name.type # "x"

\* A file that was made in the first phase of -M has a name of its own.
Capsule(f) == f.type = "j" /\ f.name.type = "j" /\ f.name.base = f.base /\ f.name.no = f.no

Made(p, d, td, dn, lk, c) ==
  /\ p = "produce" => /\ HasAll(d, ToSet(td) \cup ToSet(dn) \cup InHand(c))
                      /\ \A f \in ToSet(td) : IsIn(f)
                      /\ \A f \in ToSet(dn) \cup InHand(c) : IsIn(f) \/ Capsule(f)
  /\ p = "build" => HasAll(d, ToSet(lk)) /\ \A f \in ToSet(lk) : IsIn(f) \/ Capsule(f)
  /\ p \in {"build", "move"} => \A f \in ToSet(lk) : IsIn(f) \/ f.type = "j"
  /\ p = "move" => /\ HasAll(d, {td[1]} \cup {f \in ToSet(lk) : f.type # "j"})
                   /\ td[1].name # td[2].name /\ td[2].name.type # "x"
  /\ p = "compile" => /\ LastingHaveAll(d, ToSet(td) \cup InHand(c), ToSet(dn))
                      /\ \A f \in ToSet(td) \cup InHand(c) : There(d, f)
                      /\ \/ \A f \in ToSet(td) : IsIn(f)
                         \/ /\ dn = <<>> /\ c = NULL
                            /\ \A f \in ToSet(Tail(td)) : IsIn(f)
  /\ p = "link" => LastingHaveAll(d, {}, ToSet(lk))
  /\ p # "keep"
  /\ p \in {"return", "exited"} =>
       /\ \A f \in ToSet(dn) : f.name.dir # "temp" => There(d, f)
       /\ (\A f \in ToSet(dn) : f.name.dir # "temp") => Src(d, ToSet(dn)) = Ids

WholeInv ==
  /\ exec_error => exit_status = "FAILURE"
  /\ NamesApart /\ exit_status = "SUCCESS" => Made(pc, disk, todo, done, links, cur)

LEMMA WholeNext ==
  ASSUME args' = args, exec_error' => exit_status' = "FAILURE",
         NamesApart /\ exit_status' = "SUCCESS" => Made(pc', disk', todo', done', links', cur')
  PROVE  WholeInv'
<1>1. (NamesApart' <=> NamesApart) /\ Ids' = Ids
  BY Rigid
<1>2. QED
  BY <1>1 DEF WholeInv, Made, HasAll, LastingHaveAll

\* An input is there, as it was.
LEMMA InputsSame ==
  ASSUME DiskInv, DiskInv', args' = args, NamesApart, NEW f, Fine(f), IsIn(f)
  PROVE  There(disk, f) /\ There(disk', f) /\ disk'[f.name] = disk[f.name]
<1>1. Ids' = Ids /\ InputNames' = InputNames /\ (NamesApart' <=> NamesApart) /\ \A i : InputFile(i)' = InputFile(i)
  BY Rigid
<1>2. \A n : Original(n)' = Original(n)
  BY <1>1 DEF Original
<1>3. f.name \in InputNames
  BY DEF Fine, IsIn
<1>4. f.name \in DOMAIN disk /\ disk[f.name] = Original(f.name)
  BY <1>3 DEF DiskInv, Safe
<1>5. f.name \in DOMAIN disk' /\ disk'[f.name] = Original(f.name)
  BY <1>1, <1>2, <1>3 DEF DiskInv, Safe
<1>6. Original(f.name).whole = TRUE
  BY DEF Original
<1>7. QED
  BY <1>4, <1>5, <1>6 DEF There

\* A command that ended well, or a move: one file is made, and others are removed.
WroteTo(d, in, g, X) ==
  ToSet(<<g>>) = {g} /\ g.name \notin X /\ d = Removed(Written(in, <<g>>, TRUE), X)

LEMMA Wrote ==
  ASSUME NEW in, NEW g, NEW X, NEW d, WroteTo(d, in, g, X)
  PROVE  /\ There(d, g) /\ d[g.name].of = Src(disk, ToSet(in))
         /\ \A n \in DOMAIN disk : n # g.name /\ n \notin X => n \in DOMAIN d /\ d[n] = disk[n]
<1>1. Names(<<g>>) = {g.name} /\ g.name \notin X
  BY DEF Names, WroteTo
<1>2. PICK w : w = Written(in, <<g>>, TRUE)
  OBVIOUS
<1>3. /\ DOMAIN w = DOMAIN disk \cup {g.name}
      /\ w[g.name] = [of |-> MadeFrom(in), whole |-> TRUE]
      /\ \A n \in DOMAIN disk : n # g.name => w[n] = disk[n]
  BY <1>1, <1>2 DEF Written
<1>4. DOMAIN d = DOMAIN w \ X /\ \A n \in DOMAIN d : d[n] = w[n]
  BY <1>2 DEF WroteTo, Removed
<1>5. MadeFrom(in) = Src(disk, ToSet(in))
  BY DEF MadeFrom, Src, Names
<1>6. g.name \in DOMAIN d /\ d[g.name] = [of |-> MadeFrom(in), whole |-> TRUE]
  BY <1>1, <1>3, <1>4
<1>7. d[g.name].whole = TRUE /\ d[g.name].of = MadeFrom(in)
  <2>1. ASSUME NEW m, NEW r, r = [of |-> m, whole |-> TRUE] PROVE r.whole = TRUE /\ r.of = m
    BY <2>1
  <2>2. QED
    BY <1>6, <2>1
<1>8. There(d, g) /\ d[g.name].of = Src(disk, ToSet(in))
  BY <1>5, <1>6, <1>7 DEF There
<1>9. QED
  BY <1>3, <1>4, <1>8

\* Nothing that has failed is forgotten.
LEMMA FailStep ==
  ASSUME WholeInv, [DriverNext]_driverVars
  PROVE  /\ exec_error' => exit_status' = "FAILURE"
         /\ exit_status' = "SUCCESS" => exit_status = "SUCCESS"
<1>1. ASSUME NEW in, NEW out, NEW r, execute(in, out, r)
      PROVE  UNCHANGED <<exec_error, exit_status>> \/ exit_status' = "FAILURE"
  BY <1>1 DEF execute
<1>2. ASSUME NEW in, NEW out, StoppedIn(in, out)
      PROVE  UNCHANGED <<exec_error, exit_status>> \/ exit_status' = "FAILURE"
  BY <1>2 DEF StoppedIn, Signalled, Interrupted, main_end
<1>3. UNCHANGED <<exec_error, exit_status>> \/ exit_status' = "FAILURE"
  <2>1. CASE ProcessOption \/ EndOptions \/ temp_mkdir \/ MkdirStopped \/ RetryLimitReached \/ TakeFile
             \/ FileDone \/ EndCompile \/ EndKeep \/ Return
    BY <2>1 DEF ProcessOption, EndOptions, temp_mkdir, MkdirStopped, RetryLimitReached, TakeFile, FileDone,
                EndCompile, EndKeep, Return, main_end, StoppedIn, Signalled, Interrupted
  <2>2. CASE UNCHANGED driverVars
    BY <2>2 DEF driverVars
  <2>3. CASE RunStage
    <3>1. \E in, out : StoppedIn(in, out) \/ \E r : execute(in, out, r)
      BY <2>3 DEF RunStage
    <3>2. QED
      BY <1>1, <1>2, <3>1
  <2>4. CASE do_tdf_build
    <3>1. (\E in, out : StoppedIn(in, out) \/ \E r : execute(in, out, r)) \/ UNCHANGED <<exec_error, exit_status>>
      BY <2>4 DEF do_tdf_build
    <3>2. QED
      BY <1>1, <1>2, <3>1
  <2>5. CASE do_move
    <3>1. (\E in, out : StoppedIn(in, out) \/ \E r : execute(in, out, r)) \/ UNCHANGED <<exec_error, exit_status>>
      BY <2>5 DEF do_move
    <3>2. QED
      BY <1>1, <1>2, <3>1
  <2>6. CASE apply_link
    <3>1. (\E in, out : StoppedIn(in, out) \/ \E r : execute(in, out, r)) \/ UNCHANGED <<exec_error, exit_status>>
      BY <2>6 DEF apply_link
    <3>2. QED
      BY <1>1, <1>2, <3>1
  <2>7. CASE KeepObject
    <3>1. \/ \E in, out, r : execute(in, out, r)
          \/ UNCHANGED <<exec_error, exit_status>> \/ exit_status' = "FAILURE"
      BY <2>7 DEF KeepObject, Interrupted, main_end
    <3>2. QED
      BY <1>1, <3>1
  <2>8. QED
    BY <2>1, <2>2, <2>3, <2>4, <2>5, <2>6, <2>7 DEF DriverNext, Exited
<1>4. QED
  BY <1>3 DEF WholeInv

\* What a stage makes takes the name of no file that was made before it and is lasting.
LEMMA NewName ==
  ASSUME Listed, PlainInv, LineInv, NamesApart, pc \in {"produce", "compile"}, cur # NULL, HasStage(cur),
         NEW t, t = NextType[cur.type], NEW out, out = make_filename(cur, t, where(t)),
         NEW f \in ToSet(done), ~IsIn(f),
         (pc = "compile" /\ Lasting(f)) \/ (pc = "produce" /\ Capsule(f))
  PROVE  f.name # out.name
<1>1. /\ Fine(cur) /\ Fine(out) /\ cur.type \in {"c", "j", "t", "s"} /\ out.storage # "INPUT_FILE"
      /\ pc = "produce" => cur.type = "c"
  BY StageFine
<1>2. Plain(cur, seq) /\ where(t) \in Storages /\ args \in DriverArg /\ seq \in Nat
  BY WhereIs DEF PlainInv, Listed
<1>3. /\ out.type = t /\ out.name.type = t
      /\ ~args.make_up_names => out.base = cur.base
      /\ Owns(out) \/ (t = "j" /\ args.make_complex) =>
           /\ out.name.base = out.base /\ out.name.no = out.no
           /\ args.make_up_names => out.no = seq + 1
  BY <1>1, <1>2, StagePlain
<1>4. /\ Fine(f) /\ f \in FileRecords /\ f.no \in Nat /\ f.storage \in {"TEMP_FILE", "OUTPUT_FILE"}
      /\ f.no <= seq /\ (f.type = "o" <=> f.name.type = "o")
      /\ Owns(f) => f.name.base = f.base /\ f.name.no = f.no
  <2>1. Fine(f) /\ Plain(f, seq)
    BY DEF Listed, Files, PlainInv, Plains
  <2>2. QED
    BY <2>1 DEF Fine, FileRecords, Plain, IsIn
<1>5. out.storage \in {"TEMP_FILE", "OUTPUT_FILE"} /\ (out.storage = "TEMP_FILE" => out.name.dir = "temp")
  BY <1>1 DEF Fine, FileRecords
<1>6. ASSUME out.name.base = out.base, out.name.no = out.no, args.make_up_names => out.no = seq + 1,
             f.name.base = f.base, f.name.no = f.no
      PROVE  f.name # out.name
  <2>1. CASE args.make_up_names
    BY <1>2, <1>4, <1>6, <2>1
  <2>2. CASE ~args.make_up_names
    <3>1. cur.base \notin BasesOf(done)
      BY <2>2 DEF LineInv, Kinds, Alone
    <3>2. f.base \in BasesOf(done)
      BY DEF BasesOf
    <3>3. QED
      BY <1>3, <1>6, <2>2, <3>1, <3>2
  <2>3. QED
    BY <2>1, <2>2
<1>7. CASE pc = "produce" /\ Capsule(f)
  <2>1. t = "j" /\ args.make_complex
    BY <1>1, <1>7 DEF NextType, Listed
  <2>2. QED
    BY <1>3, <1>6, <1>7, <2>1 DEF Capsule
<1>8. CASE pc = "compile" /\ Lasting(f)
  <2>1. Owns(f)
    BY <1>4, <1>8 DEF Lasting, Owns, Obj, Fine
  <2>2. CASE Owns(out)
    BY <1>3, <1>4, <1>6, <2>1, <2>2
  <2>3. CASE ~Owns(out)
    BY <1>1, <1>3, <1>4, <1>5, <1>8, <2>3 DEF Owns, Obj, Lasting
  <2>4. QED
    BY <2>2, <2>3
<1>9. QED
  BY <1>7, <1>8

LEMMA StoppedWhole ==
  ASSUME NEW in, NEW out, StoppedIn(in, out), exit_status' = "SUCCESS"
  PROVE  Made(pc', disk', todo', done', links', cur')
<1>1. pc' = "killed"
  BY DEF StoppedIn, Signalled, Interrupted, main_end
<1>2. QED
  BY <1>1 DEF Made

LEMMA RunStageWhole ==
  ASSUME Listed, DiskInv, DiskInv', PlainInv, LineInv, WholeInv, RunStage, NamesApart,
         exit_status = "SUCCESS", exit_status' = "SUCCESS", args' = args
  PROVE  Made(pc', disk', todo', done', links', cur')
<1>1. cur # NULL /\ HasStage(cur) /\ pc \in {"produce", "compile"}
  BY DEF RunStage
<1>2. PICK t, out : t = NextType[cur.type] /\ out = make_filename(cur, t, where(t))
  OBVIOUS
<1>3. \/ /\ \E r : execute(<<cur>>, <<out>>, r) /\ cur' = IF r = "ok" THEN out ELSE NULL
         /\ UNCHANGED <<pc, todo, done, links>>
      \/ StoppedIn(<<cur>>, <<out>>)
  BY <1>2 DEF RunStage
<1>4. Made(pc, disk, todo, done, links, cur)
  BY DEF WholeInv
<1>5. /\ Fine(cur) /\ Fine(out) /\ cur.type \in {"c", "j", "t", "s"} /\ out.storage # "INPUT_FILE"
      /\ pc = "produce" => cur.type = "c"
      /\ ToSet(<<cur>>) = {cur} /\ ToSet(<<out>>) = {out} /\ out # NULL
  <2>1. Fine(cur) /\ Fine(out)
    BY <1>1, <1>2, StageFine
  <2>2. out # NULL
    BY <2>1, DriverAssumption DEF Fine
  <2>3. QED
    BY <1>1, <1>2, <2>1, <2>2, StageFine, FilesOne
<1>6. /\ out.type = t /\ out.name.type = t /\ t \in {"j", "t", "s", "o"} /\ (pc = "produce" => Capsule(out))
  <2>1. Plain(cur, seq) /\ where(t) \in Storages /\ args \in DriverArg /\ seq \in Nat
    BY <1>1, WhereIs DEF PlainInv, Listed
  <2>2. /\ out.type = t /\ out.name.type = t
        /\ t = "j" /\ args.make_complex => out.name.base = out.base /\ out.name.no = out.no
    BY <1>1, <1>2, <1>5, <2>1, StagePlain
  <2>3. t \in {"j", "t", "s", "o"} /\ (pc = "produce" => t = "j" /\ args.make_complex)
    BY <1>2, <1>5 DEF NextType, Listed
  <2>4. QED
    BY <2>2, <2>3 DEF Capsule
<1>7. CASE StoppedIn(<<cur>>, <<out>>)
  BY <1>7, StoppedWhole
<1>8. CASE /\ \E r : execute(<<cur>>, <<out>>, r) /\ cur' = IF r = "ok" THEN out ELSE NULL
           /\ UNCHANGED <<pc, todo, done, links>>
  <2>1. /\ disk' = Removed(Written(<<cur>>, <<out>>, TRUE), Unneeded(<<cur>>))
        /\ cur' = out
    <3>1. PICK r : execute(<<cur>>, <<out>>, r) /\ cur' = IF r = "ok" THEN out ELSE NULL
      BY <1>8
    <3>2. r = "ok"
      BY <3>1 DEF execute
    <3>3. QED
      BY <3>1, <3>2 DEF execute
  <2>2. out.name \notin Unneeded(<<cur>>)
    <3>1. Plain(cur, seq)
      BY <1>1 DEF PlainInv
    <3>2. QED
      BY <1>2, <1>5, <1>6, <3>1, StageApart
  <2>3. /\ There(disk', out) /\ disk'[out.name].of = Src(disk, {cur})
        /\ \A n \in DOMAIN disk : n # out.name /\ n \notin Unneeded(<<cur>>) =>
             n \in DOMAIN disk' /\ disk'[n] = disk[n]
    <3>1. PICK X : X = Unneeded(<<cur>>)
      OBVIOUS
    <3>2. WroteTo(disk', <<cur>>, out, X)
      BY <1>5, <2>1, <2>2, <3>1 DEF WroteTo
    <3>3. /\ There(disk', out) /\ disk'[out.name].of = Src(disk, ToSet(<<cur>>))
          /\ \A n \in DOMAIN disk : n # out.name /\ n \notin X => n \in DOMAIN disk' /\ disk'[n] = disk[n]
      BY <3>2, Wrote
    <3>4. QED
      BY <1>5, <3>1, <3>3
  <2>4. \A f \in ToSet(todo) : IsIn(f)
    BY <1>1, <1>4 DEF Made
  <2>5. ASSUME NEW f \in ToSet(todo) \cup ToSet(done), IsIn(f)
        PROVE  There(disk, f) /\ There(disk', f) /\ disk'[f.name] = disk[f.name]
    <3>1. Fine(f)
      BY DEF Listed, Files
    <3>2. QED
      BY <2>5, <3>1, InputsSame
  <2>6. ASSUME NEW f \in ToSet(done), ~IsIn(f), There(disk, f),
               (pc = "compile" /\ Lasting(f)) \/ (pc = "produce" /\ Capsule(f))
        PROVE  There(disk', f) /\ disk'[f.name] = disk[f.name]
    <3>1. f.name # out.name
      BY <1>1, <1>2, <2>6, NewName
    <3>2. f.name \notin Unneeded(<<cur>>)
      <4>1. Unneeded(<<cur>>) \subseteq {n \in {cur.name} : cur.storage = "TEMP_FILE"}
        BY <1>5 DEF Unneeded
      <4>2. CASE pc = "produce"
        <5>1. IsIn(cur)
          BY <1>1, <1>4, <1>5, <4>2 DEF Made, InHand, Capsule
        <5>2. QED
          BY <4>1, <5>1 DEF IsIn
      <4>3. CASE pc = "compile" /\ Lasting(f)
        <5>1. (cur.type = "o" <=> cur.name.type = "o") /\ (f.type = "o" <=> f.name.type = "o")
          BY <1>1, <2>6 DEF PlainInv, Plains, Plain
        <5>2. cur.storage = "TEMP_FILE" => cur.name.dir = "temp"
          BY <1>5 DEF Fine
        <5>3. QED
          BY <1>5, <4>1, <4>3, <5>1, <5>2 DEF Lasting
      <4>4. QED
        BY <1>1, <2>6, <4>2, <4>3
    <3>3. f.name \in DOMAIN disk' /\ disk'[f.name] = disk[f.name]
      BY <2>3, <2>6, <3>1, <3>2 DEF There
    <3>4. QED
      BY <2>6, <3>3 DEF There
  <2>7. InHand(cur) = {cur} /\ InHand(cur') = {out}
    BY <1>1, <1>5, <2>1 DEF InHand
  <2>8. CASE pc = "produce"
    <3>1. /\ HasAll(disk, ToSet(todo) \cup ToSet(done) \cup {cur})
          /\ \A f \in ToSet(done) : IsIn(f) \/ Capsule(f)
      BY <1>4, <2>7, <2>8 DEF Made
    <3>2. \A f \in ToSet(todo) \cup ToSet(done) : There(disk', f) /\ disk'[f.name] = disk[f.name]
      BY <2>4, <2>5, <2>6, <2>8, <3>1 DEF HasAll
    <3>3. Src(disk', (ToSet(todo) \cup ToSet(done)) \cup {out}) = Src(disk, (ToSet(todo) \cup ToSet(done)) \cup {cur})
      <4>1. PICK F : F = ToSet(todo) \cup ToSet(done)
        OBVIOUS
      <4>2. \A f \in F : disk'[f.name] = disk[f.name]
        BY <3>2, <4>1
      <4>3. Src(disk', F \cup {out}) = Src(disk, F \cup {cur})
        BY <2>3, <4>2 DEF Src
      <4>4. QED
        BY <4>1, <4>3
    <3>4. HasAll(disk', ToSet(todo) \cup ToSet(done) \cup {out})
      BY <2>3, <3>1, <3>2, <3>3 DEF HasAll
    <3>5. QED
      BY <1>6, <1>8, <2>4, <2>7, <2>8, <3>1, <3>4 DEF Made
  <2>9. CASE pc = "compile"
    <3>1. LastingHaveAll(disk, ToSet(todo) \cup {cur}, ToSet(done))
      BY <1>4, <2>7, <2>9 DEF Made
    <3>2. \A f \in ToSet(todo) : There(disk', f) /\ disk'[f.name] = disk[f.name]
      BY <2>4, <2>5
    <3>3. \A f \in ToSet(done) : Lasting(f) => There(disk', f) /\ disk'[f.name] = disk[f.name]
      BY <2>5, <2>6, <2>9, <3>1 DEF LastingHaveAll
    <3>4. ASSUME \A f \in ToSet(done) : Lasting(f)
          PROVE  Src(disk', (ToSet(todo) \cup {out}) \cup ToSet(done)) = Ids
      <4>1. Src(disk', (ToSet(todo) \cup ToSet(done)) \cup {out})
              = Src(disk, (ToSet(todo) \cup ToSet(done)) \cup {cur})
        <5>1. PICK F : F = ToSet(todo) \cup ToSet(done)
          OBVIOUS
        <5>2. \A f \in F : disk'[f.name] = disk[f.name]
          BY <3>2, <3>3, <3>4, <5>1
        <5>3. Src(disk', F \cup {out}) = Src(disk, F \cup {cur})
          BY <2>3, <5>2 DEF Src
        <5>4. QED
          BY <5>1, <5>3
      <4>2. /\ (ToSet(todo) \cup ToSet(done)) \cup {out} = (ToSet(todo) \cup {out}) \cup ToSet(done)
            /\ (ToSet(todo) \cup ToSet(done)) \cup {cur} = (ToSet(todo) \cup {cur}) \cup ToSet(done)
        OBVIOUS
      <4>3. QED
        BY <3>1, <3>4, <4>1, <4>2 DEF LastingHaveAll
    <3>5. LastingHaveAll(disk', ToSet(todo) \cup {out}, ToSet(done))
      BY <1>6, <3>1, <3>3, <3>4 DEF LastingHaveAll
    <3>6. QED
      BY <1>8, <2>3, <2>4, <2>7, <2>9, <3>2, <3>5 DEF Made
  <2>10. QED
    BY <1>1, <2>8, <2>9
<1>9. QED
  BY <1>3, <1>7, <1>8

LEMMA TakeFileWhole ==
  ASSUME Listed, WholeInv, TakeFile, NamesApart, exit_status = "SUCCESS"
  PROVE  Made(pc', disk', todo', done', links', cur')
<1>1. /\ cur = NULL /\ cur' = Head(todo) /\ todo' = Tail(todo) /\ todo # <<>> /\ pc \in {"produce", "compile"}
      /\ UNCHANGED <<pc, disk, done, links>>
  BY DEF TakeFile
<1>2. Fine(Head(todo)) /\ ToSet(todo) = {Head(todo)} \cup ToSet(Tail(todo))
  BY <1>1, FilesHead DEF Listed
<1>3. Head(todo) # NULL
  BY <1>2, DriverAssumption DEF Fine
<1>4. InHand(cur) = {} /\ InHand(cur') = {Head(todo)}
  BY <1>1, <1>3 DEF InHand
<1>5. Made(pc, disk, todo, done, links, cur)
  BY DEF WholeInv
<1>6. ToSet(todo) \cup ToSet(done) \cup InHand(cur) = ToSet(todo') \cup ToSet(done') \cup InHand(cur')
  BY <1>1, <1>2, <1>4
<1>7. CASE pc = "produce"
  <2>1. /\ HasAll(disk', ToSet(todo') \cup ToSet(done') \cup InHand(cur'))
        /\ \A f \in ToSet(todo) : IsIn(f)
        /\ \A f \in ToSet(done) : IsIn(f) \/ Capsule(f)
    BY <1>1, <1>5, <1>6, <1>7 DEF Made
  <2>2. QED
    BY <1>1, <1>2, <1>4, <1>7, <2>1 DEF Made
<1>8. CASE pc = "compile"
  <2>1. ToSet(todo) \cup InHand(cur) = ToSet(todo') \cup InHand(cur')
    BY <1>1, <1>2, <1>4
  <2>2. /\ LastingHaveAll(disk', ToSet(todo') \cup InHand(cur'), ToSet(done'))
        /\ \A f \in ToSet(todo') \cup InHand(cur') : There(disk', f)
        /\ \A f \in ToSet(Tail(todo)) : IsIn(f)
    BY <1>1, <1>2, <1>5, <1>8, <2>1 DEF Made
  <2>3. QED
    BY <1>1, <1>8, <2>2 DEF Made
<1>9. QED
  BY <1>1, <1>7, <1>8

LEMMA FileDoneWhole ==
  ASSUME Listed, WholeInv, FileDone, NamesApart, exit_status = "SUCCESS"
  PROVE  Made(pc', disk', todo', done', links', cur')
<1>1. /\ cur # NULL /\ cur' = NULL /\ done' = Append(done, cur) /\ pc \in {"produce", "compile"}
      /\ UNCHANGED <<pc, disk, todo, links>>
  BY DEF FileDone
<1>2. ToSet(done') = ToSet(done) \cup {cur}
  BY <1>1, FilesAppend DEF Listed
<1>3. InHand(cur) = {cur} /\ InHand(cur') = {}
  BY <1>1 DEF InHand
<1>4. Made(pc, disk, todo, done, links, cur)
  BY DEF WholeInv
<1>5. CASE pc = "produce"
  <2>1. ToSet(todo) \cup ToSet(done) \cup InHand(cur) = ToSet(todo') \cup ToSet(done') \cup InHand(cur')
    BY <1>1, <1>2, <1>3
  <2>2. /\ HasAll(disk', ToSet(todo') \cup ToSet(done') \cup InHand(cur'))
        /\ \A f \in ToSet(todo) : IsIn(f)
        /\ \A f \in ToSet(done) \cup InHand(cur) : IsIn(f) \/ Capsule(f)
    BY <1>1, <1>4, <1>5, <2>1 DEF Made
  <2>3. QED
    BY <1>1, <1>2, <1>3, <1>5, <2>2 DEF Made
<1>6. CASE pc = "compile"
  <2>1. (ToSet(todo) \cup InHand(cur)) \cup ToSet(done) = (ToSet(todo') \cup InHand(cur')) \cup ToSet(done')
    BY <1>1, <1>2, <1>3
  <2>2. /\ LastingHaveAll(disk, ToSet(todo) \cup InHand(cur), ToSet(done))
        /\ \A f \in ToSet(todo) \cup InHand(cur) : There(disk, f)
        /\ \A f \in ToSet(todo) : IsIn(f)
    BY <1>1, <1>4, <1>6 DEF Made
  <2>3. LastingHaveAll(disk', ToSet(todo') \cup InHand(cur'), ToSet(done'))
    BY <1>1, <1>2, <1>3, <2>1, <2>2 DEF LastingHaveAll
  <2>4. QED
    BY <1>1, <1>3, <1>6, <2>2, <2>3 DEF Made
<1>7. QED
  BY <1>1, <1>5, <1>6

LEMMA EndCompileWhole ==
  ASSUME Listed, WholeInv, EndCompile, NamesApart, exit_status = "SUCCESS"
  PROVE  Made(pc', disk', todo', done', links', cur')
<1>1. /\ cur = NULL /\ todo = <<>> /\ links' = done /\ done' = <<>> /\ disk' = disk
      /\ pc \in {"produce", "compile"} /\ pc' = IF pc = "produce" THEN "build" ELSE "link"
  BY DEF EndCompile
<1>2. ToSet(todo) = {} /\ InHand(cur) = {}
  BY <1>1, EmptyList DEF InHand
<1>3. Made(pc, disk, todo, done, links, cur)
  BY DEF WholeInv
<1>4. CASE pc = "produce"
  <2>1. ToSet(todo) \cup ToSet(done) \cup InHand(cur) = ToSet(links')
    BY <1>1, <1>2
  <2>2. HasAll(disk', ToSet(links')) /\ \A f \in ToSet(links') : IsIn(f) \/ Capsule(f)
    BY <1>1, <1>3, <1>4, <2>1 DEF Made
  <2>3. QED
    BY <1>1, <1>4, <2>2 DEF Made, Capsule
<1>5. CASE pc = "compile"
  <2>1. ToSet(todo) \cup InHand(cur) = {}
    BY <1>2
  <2>2. LastingHaveAll(disk', {}, ToSet(links'))
    BY <1>1, <1>3, <1>5, <2>1 DEF Made
  <2>3. QED
    BY <1>1, <1>5, <2>2 DEF Made
<1>6. QED
  BY <1>1, <1>4, <1>5

\* At the beginning each input stands for itself.
LEMMA InputsHaveAll ==
  ASSUME Listed, DiskInv, NamesApart
  PROVE  /\ HasAll(disk, ToSet(InputList))
         /\ \A f \in ToSet(InputList) : IsIn(f)
<1>1. ToSet(InputList) = {InputFile(i) : i \in Ids}
  BY DEF InputList, ToSet
<1>2. ASSUME NEW i \in Ids
      PROVE  /\ There(disk, InputFile(i)) /\ IsIn(InputFile(i))
             /\ disk[InputFile(i).name].of = {j \in Ids : InputFile(j).name = InputFile(i).name}
  <2>1. InputFile(i).name \in InputNames
    BY DEF InputNames
  <2>2. /\ InputFile(i).name \in DOMAIN disk
        /\ disk[InputFile(i).name] = [of |-> {j \in Ids : InputFile(j).name = InputFile(i).name}, whole |-> TRUE]
    BY <2>1 DEF DiskInv, Safe, Original
  <2>3. IsIn(InputFile(i))
    BY DEF InputFile, IsIn
  <2>4. ASSUME NEW m, NEW r, r = [of |-> m, whole |-> TRUE] PROVE r.whole = TRUE /\ r.of = m
    BY <2>4
  <2>5. QED
    BY <2>2, <2>3, <2>4 DEF There
<1>3. Src(disk, ToSet(InputList)) = Ids
  <2>1. ASSUME NEW i \in Ids PROVE i \in Src(disk, ToSet(InputList))
    <3>1. i \in disk[InputFile(i).name].of
      BY <1>2
    <3>2. InputFile(i) \in ToSet(InputList)
      BY <1>1
    <3>3. QED
      BY <3>1, <3>2 DEF Src
  <2>2. ASSUME NEW x \in Src(disk, ToSet(InputList)) PROVE x \in Ids
    <3>1. PICK f \in ToSet(InputList) : x \in disk[f.name].of
      BY DEF Src
    <3>2. PICK i \in Ids : f = InputFile(i)
      BY <1>1, <3>1
    <3>3. QED
      BY <1>2, <3>1, <3>2
  <2>3. QED
    BY <2>1, <2>2
<1>4. QED
  BY <1>1, <1>2, <1>3 DEF HasAll

LEMMA MkdirWhole ==
  ASSUME Listed, DiskInv, LineInv, temp_mkdir, NamesApart, exit_status' = "SUCCESS"
  PROVE  Made(pc', disk', todo', done', links', cur')
<1>1. /\ pc = "mkdir" /\ todo' = InputList /\ pc' = (IF args.make_complex THEN "produce" ELSE "compile")
      /\ UNCHANGED <<cur, done, disk>>
  BY DEF temp_mkdir
<1>2. done' = <<>> /\ cur' = NULL
  BY <1>1 DEF LineInv, Line
<1>3. ToSet(done') = {} /\ InHand(cur') = {}
  BY <1>2, EmptyList DEF InHand
<1>4. HasAll(disk', ToSet(todo')) /\ \A f \in ToSet(todo') : IsIn(f)
  BY <1>1, InputsHaveAll
<1>5. ToSet(todo') \cup ToSet(done') \cup InHand(cur') = ToSet(todo')
      /\ ToSet(todo') \cup InHand(cur') = ToSet(todo') /\ ToSet(todo') \cup ToSet(done') = ToSet(todo')
  BY <1>3
<1>6. CASE args.make_complex
  <2>1. /\ HasAll(disk', ToSet(todo') \cup ToSet(done') \cup InHand(cur')) /\ pc' = "produce"
        /\ \A f \in ToSet(done') \cup InHand(cur') : IsIn(f) \/ Capsule(f)
    BY <1>1, <1>3, <1>4, <1>5, <1>6
  <2>2. QED
    BY <1>4, <2>1 DEF Made
<1>7. CASE ~args.make_complex
  <2>1. LastingHaveAll(disk', ToSet(todo') \cup InHand(cur'), ToSet(done')) /\ pc' = "compile"
    BY <1>1, <1>3, <1>4, <1>5, <1>7 DEF LastingHaveAll, HasAll
  <2>2. QED
    BY <1>4, <1>5, <2>1 DEF Made, HasAll
<1>8. QED
  BY <1>6, <1>7

LEMMA TailCons ==
  ASSUME NEW S, NEW s \in Seq(S), NEW f \in S
  PROVE  Tail(<<f>> \o s) = s
<1>1. PICK L \in Nat : L = Len(s)
  OBVIOUS
<1>2. PICK r : r = <<f>> \o s
  OBVIOUS
<1>3. /\ r \in Seq(S) /\ Len(r) = L + 1
      /\ \A i \in 1 .. L : r[i + 1] = s[i]
  BY <1>1, <1>2
<1>4. Tail(r) \in Seq(S) /\ Len(Tail(r)) = L /\ \A i \in 1 .. L : Tail(r)[i] = s[i]
  BY <1>1, <1>3
<1>5. Tail(r) = s
  BY <1>1, <1>4, SeqEqual
<1>6. QED
  BY <1>2, <1>5

\* The compilation goes on with the capsule that was built, if any, and inputs.
LEMMA GoOnWhole ==
  ASSUME Listed, LineInv, pc \in {"build", "move"}, UNCHANGED <<cur, done>>, NEW built, GoOn(built),
         \A f \in ToSet(links) : f.type # "j" => IsIn(f), NEW rest, rest = {f \in ToSet(links) : f.type # "j"},
         \/ built = <<>> /\ HasAll(disk', rest)
         \/ \E f : built = <<f>> /\ Fine(f) /\ f.name.type # "x" /\ HasAll(disk', rest \cup {f})
  PROVE  Made(pc', disk', todo', done', links', cur')
<1>1. PICK s : s = NotOfType(links, "j")
  OBVIOUS
<1>2. Files(s) /\ ToSet(s) = rest
  BY <1>1, FilesChosen DEF Listed
<1>3. pc' = "compile" /\ todo' = built \o s /\ done' = <<>> /\ cur' = NULL
  BY <1>1 DEF GoOn, LineInv, Line
<1>4. ToSet(done') = {} /\ InHand(cur') = {}
  BY <1>3, EmptyList DEF InHand
<1>5. ASSUME HasAll(disk', ToSet(todo')), \A f \in ToSet(todo') : IsIn(f) \/ f.name.type # "x",
             (\A f \in ToSet(todo') : IsIn(f)) \/ (\A f \in ToSet(Tail(todo')) : IsIn(f))
      PROVE  Made(pc', disk', todo', done', links', cur')
  <2>1. ToSet(todo') \cup InHand(cur') = ToSet(todo') /\ ToSet(todo') \cup ToSet(done') = ToSet(todo')
    BY <1>4
  <2>2. LastingHaveAll(disk', ToSet(todo') \cup InHand(cur'), ToSet(done'))
    BY <1>4, <1>5, <2>1 DEF LastingHaveAll, HasAll
  <2>3. QED
    BY <1>3, <1>5, <2>1, <2>2 DEF Made, HasAll
<1>6. CASE built = <<>> /\ HasAll(disk', rest)
  <2>1. todo' = s
    BY <1>2, <1>3, <1>6 DEF Files
  <2>2. QED
    BY <1>2, <1>5, <1>6, <2>1
<1>7. ASSUME NEW f, built = <<f>>, Fine(f), f.name.type # "x", HasAll(disk', rest \cup {f})
      PROVE  Made(pc', disk', todo', done', links', cur')
  <2>1. f \in FileRecords /\ s \in Seq(FileRecords) /\ Files(<<f>>) /\ ToSet(<<f>>) = {f}
    BY <1>2, <1>7, FilesOne DEF Fine, Files
  <2>2. Tail(todo') = s
    BY <1>3, <1>7, <2>1, TailCons
  <2>3. ToSet(todo') = {f} \cup rest
    <3>1. built \in Seq(FileRecords)
      BY <1>7, <2>1 DEF Files
    <3>2. ToSet(built \o s) = ToSet(built) \cup ToSet(s)
      BY <2>1, <3>1, ToSetConcat
    <3>3. QED
      BY <1>2, <1>3, <1>7, <2>1, <3>2
  <2>4. ToSet(todo') = rest \cup {f}
    BY <2>3
  <2>5. QED
    BY <1>2, <1>5, <1>7, <2>2, <2>4
<1>8. QED
  BY <1>6, <1>7

\* One file is made from those that are to be linked or moved, and inputs stay.
LEMMA BuiltWhole ==
  ASSUME DiskInv, DiskInv', args' = args, NamesApart, NEW in, Files(in), NEW g, NEW X,
         WroteTo(disk', in, g, X),
         NEW rest, \A f \in rest : Fine(f) /\ IsIn(f), HasAll(disk, rest \cup ToSet(in))
  PROVE  HasAll(disk', rest \cup {g})
<1>1. There(disk', g) /\ disk'[g.name].of = Src(disk, ToSet(in))
  BY Wrote
<1>2. \A f \in rest : There(disk', f) /\ disk'[f.name] = disk[f.name]
  BY InputsSame
<1>3. Src(disk', rest \cup {g}) = Src(disk, rest \cup ToSet(in))
  BY <1>1, <1>2 DEF Src
<1>4. QED
  BY <1>1, <1>2, <1>3 DEF HasAll

\* The capsule that is built gets another name than the temporary files it is made from.
LEMMA BuiltApart ==
  ASSUME seq \in Nat, NEW js, NEW temp, temp = UniqTempfile(js, ComplexFile), NEW f \in ToSet(js),
         f.storage = "TEMP_FILE", f.name.type = "j", f.name.no \in Nat, f.name.no <= seq
  PROVE  temp.name # f.name
<1>1. PICK q : q = ComplexFile
  OBVIOUS
<1>2. PICK v : v = make_filename(NULL, "j", "TEMP_FILE")
  OBVIOUS
<1>3. v.name.no = seq + 1
  <2>1. ~SameType(NULL, "j") /\ ~SharesName(NULL, "j", "TEMP_FILE") /\ MakesUp(NULL, "j", "TEMP_FILE")
    BY DEF SameType, SharesName, MakesUp
  <2>2. QED
    BY <1>2, <2>1 DEF make_filename, NameOf
<1>4. CASE \E g \in Clashes(js, q) : g.storage = "TEMP_FILE"
  <2>1. temp = v
    BY <1>1, <1>2, <1>4 DEF UniqTempfile
  <2>2. QED
    BY <1>3, <2>1
<1>5. CASE ~\E g \in Clashes(js, q) : g.storage = "TEMP_FILE"
  <2>1. f.name # q.name
    BY <1>5 DEF Clashes
  <2>2. temp = UniqFilename(js, q)
    BY <1>1, <1>5 DEF UniqTempfile
  <2>3. temp = q \/ temp = [q EXCEPT !.name.type = "j+"]
    BY <2>2 DEF UniqFilename
  <2>4. temp.name = q.name \/ temp.name.type = "j+"
    BY <1>1, <2>3 DEF ComplexFile, NameOf
  <2>5. QED
    BY <2>1, <2>4
<1>6. QED
  BY <1>4, <1>5

LEMMA BuildWhole ==
  ASSUME Listed, PlainInv, DiskInv, DiskInv', LineInv, WholeInv, do_tdf_build, NamesApart,
         exit_status = "SUCCESS", exit_status' = "SUCCESS", args' = args
  PROVE  Made(pc', disk', todo', done', links', cur')
<1>1. PICK js, file, temp :
        /\ js = OfType(links, "j") /\ file = UniqFilename(js, ComplexFile)
        /\ temp = UniqTempfile(js, ComplexFile)
  OBVIOUS
<1>2. PICK rest : rest = {f \in ToSet(links) : f.type # "j"}
  OBVIOUS
<1>3. pc = "build" /\ ~exec_error /\ seq \in Nat
  BY DEF do_tdf_build, WholeInv, Listed
<1>4. \/ js = <<>> /\ GoOn(<<>>) /\ UNCHANGED <<cur, done, disk>>
      \/ /\ \E r : /\ execute(js, <<temp>>, r)
                   /\ IF r = "ok" /\ temp # file
                      THEN pc' = "move" /\ todo' = <<temp, file>> /\ UNCHANGED links
                      ELSE GoOn(IF r = "ok" THEN <<file>> ELSE <<>>)
         /\ UNCHANGED <<cur, done>>
      \/ StoppedIn(js, <<temp>>)
  BY <1>1, <1>3 DEF do_tdf_build
<1>5. /\ Files(js) /\ ToSet(js) = {f \in ToSet(links) : f.type = "j"}
      /\ Fine(file) /\ Fine(temp) /\ file.name.type # "x" /\ ToSet(<<temp>>) = {temp}
      /\ temp = file \/ temp.name # file.name
  <2>1. Files(js) /\ Fine(file) /\ Fine(temp)
    BY <1>1, <1>3, BuildFine
  <2>2. temp = file \/ temp.name # file.name
    BY <1>1, <1>3, BuiltPlain
  <2>3. ToSet(js) = {f \in ToSet(links) : f.type = "j"}
    BY <1>1, FilesChosen DEF Listed
  <2>4. file.name.type # "x"
    <3>1. file.name.type \in {"j", "j+"}
      BY <1>1 DEF UniqFilename, ComplexFile, NameOf
    <3>2. QED
      BY <3>1
  <2>5. QED
    BY <2>1, <2>2, <2>3, <2>4, FilesOne
<1>6. /\ HasAll(disk, ToSet(links)) /\ \A f \in ToSet(links) : IsIn(f) \/ f.type = "j"
  BY <1>3 DEF WholeInv, Made
<1>7. \A f \in rest : Fine(f) /\ IsIn(f)
  BY <1>2, <1>6 DEF Listed, Files
<1>8. ToSet(links) = rest \cup ToSet(js)
  BY <1>2, <1>5
<1>9. CASE js = <<>> /\ GoOn(<<>>) /\ UNCHANGED <<cur, done, disk>>
  <2>1. ToSet(links) = rest
    BY <1>8, <1>9, EmptyList
  <2>2. HasAll(disk', rest)
    BY <1>6, <1>9, <2>1
  <2>3. QED
    BY <1>2, <1>3, <1>6, <1>9, <2>2, GoOnWhole
<1>10. ASSUME NEW r, execute(js, <<temp>>, r), UNCHANGED <<cur, done>>,
              IF r = "ok" /\ temp # file
              THEN pc' = "move" /\ todo' = <<temp, file>> /\ UNCHANGED links
              ELSE GoOn(IF r = "ok" THEN <<file>> ELSE <<>>)
       PROVE  Made(pc', disk', todo', done', links', cur')
  <2>1. r = "ok"
    BY <1>10 DEF execute
  <2>2. PICK X : X = Unneeded(js)
    OBVIOUS
  <2>3. temp.name \notin X
    <3>1. SUFFICES ASSUME NEW f \in ToSet(js), f.storage = "TEMP_FILE"
                   PROVE  temp.name # f.name
      BY <2>2 DEF Unneeded
    <3>2. f \in ToSet(links)
      BY <1>5
    <3>3. Capsule(f)
      BY <1>3, <3>1, <3>2 DEF WholeInv, Made, IsIn
    <3>4. Plain(f, seq) /\ Fine(f)
      BY <3>2 DEF PlainInv, Plains, Listed, Files
    <3>5. f.name.type = "j" /\ f.name.no \in Nat /\ f.name.no <= seq
      BY <3>3, <3>4 DEF Capsule, Plain, Fine, FileRecords
    <3>6. QED
      BY <1>1, <1>3, <3>1, <3>5, BuiltApart
  <2>4. WroteTo(disk', js, temp, X)
    BY <1>5, <1>10, <2>1, <2>2, <2>3 DEF execute, WroteTo
  <2>5. HasAll(disk', rest \cup {temp})
    BY <1>5, <1>6, <1>7, <1>8, <2>4, BuiltWhole
  <2>6. CASE temp = file
    <3>1. GoOn(<<file>>)
      BY <1>10, <2>1, <2>6
    <3>2. QED
      BY <1>2, <1>3, <1>5, <1>6, <1>10, <2>5, <2>6, <3>1, GoOnWhole
  <2>7. CASE temp # file
    <3>1. pc' = "move" /\ todo' = <<temp, file>> /\ links' = links
      BY <1>10, <2>1, <2>7
    <3>2. todo'[1] = temp /\ todo'[2] = file
      BY <3>1
    <3>3. {todo'[1]} \cup {f \in ToSet(links') : f.type # "j"} = rest \cup {temp}
      BY <1>2, <3>1, <3>2
    <3>4. QED
      BY <1>5, <1>6, <2>5, <2>7, <3>1, <3>2, <3>3 DEF Made
  <2>8. QED
    BY <2>6, <2>7
<1>11. CASE StoppedIn(js, <<temp>>)
  BY <1>11, StoppedWhole
<1>12. QED
  BY <1>4, <1>9, <1>10, <1>11

LEMMA MoveWhole ==
  ASSUME Listed, DiskInv, DiskInv', LineInv, WholeInv, do_move, NamesApart,
         exit_status = "SUCCESS", exit_status' = "SUCCESS", args' = args
  PROVE  Made(pc', disk', todo', done', links', cur')
<1>1. PICK from, to, rest : /\ from = todo[1] /\ to = todo[2]
                            /\ rest = {f \in ToSet(links) : f.type # "j"}
  OBVIOUS
<1>2. pc = "move"
  BY DEF do_move
<1>3. \/ /\ disk' = Removed(Written(<<from>>, <<to>>, TRUE), {from.name})
         /\ GoOn(<<to>>) /\ UNCHANGED <<cur, done>>
      \/ StoppedIn(<<from>>, <<to>>)
  BY <1>1 DEF do_move, execute
<1>4. CASE StoppedIn(<<from>>, <<to>>)
  BY <1>4, StoppedWhole
<1>5. CASE /\ disk' = Removed(Written(<<from>>, <<to>>, TRUE), {from.name})
           /\ GoOn(<<to>>) /\ UNCHANGED <<cur, done>>
  <2>1. /\ HasAll(disk, {from} \cup rest) /\ from.name # to.name /\ to.name.type # "x"
        /\ \A f \in ToSet(links) : IsIn(f) \/ f.type = "j"
    BY <1>1, <1>2 DEF WholeInv, Made
  <2>2. Fine(from) /\ Fine(to) /\ Files(<<from>>) /\ ToSet(<<from>>) = {from}
    BY <1>1, <1>2, MoveFine, FilesOne
  <2>3. \A f \in rest : Fine(f) /\ IsIn(f)
    BY <1>1, <2>1 DEF Listed, Files
  <2>4. PICK X : X = {from.name}
    OBVIOUS
  <2>5. WroteTo(disk', <<from>>, to, X)
    BY <1>5, <2>1, <2>2, <2>4, FilesOne DEF WroteTo
  <2>6. HasAll(disk, rest \cup ToSet(<<from>>))
    <3>1. {from} \cup rest = rest \cup ToSet(<<from>>)
      BY <2>2
    <3>2. QED
      BY <2>1, <3>1
  <2>7. HasAll(disk', rest \cup {to})
    BY <2>2, <2>3, <2>5, <2>6, BuiltWhole
  <2>8. QED
    BY <1>1, <1>2, <1>5, <2>1, <2>2, <2>7, GoOnWhole
<1>6. QED
  BY <1>3, <1>4, <1>5

LEMMA LinkWhole ==
  ASSUME Listed, DiskInv, DiskInv', WholeInv, apply_link, NamesApart,
         exit_status = "SUCCESS", exit_status' = "SUCCESS", args' = args
  PROVE  Made(pc', disk', todo', done', links', cur')
<1>1. PICK os, others, exe :
        os = OfType(links, "o") /\ others = NotOfType(links, "o") /\ exe = ExecutableFile
  OBVIOUS
<1>2. pc = "link" /\ ~exec_error
  BY DEF apply_link, WholeInv
<1>3. \/ pc' = "return" /\ done' = os \o others /\ disk' = disk
      \/ \E r : execute(os, <<exe>>, r) /\ (r = "ok" => pc' = "return" /\ done' = <<exe>> \o others)
      \/ StoppedIn(os, <<exe>>)
  BY <1>1, <1>2 DEF apply_link
<1>4. /\ Files(os) /\ Files(others) /\ Fine(exe) /\ ToSet(<<exe>>) = {exe}
      /\ <<exe>> \in Seq(FileRecords) /\ os \in Seq(FileRecords) /\ others \in Seq(FileRecords)
      /\ ToSet(os) = {f \in ToSet(links) : f.type = "o"}
      /\ ToSet(others) = {f \in ToSet(links) : f.type # "o"}
      /\ exe.name.dir = "work" /\ exe.name.type = "x"
  <2>1. Files(os) /\ Files(others) /\ ToSet(os) = {f \in ToSet(links) : f.type = "o"}
        /\ ToSet(others) = {f \in ToSet(links) : f.type # "o"}
    BY <1>1, FilesChosen DEF Listed
  <2>2. Fine(exe) /\ ToSet(<<exe>>) = {exe} /\ Files(<<exe>>)
    BY <1>1, ExecutableIsFine, FilesOne DEF Listed
  <2>3. exe.name.dir = "work" /\ exe.name.type = "x"
    BY <1>1 DEF ExecutableFile, NameOf
  <2>4. QED
    BY <2>1, <2>2, <2>3 DEF Files
<1>5. LastingHaveAll(disk, {}, ToSet(links))
  BY <1>2 DEF WholeInv, Made
<1>6. /\ \A f \in ToSet(links) : Lasting(f) => There(disk, f)
      /\ (\A f \in ToSet(links) : Lasting(f)) => Src(disk, ToSet(links)) = Ids
      /\ \A f \in ToSet(links) : IsIn(f) \/ f.name.type # "x"
  <2>1. {} \cup ToSet(links) = ToSet(links)
    OBVIOUS
  <2>2. QED
    BY <1>5, <2>1 DEF LastingHaveAll
<1>7. CASE StoppedIn(os, <<exe>>)
  BY <1>7, StoppedWhole
<1>8. CASE pc' = "return" /\ done' = os \o others /\ disk' = disk
  <2>1. ToSet(done') = ToSet(os) \cup ToSet(others)
    BY <1>4, <1>8, ToSetConcat
  <2>2. ToSet(done') = ToSet(links)
    BY <1>4, <2>1
  <2>3. /\ \A f \in ToSet(done') : f.name.dir # "temp" => There(disk', f)
        /\ (\A f \in ToSet(done') : f.name.dir # "temp") => Src(disk', ToSet(done')) = Ids
    BY <1>6, <1>8, <2>2 DEF Lasting
  <2>4. QED
    BY <1>8, <2>3 DEF Made
<1>9. ASSUME NEW r, execute(os, <<exe>>, r), r = "ok" => pc' = "return" /\ done' = <<exe>> \o others
      PROVE  Made(pc', disk', todo', done', links', cur')
  <2>1. r = "ok"
    BY <1>9 DEF execute
  <2>2. PICK X : X = Unneeded(os)
    OBVIOUS
  <2>3. X = {}
    BY <1>4, <2>2 DEF Unneeded
  <2>4. WroteTo(disk', os, exe, X)
    BY <1>4, <1>9, <2>1, <2>2, <2>3 DEF execute, WroteTo
  <2>5. /\ There(disk', exe) /\ disk'[exe.name].of = Src(disk, ToSet(os))
        /\ \A n \in DOMAIN disk : n # exe.name /\ n \notin X => n \in DOMAIN disk' /\ disk'[n] = disk[n]
    BY <2>4, Wrote
  <2>6. ASSUME NEW f \in ToSet(others), f.name.dir # "temp"
        PROVE  There(disk', f) /\ disk'[f.name] = disk[f.name]
    <3>1. Fine(f) /\ f \in ToSet(links) /\ There(disk, f)
      BY <1>4, <1>6, <2>6 DEF Files, Lasting
    <3>2. CASE IsIn(f)
      BY <3>1, <3>2, InputsSame
    <3>3. CASE ~IsIn(f)
      <4>1. f.name # exe.name
        BY <1>4, <1>6, <3>1, <3>3
      <4>2. f.name \in DOMAIN disk' /\ disk'[f.name] = disk[f.name]
        BY <2>3, <2>5, <3>1, <4>1 DEF There
      <4>3. QED
        BY <3>1, <4>2 DEF There
    <3>4. QED
      BY <3>2, <3>3
  <2>7. ToSet(done') = {exe} \cup ToSet(others) /\ pc' = "return"
    <3>1. done' = <<exe>> \o others /\ pc' = "return"
      BY <1>9, <2>1
    <3>2. PICK u : u = <<exe>> /\ u \in Seq(FileRecords) /\ others \in Seq(FileRecords)
      BY <1>4
    <3>3. ToSet(u \o others) = ToSet(u) \cup ToSet(others)
      BY <3>2, ToSetConcat
    <3>4. QED
      BY <1>4, <3>1, <3>2, <3>3
  <2>8. ASSUME \A f \in ToSet(done') : f.name.dir # "temp"
        PROVE  Src(disk', ToSet(done')) = Ids
    <3>1. \A f \in ToSet(others) : disk'[f.name] = disk[f.name]
      BY <2>6, <2>7, <2>8
    <3>2. \A f \in ToSet(links) : Lasting(f)
      BY <1>4, <2>7, <2>8 DEF Lasting
    <3>3. Src(disk', {exe} \cup ToSet(others)) = Src(disk, ToSet(os) \cup ToSet(others))
      BY <2>5, <3>1 DEF Src
    <3>4. ToSet(os) \cup ToSet(others) = ToSet(links)
      BY <1>4
    <3>5. QED
      BY <1>6, <2>7, <3>2, <3>3, <3>4
  <2>9. \A f \in ToSet(done') : f.name.dir # "temp" => There(disk', f)
    BY <2>5, <2>6, <2>7
  <2>10. QED
    BY <2>7, <2>8, <2>9 DEF Made
<1>10. QED
  BY <1>3, <1>7, <1>8, <1>9

LEMMA ReturnWhole ==
  ASSUME WholeInv, Return, NamesApart, exit_status = "SUCCESS"
  PROVE  Made(pc', disk', todo', done', links', cur')
<1>1. /\ pc = "return" /\ pc' = "exited" /\ done' = done
      /\ disk' = RemoveTempdir(disk, "SUCCESS") \/ disk' \in Leftovers(disk)
  BY DEF Return, main_end
<1>2. /\ \A f \in ToSet(done) : f.name.dir # "temp" => There(disk, f)
      /\ (\A f \in ToSet(done) : f.name.dir # "temp") => Src(disk, ToSet(done)) = Ids
  BY <1>1 DEF WholeInv, Made
<1>3. \A n \in DOMAIN disk : n.dir # "temp" => n \in DOMAIN disk' /\ disk'[n] = disk[n]
  BY <1>1 DEF RemoveTempdir, Leftovers, Removed
<1>4. \A f \in ToSet(done) : f.name.dir # "temp" => There(disk', f) /\ disk'[f.name] = disk[f.name]
  <2>1. ASSUME NEW f \in ToSet(done), f.name.dir # "temp"
        PROVE  There(disk', f) /\ disk'[f.name] = disk[f.name]
    <3>1. There(disk, f)
      BY <1>2, <2>1
    <3>2. f.name \in DOMAIN disk' /\ disk'[f.name] = disk[f.name]
      BY <1>3, <2>1, <3>1 DEF There
    <3>3. QED
      BY <3>1, <3>2 DEF There
  <2>2. QED
    BY <2>1
<1>5. (\A f \in ToSet(done) : f.name.dir # "temp") => Src(disk', ToSet(done)) = Ids
  <2>1. SUFFICES ASSUME \A f \in ToSet(done) : f.name.dir # "temp" PROVE Src(disk', ToSet(done)) = Ids
    OBVIOUS
  <2>2. \A f \in ToSet(done) : disk'[f.name] = disk[f.name]
    BY <1>4, <2>1
  <2>3. Src(disk', ToSet(done)) = Src(disk, ToSet(done))
    BY <2>2 DEF Src
  <2>4. QED
    BY <1>2, <2>1, <2>3
<1>6. QED
  BY <1>1, <1>4, <1>5 DEF Made

LEMMA WholeStep ==
  ASSUME Listed, DiskInv, PlainInv, LineInv, WholeInv, [DriverNext]_driverVars
  PROVE  WholeInv'
<1>1. /\ exec_error' => exit_status' = "FAILURE"
      /\ exit_status' = "SUCCESS" => exit_status = "SUCCESS"
  BY FailStep
<1>2. DiskInv'
  BY DiskStep
<1>3. args' = args
  BY DEF DriverNext, driverVars, ProcessOption, EndOptions, temp_mkdir, MkdirStopped, RetryLimitReached, TakeFile,
         RunStage, FileDone, EndCompile, do_tdf_build, do_move, apply_link, KeepObject, EndKeep, Return, Exited,
         StoppedIn, Signalled, Interrupted
<1>4. SUFFICES ASSUME NamesApart, exit_status' = "SUCCESS" PROVE Made(pc', disk', todo', done', links', cur')
  BY <1>1, <1>3, WholeNext
<1>5. exit_status = "SUCCESS" /\ Made(pc, disk, todo, done, links, cur)
  BY <1>1, <1>4 DEF WholeInv
<1>6. CASE ProcessOption \/ EndOptions
  <2>1. pc' \in {"options", "mkdir"}
    BY <1>6 DEF ProcessOption, EndOptions
  <2>2. QED
    BY <2>1 DEF Made
<1>7. CASE UNCHANGED driverVars
  <2>1. UNCHANGED <<pc, disk, todo, done, links, cur>>
    BY <1>7 DEF driverVars, ctlVars
  <2>2. QED
    BY <1>5, <2>1
<1>8. CASE MkdirStopped \/ RetryLimitReached
  BY <1>4, <1>8, StoppedWhole DEF MkdirStopped, RetryLimitReached, main_end
<1>9. CASE KeepObject \/ EndKeep
  BY <1>5, <1>9 DEF KeepObject, EndKeep, Made
<1>10. CASE temp_mkdir
  BY <1>4, <1>10, MkdirWhole
<1>11. CASE TakeFile
  BY <1>4, <1>5, <1>11, TakeFileWhole
<1>12. CASE RunStage
  BY <1>2, <1>3, <1>4, <1>5, <1>12, RunStageWhole
<1>13. CASE FileDone
  BY <1>4, <1>5, <1>13, FileDoneWhole
<1>14. CASE EndCompile
  BY <1>4, <1>5, <1>14, EndCompileWhole
<1>15. CASE do_tdf_build
  BY <1>2, <1>3, <1>4, <1>5, <1>15, BuildWhole
<1>16. CASE do_move
  BY <1>2, <1>3, <1>4, <1>5, <1>16, MoveWhole
<1>17. CASE apply_link
  BY <1>2, <1>3, <1>4, <1>5, <1>17, LinkWhole
<1>18. CASE Return
  BY <1>4, <1>5, <1>18, ReturnWhole
<1>19. QED
  BY <1>6, <1>7, <1>8, <1>9, <1>10, <1>11, <1>12, <1>13, <1>14, <1>15, <1>16, <1>17, <1>18 DEF DriverNext, Exited

\* When tcc exits and nothing has failed, what it made is whole, and all inputs are in
\* it if nothing of it was temporary: each input went through producer, linker,
\* translator and assembler with its own files (make_filename, execute, apply_build,
\* apply_link), although the intermediate files share their names.
THEOREM SuccessIsWholeInvariant == DriverSpec => []SuccessIsWhole
<1> DEFINE Lists == Listed /\ PlainInv /\ MoveInv /\ LineInv /\ ErrInv /\ ObjInv
<1>1. DriverInit => WholeInv
  BY DEF DriverInit, WholeInv, Made
<1>2. Lists /\ (Listed /\ DiskInv) /\ WholeInv /\ [DriverNext]_driverVars => WholeInv'
  BY WholeStep
<1>3. WholeInv => SuccessIsWhole
  <2>1. SUFFICES ASSUME WholeInv, pc = "exited", exit_status = "SUCCESS", NamesApart
                 PROVE  /\ \A f \in Results_ : f.name \in DOMAIN disk /\ disk[f.name].whole
                        /\ Results_ = ToSet(done) => UNION {disk[f.name].of : f \in Results_} = Ids
    BY DEF SuccessIsWhole
  <2>2. /\ \A f \in ToSet(done) : f.name.dir # "temp" => There(disk, f)
        /\ (\A f \in ToSet(done) : f.name.dir # "temp") => Src(disk, ToSet(done)) = Ids
    BY <2>1 DEF WholeInv, Made
  <2>3. Results_ = ToSet(done) => \A f \in ToSet(done) : f.name.dir # "temp"
    BY DEF Results_
  <2>4. QED
    BY <2>2, <2>3 DEF Results_, There, Src
<1>4. DriverSpec => []WholeInv
  <2>1. DriverSpec => []Lists /\ [](Listed /\ DiskInv)
    BY ObjectsInvariant, DriverInvariant
  <2>2. QED
    BY <1>1, <1>2, <2>1, PTL DEF DriverSpec
<1>5. QED
  BY <1>3, <1>4, PTL
=============================================================================
