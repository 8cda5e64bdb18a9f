-------------------------------- MODULE Driver --------------------------------
(***************************************************************************)
(* tcc, the compiler driver: it makes a temporary directory, takes each    *)
(* input through the producer, the TDF linker, the translator and the      *)
(* assembler (src/tcc/src/compile.c, stages.c), links the objects, keeps    *)
(* them if that fails, and removes the temporary directory when it exits   *)
(* (main.c).  Every command goes through execute() (execute.c), and the     *)
(* tools may fail, die of a signal or not be there.                        *)
(*                                                                         *)
(* disk says which files there are, from which inputs each was made and    *)
(* whether it is whole.  Intermediate files of different inputs share one  *)
(* name (filename.c), so the order in which they are used matters.         *)
(***************************************************************************)
EXTENDS Stages, FiniteSets, SequencesExt

CONSTANTS
  NULL,
  DriverArgs,   \* the possible command lines
  Outcomes,     \* how a command may end: "ok", "fail", "signal", "noexec"
  Interrupts,   \* whether the user may interrupt tcc while a command runs
  RETRY_LIMIT   \* how often a temporary directory is tried for

Input == [dir : {"work", "sub"}, base : STRING, type : {"c", "j", "s", "o"}]

DriverArg ==
  [opts : Seq(StageOption), inputs : Seq(Input), make_complex : BOOLEAN,
   make_up_names : BOOLEAN, verbose : BOOLEAN, tidy_up : BOOLEAN, flag_keep_err : BOOLEAN]

\* What a filename holds: the name on the disk, the base and number from which other
\* names are derived, the type, and where the file is kept.
Bases == STRING \cup {"_tcc", "a", "a.out"}
DiskNames ==
  [dir : {"work", "sub", "temp"}, base : Bases, no : Nat,
   type : {"c", "j", "j+", "t", "s", "o", "x"}]
FileRecords ==
  [name : DiskNames, base : Bases, no : Nat, type : {"c", "j", "t", "s", "o", "x"},
   storage : {"INPUT_FILE", "TEMP_FILE", "OUTPUT_FILE"}]

ASSUME DriverAssumption ==
  /\ DriverArgs \subseteq DriverArg /\ \A a \in DriverArgs : a.inputs # <<>>
  /\ Outcomes \subseteq {"ok", "fail", "signal", "noexec"} /\ Interrupts \in BOOLEAN
  /\ RETRY_LIMIT \in Nat /\ NULL \notin FileRecords

VARIABLES
  args,         \* the command line
  pc,           \* where main and apply_all are
  opts,         \* the options not yet processed
  tries,        \* the attempts at a temporary directory
  tempdir,      \* "none", "made" or "gone"
  disk,         \* the files: what each was made from, and whether it is whole
  seq,          \* the number of names made up
  todo, cur, done,  \* apply_compile: the files to come, the one in hand, the results
  links,        \* the list given to apply_link
  exec_error, last_return, exit_status,
  spoiled       \* for the properties: the objects do_keep had, and could not move

ctlVars == <<pc, opts, tries, seq, todo, cur, done, links>>
driverVars ==
  <<stageVars, args, ctlVars, tempdir, disk, exec_error, last_return, exit_status, spoiled>>

Ids == 1 .. Len(args.inputs)

\* A name on the disk: no is 0, or the number of a name that was made up.
NameOf(dir, base, no, type) == [dir |-> dir, base |-> base, no |-> no, type |-> type]

\* find_filename: an input.
InputFile(i) ==
  LET in == args.inputs[i] IN
  [name |-> NameOf(in.dir, in.base, 0, in.type), base |-> in.base, no |-> 0,
   type |-> in.type, storage |-> "INPUT_FILE"]

InputNames == {InputFile(i).name : i \in Ids}

DirOf(s) == IF s = "TEMP_FILE" THEN "temp" ELSE "work"
Storage(s) == IF s = "PRESERVED_FILE" THEN "OUTPUT_FILE" ELSE s

\* Mutant of SharesName: capsules share one name although they are to be linked.
SharesNameAlways(p, t, s) ==
  s = "TEMP_FILE" /\ p # NULL /\ ~args.verbose /\ t # "o"

\* Unless tcc is verbose, temporary files other than objects all have one name for
\* each type, and capsules too unless several are wanted at once.
SharesName(p, t, s) ==
  /\ s = "TEMP_FILE" /\ p # NULL /\ ~args.verbose
  /\ t # "o" /\ ~(t = "j" /\ args.make_complex)

SameType(p, t) == p # NULL /\ p.type = t

\* Whether make_filename uses up one of the made up names.
MakesUp(p, t, s) ==
  ~SameType(p, t) /\ ~SharesName(p, t, s) /\ (p = NULL \/ args.make_up_names)

\* The file derived from p which has type t and storage s.  A name that the user gives
\* to the output with -o (final_name) is left out.
make_filename(p, t, s) ==
  LET base == IF MakesUp(p, t, s) THEN "_tcc" ELSE p.base
      no   == IF MakesUp(p, t, s) THEN seq + 1 ELSE p.no
      name == CASE SameType(p, t) -> NameOf(DirOf(s), p.name.base, p.name.no, p.name.type)
                [] ~SameType(p, t) /\ SharesName(p, t, s) -> NameOf(DirOf(s), "_tcc", 0, t)
                [] OTHER -> NameOf(DirOf(s), base, no, t)
  IN  [name |-> name, base |-> base, no |-> no, type |-> t, storage |-> Storage(s)]

SeqAfter(p, t, s) == IF MakesUp(p, t, s) THEN seq + 1 ELSE seq

--------------------------------------------------------------------------------
(* execute() *)

Names(fs) == {f.name : f \in ToSet(fs)}

\* A tool can do its work if its inputs are there and it can make its output.
CanRun(in, out) ==
  /\ Names(in) \subseteq {n \in DOMAIN disk : disk[n].whole}
  /\ \A f \in ToSet(out) : f.name.dir = "temp" => tempdir = "made"

MadeFrom(in) == UNION {disk[n].of : n \in Names(in)}

\* The files written, whole or in part.
Written(in, out, whole) ==
  [n \in DOMAIN disk \cup Names(out) |->
     IF n \in Names(out)
     THEN [of |-> IF whole THEN MadeFrom(in) ELSE {}, whole |-> whole] ELSE disk[n]]

Removed(d, names) == [n \in DOMAIN d \ names |-> d[n]]

\* Inputs that are not needed any more.
Unneeded(in) ==
  IF args.tidy_up
  THEN {f.name : f \in {g \in ToSet(in) : g.storage = "TEMP_FILE" /\ g.type # "o"}} ELSE {}

\* Mutant of Junk: files that are only to be preserved are not thought of.
JunkFinal(out) ==
  IF args.flag_keep_err THEN {}
  ELSE {f.name : f \in {g \in ToSet(out) : g.storage = "OUTPUT_FILE" /\ g.type \in stop}}

\* remove_junk: output files that were being made when something went wrong.
Junk(out) ==
  IF args.flag_keep_err THEN {}
  ELSE {f.name : f \in {g \in ToSet(out) : g.storage = "OUTPUT_FILE"}}

\* The temporary directory and what is in it, as main_end leaves them.
RemoveTempdir(d, status) ==
  IF status = "FAILURE" /\ args.flag_keep_err THEN d
  ELSE [n \in {m \in DOMAIN d : m.dir # "temp"} |-> d[n]]

\* What is on the disk when a command has failed: it may have begun its output, if
\* there was something to begin with.
FailedDisks(in, out) ==
  {disk} \cup (IF CanRun(in, out) THEN {Written(in, out, FALSE)} ELSE {})

\* A command that ends well, or not.  When it cannot be executed it is the child
\* that says so and exits, and main_end, which is registered for that, runs in the
\* child: it removes the temporary directory that the parent goes on using (if it
\* cannot, that is no different from a command that fails).
execute(in, out, r) ==
  \/ /\ r = "ok" /\ CanRun(in, out)
     /\ disk' = Removed(Written(in, out, TRUE), Unneeded(in))
     /\ last_return' = 0
     /\ UNCHANGED <<exec_error, exit_status, tempdir>>
  \/ /\ r = "fail"
     /\ \E d \in FailedDisks(in, out) : disk' = Removed(d, Unneeded(in) \cup Junk(out))
     /\ last_return' = 1 /\ exec_error' = TRUE /\ exit_status' = "FAILURE"
     /\ UNCHANGED tempdir
  \/ /\ r = "noexec"
     /\ disk' = Removed(RemoveTempdir(disk, "FAILURE"), Unneeded(in) \cup Junk(out))
     /\ tempdir' = IF args.flag_keep_err \/ tempdir = "none" THEN tempdir ELSE "gone"
     /\ last_return' = 2 /\ exec_error' = TRUE /\ exit_status' = "FAILURE"

\* What is left of the files when the directory cannot be removed.
Leftovers(d) == {Removed(d, X) : X \in SUBSET {n \in DOMAIN d : n.dir = "temp"}}

\* main_end, at the end of the process itself.  Nobody looks at how RMDIR ends (that
\* it dies of a signal is left out: exit would be called by what exit calls).
main_end(d, status) ==
  /\ \/ /\ disk' = RemoveTempdir(d, status)
        /\ tempdir' = IF tempdir # "made" \/ (status = "FAILURE" /\ args.flag_keep_err)
                      THEN tempdir ELSE "gone"
     \/ /\ Outcomes \cap {"fail", "noexec"} # {} /\ tempdir = "made"
        /\ ~(status = "FAILURE" /\ args.flag_keep_err)
        /\ disk' \in Leftovers(d) /\ UNCHANGED tempdir
  /\ exit_status' = status
  /\ pc' = "exited"
  /\ UNCHANGED <<opts, tries, seq, todo, cur, done, links, last_return, exec_error>>

\* The command dies of a signal: handler() exits.  For a producer that is put off
\* until execute() has dealt with the error, which comes to the same.
Signalled(in, out) ==
  /\ "signal" \in Outcomes
  /\ \E d \in FailedDisks(in, out) : main_end(Removed(d, Junk(out)), "FAILURE")
  /\ UNCHANGED <<stageVars, args, spoiled>>

\* The user interrupts tcc while it waits for the command.  No handler has been
\* installed, so that is the end of it.
Interrupted(in, out) ==
  /\ Interrupts
  /\ disk' \in FailedDisks(in, out)
  /\ pc' = "killed"
  /\ UNCHANGED <<stageVars, args, opts, tries, seq, todo, cur, done, links, tempdir,
                 exec_error, last_return, exit_status, spoiled>>

StoppedIn(in, out) == Signalled(in, out) \/ Interrupted(in, out)

Results(in, out) == IF CanRun(in, out) THEN Outcomes ELSE (Outcomes \ {"ok"}) \cup {"fail"}

--------------------------------------------------------------------------------
(* main, up to the temporary directory *)

DriverInit ==
  /\ args \in DriverArgs
  /\ StagesInit
  /\ pc = "options" /\ opts = args.opts /\ tries = 0 /\ seq = 0
  /\ tempdir = "none"
  /\ disk = [n \in InputNames |->
               [of |-> {i \in Ids : InputFile(i).name = n}, whole |-> TRUE]]
  /\ todo = <<>> /\ cur = NULL /\ done = <<>> /\ links = <<>>
  /\ exec_error = FALSE /\ last_return = 0 /\ exit_status = "SUCCESS"
  /\ spoiled = {}

ProcessOption ==
  /\ pc = "options" /\ opts # <<>>
  /\ set_stage(Head(opts).type, Head(opts).k)
  /\ opts' = Tail(opts)
  /\ UNCHANGED <<args, pc, tries, seq, todo, cur, done, links, tempdir, disk, exec_error,
                 last_return, exit_status, spoiled>>

EndOptions ==
  /\ pc = "options" /\ opts = <<>>
  /\ update_options(args.make_complex, Len(args.inputs))
  /\ pc' = "mkdir"
  /\ UNCHANGED <<args, opts, tries, seq, todo, cur, done, links, tempdir, disk, exec_error,
                 last_return, exit_status, spoiled>>

InputList == [i \in Ids |-> InputFile(i)]

\* Mutant of NextTry: the count starts again when the limit is reached.
NextTryAgain == (tries + 1) % RETRY_LIMIT

\* The number of attempts after one that failed.
NextTry == tries + 1

\* A directory of another name is tried for when this one cannot be made; the error
\* that execute() has noted is not taken back.
temp_mkdir ==
  /\ pc = "mkdir" /\ tries < RETRY_LIMIT
  /\ \/ /\ "ok" \in Outcomes
        /\ tempdir' = "made" /\ last_return' = 0
        /\ pc' = IF args.make_complex THEN "produce" ELSE "compile"
        /\ todo' = InputList
        /\ UNCHANGED <<tries, exec_error, exit_status>>
     \/ /\ Outcomes \cap {"fail", "noexec"} # {}
        /\ tries' = NextTry
        /\ last_return' = 1 /\ exec_error' = TRUE /\ exit_status' = "FAILURE"
        /\ UNCHANGED <<pc, tempdir, todo>>
  /\ UNCHANGED <<stageVars, args, opts, seq, cur, done, links, disk, spoiled>>

\* MKDIR dies of a signal or is interrupted: there is no directory to remove yet.
MkdirStopped == pc = "mkdir" /\ tries < RETRY_LIMIT /\ StoppedIn(<<>>, <<>>)

RetryLimitReached ==
  /\ pc = "mkdir" /\ tries = RETRY_LIMIT
  /\ main_end(disk, "FAILURE")
  /\ UNCHANGED <<stageVars, args, spoiled>>

--------------------------------------------------------------------------------
(* apply_compile *)

\* The type that the next stage makes.
NextType == [c |-> "j", j |-> "t", t |-> "s", s |-> "o"]

\* Capsules are left alone while they are only being produced.
HasStage(p) ==
  \/ p.type = "c"
  \/ p.type \in {"j", "t", "s"} /\ pc = "compile" /\ p.type \notin stop

TakeFile ==
  /\ pc \in {"produce", "compile"} /\ cur = NULL /\ todo # <<>>
  /\ cur' = Head(todo) /\ todo' = Tail(todo)
  /\ UNCHANGED <<stageVars, args, pc, opts, tries, seq, done, links, tempdir, disk,
                 exec_error, last_return, exit_status, spoiled>>

\* do_produce, do_tdf_link, do_translate and do_assemble.
RunStage ==
  /\ pc \in {"produce", "compile"} /\ cur # NULL /\ HasStage(cur)
  /\ LET t   == NextType[cur.type]
         out == make_filename(cur, t, where(t))
     IN  \/ /\ \E r \in Results(<<cur>>, <<out>>) :
                 /\ execute(<<cur>>, <<out>>, r)
                 /\ cur' = IF r = "ok" THEN out ELSE NULL
            /\ seq' = SeqAfter(cur, t, where(t))
            /\ UNCHANGED <<stageVars, args, pc, opts, tries, todo, done, links, spoiled>>
         \/ StoppedIn(<<cur>>, <<out>>)

FileDone ==
  /\ pc \in {"produce", "compile"} /\ cur # NULL /\ ~HasStage(cur)
  /\ done' = Append(done, cur) /\ cur' = NULL
  /\ UNCHANGED <<stageVars, args, pc, opts, tries, seq, todo, links, tempdir, disk,
                 exec_error, last_return, exit_status, spoiled>>

EndCompile ==
  /\ pc \in {"produce", "compile"} /\ cur = NULL /\ todo = <<>>
  /\ pc' = IF pc = "produce" THEN "build" ELSE "link"
  /\ links' = done /\ done' = <<>>
  /\ UNCHANGED <<stageVars, args, opts, tries, seq, todo, cur, tempdir, disk, exec_error,
                 last_return, exit_status, spoiled>>

--------------------------------------------------------------------------------
(* apply_build: one capsule from several *)

\* The files of fs that are of type t, or are not.
Chosen(fs, t, yes) ==
  LET chosen[n \in 0 .. Len(fs)] ==
        IF n = 0 THEN <<>>
        ELSE IF (fs[n].type = t) = yes THEN Append(chosen[n - 1], fs[n]) ELSE chosen[n - 1]
  IN  chosen[Len(fs)]

OfType(fs, t) == Chosen(fs, t, TRUE)
NotOfType(fs, t) == Chosen(fs, t, FALSE)

ComplexFile == [name |-> NameOf(DirOf(where("J")), "a", 0, "j"), base |-> "a", no |-> 0,
                type |-> "j", storage |-> Storage(where("J"))]

Clashes(fs, q) == {f \in ToSet(fs) : f.name = q.name}

\* Mutant of UniqFilename: the output replaces an input of the same name.
SameFilename(fs, q) == q

\* uniq_filename: a name that is not that of one of the files to be linked.
UniqFilename(fs, q) ==
  IF \E f \in Clashes(fs, q) : f.storage # "TEMP_FILE"
  THEN [q EXCEPT !.name.type = "j+"] ELSE q

\* uniq_tempfile: where the output goes at first.
UniqTempfile(fs, q) ==
  IF \E f \in Clashes(fs, q) : f.storage = "TEMP_FILE"
  THEN make_filename(NULL, "j", "TEMP_FILE") ELSE UniqFilename(fs, q)

\* What is compiled next: the capsule that was built, if any, and the other files.
GoOn(built) ==
  /\ pc' = "compile"
  /\ todo' = built \o NotOfType(links, "j")
  /\ links' = <<>>

do_tdf_build ==
  /\ pc = "build"
  /\ LET js   == OfType(links, "j")
         file == UniqFilename(js, ComplexFile)
         temp == UniqTempfile(js, ComplexFile)
     IN  \/ /\ js = <<>> \/ exec_error
            /\ GoOn(<<>>)
            /\ UNCHANGED <<stageVars, args, opts, tries, seq, cur, done, tempdir, disk,
                           exec_error, last_return, exit_status, spoiled>>
         \/ /\ js # <<>> /\ ~exec_error
            /\ \E r \in Results(js, <<temp>>) :
                 /\ execute(js, <<temp>>, r)
                 /\ IF r = "ok" /\ temp # file
                    THEN /\ pc' = "move" /\ todo' = <<temp, file>> /\ UNCHANGED links
                    ELSE GoOn(IF r = "ok" THEN <<file>> ELSE <<>>)
            /\ seq' = IF temp # file THEN seq + 1 ELSE seq
            /\ UNCHANGED <<stageVars, args, opts, tries, cur, done, spoiled>>
         \/ js # <<>> /\ ~exec_error /\ StoppedIn(js, <<temp>>)

\* do_move: the capsule takes its proper name.
do_move ==
  /\ pc = "move"
  /\ LET from == todo[1]
         to   == todo[2]
     IN  \/ /\ \E r \in Results(<<from>>, <<to>>) :
                 /\ \/ r # "ok" /\ execute(<<from>>, <<to>>, r)
                    \/ /\ r = "ok"
                       /\ disk' = Removed(Written(<<from>>, <<to>>, TRUE), {from.name})
                       /\ last_return' = 0 /\ UNCHANGED <<exec_error, exit_status, tempdir>>
                 /\ GoOn(IF r = "ok" THEN <<to>> ELSE <<>>)
            /\ UNCHANGED <<stageVars, args, opts, tries, seq, cur, done, spoiled>>
         \/ StoppedIn(<<from>>, <<to>>)

--------------------------------------------------------------------------------
(* apply_link *)

ExecutableFile == [name |-> NameOf("work", "a.out", 0, "x"), base |-> "a.out", no |-> 0,
                   type |-> "x", storage |-> "OUTPUT_FILE"]

\* The objects are linked, unless something has failed before.
apply_link ==
  /\ pc = "link"
  /\ LET os     == OfType(links, "o")
         others == NotOfType(links, "o")
         keepOs == /\ keep' = [keep EXCEPT !["o"] = "TC"]
                   /\ pc' = "keep" /\ todo' = links /\ done' = <<>>
         finish(result) == /\ keep' = [keep EXCEPT !["o"] = "FC"]
                           /\ pc' = "return" /\ done' = result /\ UNCHANGED todo
         linked == os # <<>> /\ "o" \notin stop
     IN  \/ /\ ~linked
            /\ last_return' = 0 /\ finish(os \o others)
            /\ UNCHANGED <<stop, keep_all, keep_ofiles, args, opts, tries, seq, cur,
                           links, tempdir, disk, exec_error, exit_status, spoiled>>
         \/ /\ linked /\ exec_error
            /\ last_return' = 1 /\ keepOs
            /\ UNCHANGED <<stop, keep_all, keep_ofiles, args, opts, tries, seq, cur,
                           links, tempdir, disk, exec_error, exit_status, spoiled>>
         \/ /\ linked /\ ~exec_error
            /\ \E r \in Results(os, <<ExecutableFile>>) :
                 /\ execute(os, <<ExecutableFile>>, r)
                 /\ IF r = "ok" THEN finish(<<ExecutableFile>> \o others) ELSE keepOs
            /\ UNCHANGED <<stop, keep_all, keep_ofiles, args, opts, tries, seq, cur,
                           links, spoiled>>
         \/ linked /\ ~exec_error /\ StoppedIn(os, <<ExecutableFile>>)

\* Mutant of MustKeep: only if objects are not kept anyway, which has just been changed.
MustKeepLate(p) == p.type = "o" /\ p.storage = "TEMP_FILE" /\ ~table_keep("o")

\* The objects that are to be moved out of the temporary directory.
MustKeep(p) == p.type = "o" /\ p.storage = "TEMP_FILE"

\* If the linking failed, keep the .o files.  do_keep does not tell execute() what
\* it makes, and does not look at the result.
KeepObject ==
  /\ pc = "keep" /\ todo # <<>>
  /\ LET p == Head(todo)
         q == make_filename(p, p.type, "PRESERVED_FILE")
     IN  IF MustKeep(p)
         THEN \/ /\ \E r \in Results(<<p>>, <<q>>) :
                     /\ spoiled' = IF r # "ok" /\ CanRun(<<p>>, <<q>>)
                                   THEN spoiled \cup {q.name} ELSE spoiled
                     /\ \/ /\ r = "ok"
                           /\ disk' = Removed(Written(<<p>>, <<q>>, TRUE), {p.name})
                           /\ last_return' = 0
                           /\ UNCHANGED <<exec_error, exit_status, tempdir>>
                        \/ /\ r = "fail"
                           /\ disk' \in FailedDisks(<<p>>, <<q>>)
                           /\ last_return' = 1 /\ exec_error' = TRUE
                           /\ exit_status' = "FAILURE" /\ UNCHANGED tempdir
                        \/ r = "noexec" /\ execute(<<>>, <<>>, r)
                 /\ todo' = Tail(todo) /\ done' = Append(done, q)
                 /\ UNCHANGED <<stageVars, args, pc, opts, tries, seq, cur, links>>
              \/ /\ "signal" \in Outcomes
                 /\ \E d \in FailedDisks(<<p>>, <<q>>) : main_end(d, "FAILURE")
                 /\ spoiled' = spoiled \cup {q.name}
                 /\ UNCHANGED <<stageVars, args>>
              \/ Interrupted(<<p>>, <<q>>)
         ELSE /\ todo' = Tail(todo)
              /\ done' = IF p.type = "o" /\ p.storage = "INPUT_FILE" THEN done ELSE Append(done, p)
              /\ UNCHANGED <<stageVars, args, pc, opts, tries, seq, cur, links, tempdir, disk,
                             exec_error, last_return, exit_status, spoiled>>

EndKeep ==
  /\ pc = "keep" /\ todo = <<>>
  /\ pc' = "return"
  /\ UNCHANGED <<stageVars, args, opts, tries, seq, todo, cur, done, links, tempdir, disk,
                 exec_error, last_return, exit_status, spoiled>>

\* main returns exit_status, and main_end runs.
Return ==
  /\ pc = "return"
  /\ main_end(disk, exit_status)
  /\ UNCHANGED <<stageVars, args, spoiled>>

Exited == pc \in {"exited", "killed"} /\ UNCHANGED driverVars

DriverNext ==
  \/ ProcessOption \/ EndOptions \/ temp_mkdir \/ MkdirStopped \/ RetryLimitReached
  \/ TakeFile \/ RunStage \/ FileDone \/ EndCompile
  \/ do_tdf_build \/ do_move \/ apply_link \/ KeepObject \/ EndKeep \/ Return
  \/ Exited

DriverSpec == DriverInit /\ [][DriverNext]_driverVars /\ WF_driverVars(DriverNext)

--------------------------------------------------------------------------------
(* Properties *)

\* Names are made up; or the inputs have names of their own, and none the name of
\* what is made from the capsule "a" that -M builds (uniq_filename only looks at the
\* capsules: with -M and -Pa an input "a.o" is overwritten).
NamesApart ==
  \/ args.make_up_names
  \/ /\ \A i, j \in Ids : args.inputs[i].base = args.inputs[j].base => i = j
     /\ args.make_complex =>
          \A i \in Ids : args.inputs[i].base = "a" => args.inputs[i].type \in {"c", "j"}

\* The files that the compilation ends with, and that are to outlive it.
Results_ == {f \in ToSet(done) : f.name.dir # "temp"}

\* When tcc reports success, what it made is whole and was made from every input,
\* each taken through the stages with its own files, although the intermediate
\* files of all inputs share their names.  (After -Ft -P-a the files that the
\* compilation ends with are temporary, and there need be no result.)
SuccessIsWhole ==
  pc = "exited" /\ exit_status = "SUCCESS" /\ NamesApart =>
    /\ \A f \in Results_ : f.name \in DOMAIN disk /\ disk[f.name].whole
    /\ Results_ = ToSet(done) => UNION {disk[f.name].of : f \in Results_} = Ids

\* "If the linking failed, keep the .o files" (compile.c): when main returns in
\* spite of an error, each object that was made is there for the next attempt,
\* unless moving it failed, or a command was missing and the child that could not
\* execute it has removed the temporary directory.
FailedLinkKeepsObjectsMade ==
  pc = "return" /\ exit_status = "FAILURE" /\ NamesApart /\ "o" \notin stop /\ tempdir = "made" =>
    \A f \in ToSet(links) : f.type = "o" /\ f.storage # "INPUT_FILE" =>
       LET n == [f.name EXCEPT !.dir = "work"] IN
       n \in spoiled \/ (n \in DOMAIN disk /\ disk[n].whole)

\* A file that was being made when an error occurred has been removed when tcc exits;
\* do_keep is the one place that does not see to it, and temporary files stay where
\* their directory could not be removed.
NoPartialButKept ==
  pc = "exited" /\ ~args.flag_keep_err =>
    \A n \in DOMAIN disk :
       disk[n].whole \/ n \in spoiled \/ (n.dir = "temp" /\ tempdir = "made")

\* No input is removed or written to, whatever fails and whatever the intermediate
\* files are called.
InputsUntouched ==
  NamesApart => \A n \in InputNames :
    n \in DOMAIN disk /\ disk[n] = [of |-> {i \in Ids : InputFile(i).name = n}, whole |-> TRUE]

\* tcc comes to an end: the attempts at a temporary directory are bounded and every
\* input passes through finitely many stages.
DriverEnds == <>(pc \in {"exited", "killed"})
===============================================================================
