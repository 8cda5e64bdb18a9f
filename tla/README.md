# TenDRA: linker, driver and parser generator, specified and verified

TenDRA is a compiler system around TDF, an architecture-neutral distribution
format. Producers (`tdfc2`) turn C and C++ into TDF *capsules*, the linker
`tld` binds capsules and libraries of capsules, installers (`trans`) turn TDF
into machine code, the driver `tcc` runs all of these, and several tools
generate parts of them (`sid`, `lexi`, `calculus`, `make_err`, `make_tdf`) or
convert notations of TDF (`disp`, `tnc`, `tpl`).

This project models the parts whose correctness is a matter of state rather
than of translation tables:

* `tld`, in its roles as linker, library builder and library reader: tables
  that are filled by files in any order, errors that do not stop the program,
  and a search through libraries that changes what it is iterating over;
* `tcc`: a chain of tools that may fail or be interrupted, with intermediate
  files that share their names, and the archives that it writes and reads;
* `sid`: a sequence of rewritings of a grammar whose result, a parser, must
  still mean what the user wrote.

## Inventory

### The parts of tld

| part | code (`src/tld/src/`) | state | operations |
|------|------|-------|------------|
| renaming | `adt/arg-data.c`, `adt/name-table.c`, `adt/name-entry.c`, `frontend/linker.c` | list of pairs, type and target of each entry | add an option, enter it, resolve chains and cycles |
| capsule reader | `adt/capsule.c`, `adt/tdf-read.c`, `adt/name-*.c`, `adt/shape-*.c`, `adt/unit-*.c`, `adt/map-*.c` | name tables, identifier counts, lists of names, identifier maps, units, version numbers | one operation per part of a capsule; an exception abandons it |
| library index reader | `adt/library.c` | a second table of shapes and names, with the defining capsule of each name | header, index entry, exception |
| linker | `frontend/linker.c`, `adt/shape-entry.c`, `adt/name-entry.c` | the phase, what is loaded, what is hidden | read, load libraries, suppress, resolve, hide, keep, write |
| capsule writer | `adt/capsule.c`, `adt/unit-entry.c`, `adt/shape-entry.c`, `adt/tdf-write.c` | the output file | sizes, names, links, units |
| library builder | `frontend/builder.c`, `adt/library.c` | vector of capsules, the library written | include libraries, read, check, suppress, write |
| extractor | `frontend/extract.c`, `adt/library.c` | files written | read a library, match names, extract |
| contents | `frontend/contents.c` | none | list |
| names and streams | `adt/name-key.c`, `adt/tdf-*.c` | position in a stream | parse, encode, decode |
| errors | `src/shared/src/error.c`, `src/libexds/src/error.c` | count of errors, largest severity | report |

How they interact: `linker_main` calls the phases in order and all of them
share the tables. Reading a capsule appends names to the list of their shape;
resolving takes them off again and, in the middle of that, reads library
capsules, which append more names and may add shapes to the hash table being
walked. The libraries have tables of their own, in which the same renamings
were entered. The version numbers are globals that capsules and libraries
share. Errors are counted by `shared/src/error.c` while the gates between the
phases ask `libexds/src/error.c`, which is never told.

There is one thread. What is hard here is *order* (of capsules, of hash
buckets, of passes), *partial failure* (an exception leaves what was read so
far in the tables, a file that cannot be opened leaves a hole in a vector),
*stale* information (a usage that was looked at and changes later, a shape
that is looked up before it exists), *boundaries* (`UINT_MAX` is both the
largest count and the mark of an identifier that is not mapped) and
*termination* (recursive renamings, capsules that need each other in a
circle).

### The parts of tcc and sid

| part | code | state | operations |
|------|------|-------|------------|
| tcc: stages and storage | `src/tcc/src/flags.c`, `table.c`, `filename.c` | what is kept, where to stop, where files go | options, update after the last one |
| tcc: driver | `main.c`, `compile.c`, `stages.c`, `execute.c`, `temp.c`, `utility.c` of `src/tcc/src` | temporary directory, files, results of commands | make the directory, take an input through its stages, link, keep, clean up |
| tcc: archives | `src/tcc/src/archive.c` | the archive, the position in it | build, split |
| sid: transformations | `grammar.c`, `rules/*.c` of `src/sid/src` | rules, first and follow sets, marks of the traversals | one phase after the other |
| sid: parser | `src/sid/src/lang-c/c-output.c` | calls, input | rule, basic, action |

tcc is one process that waits for each of its children; the user may interrupt
it while a child runs, and a child that cannot execute its command is a copy
of tcc that runs the same exit handlers. Its hazards are failures of one step
of several, names that are used for several files, and retries. sid is
sequential; its hazards are the order in which a hash table yields the rules,
sets that were computed before the rules were rewritten, and expansion that
need not come to an end. `PROJECT.json` lists all hazards at their lines.

What makes each part correct:

* renaming: every name leads in one step to the end of its chain, in whatever
  order the table is resolved; cycles are found, reported once, and do not
  recurse for ever;
* capsule reader: identifiers of different entities stay different, those of
  the same external name become the same; the definition of a name is the
  right one; all this also after a capsule was abandoned;
* index reader: the same for the definitions in libraries;
* linker: only capsules that are needed are linked, each once, the search
  ends, no name is overlooked, and what is visible is what was asked for;
* writer: every identifier written is below the limit written for its shape;
* builder, extractor: the index leads to the capsule that defines a name, the
  linker reads it back as it was meant, and what is extracted is what was put
  in;
* driver: success means a whole result made from all inputs, no input is ever
  touched, and a failure leaves nothing half made where results are looked for;
* archives: split undoes build, or says that it cannot;
* sid: the parser accepts and performs what the grammar says, an LL(1) grammar
  is not refused, and sid comes to an end.

### The parts that are not modelled

`PROJECT.json` names all of them with a reason. In short: the producers and
installers are far too large and mostly tables; the other generators and the
notation tools are translations without interesting state; the writer's
layout, the encoding of names and integers and the exception stack of
`libexds` are worth modelling and are in the plan below.

## Modules

| module | what it is |
|--------|------------|
| `Errors` | a serious error is counted; too many end the program |
| `Renames` | renaming in the name table of one shape |
| `Capsule` | reading any number of capsules into one set of tables |
| `Linker` | `linker_main` around `Capsule` (it EXTENDS it and uses its actions) |
| `Linkage` | the abstract specification: which capsules a link may bind |
| `LinkerLinkage` | the refinement mapping from `Linker` to `Linkage` |
| `Builder` | `builder_main` around `Capsule` |
| `Extract` | `extract_main` on the library that `Builder` wrote (it EXTENDS it) |
| `Stages` | the options of tcc that keep files and stop a compilation |
| `Driver` | tcc around `Stages` |
| `Archive` | `build_archive`, the journey of an archive, `split_archive` |
| `Sid` | the phases of sid, from the grammar of the user to the one that is output |
| `SidParser` | the parser that is output, and what it is compared with (it EXTENDS `Sid`) |
| `MCRenames`, `MCCapsule`, `MCLinker`, `MCBuilder`, `MCExtract`, `MCDriver`, `MCArchive`, `MCSid` | instances for TLC |
| `RenamesProofs` | theorems about `Renames` |
| `CapsuleProofs`, `CapsuleIdProofs`, `CapsuleUseProofs` | theorems about `Capsule` |
| `LinkerProofs` | theorems about `Linker` and `LinkerLinkage`, from those about `Capsule` |
| `BuilderProofs` | theorems about `Builder` and `Extract`, from those about `Capsule` |
| `ArchiveProofs` | theorems about `Archive` |
| `DriverProofs` | theorems about `Driver` |

### Renames

`pairs` is the list that `name_key_pair_list_add` builds (in front, so the
last option comes first); `type` and `indirect` are the fields of the entries;
`stack` holds the activations of the recursive `name_entry_resolve_renames`,
`arg` and `ret` its argument and result. `CallReturns`, `CallRecurses` and
`ReturnInner` are the branches of its `switch`. `ScanEntry(k)` may pick any
entry: the buckets of a hash table are any order. In the table of the library
index the same steps run with reporting switched off.

The reference for the algorithm is `FinalName` and `Cycles`, defined by
walking the pairs and independent of the table.

### Capsule

A capsule file is a record (`Content`): version, format of the linker
information unit, shapes, external names with their usages, and units with
links. What makes a stream malformed (end of file, bad magic number, unknown
unit set, wrong counts, bytes left over) has one effect only, a serious error
and an exception, and is a `fault` at a stage. The checks that compare a value
with the state (versions, doubly bound identifiers, ranges, usages) are
modelled in full. `pc` is the stage of `capsule_read`, `item` the position in
it; every item read is one step. An exception leads back to `"idle"` with the
tables as they are.

`NewDefinition` is the cascade of conditions in `capsule_read_usage` and in
`library_check_index_entry`. `AddName` is `name_table_add` with the creation
of the direct entry, its identifier and its place at the end of the list;
`indirect` is what renaming left. A name in a cycle of renamings has the nil
pointer there; the code dereferences it, which is the end of the model
(`pc = "crash"`). `merged` is a history variable: what was merged into each
name, in order.

A usage of a name is recorded for the entries in the order of the external
names; the reader visits the items of other shapes without effect, where the
code has one vector per shape. A unit is added when its first part is read
and becomes whole with its body, as in `capsule_read_unit`.

`CapsuleSpec` lets the caller do whatever a caller may do between capsules:
open any capsule, take names off the lists, set the version for a library.
It has weak fairness on `ReadStep` only: `capsule_read` is sequential code
that runs on once it was called, while nothing makes the caller open another.

### Linker

`phase` is the function that `linker_main` is in, `next` and `entry` the
positions in the files, libraries, index and control lists. `ldirect`, `luse`
and `ldef` are the tables of the library index. `VisitShape` picks any shape;
a shape that is added during a pass may or may not be visited in it (`known`
holds those that must be). The gates between phases do not appear: they ask
for a severity that is never raised. A command line is a record of `Args`.
Looking a cyclic name up, or writing without having opened a capsule, ends in
`"crash"`; so does the assertion on the version if it fails.

`LinkerSpec` has weak fairness on `LinkerStep`: one sequential program that
runs until it exits.

### Linkage

Inputs are bound in order; then library capsules, each because a bound capsule
uses a name that none defines, the index decides which; then nothing more. At
the end a name may lack a definition that exists only if some capsule mentions
it without using it (see the findings). `LinkerLinkage` computes everything
that `Linkage` is given from files and command line alone, so that an error of
the tables cannot hide in the mapping; `linked` is the set of capsules read to
the end. A capsule's usages count for the shapes that its linker information
unit covers: all of them for version 1, tokens and tags for versions 0 and 2,
none without such a unit. The refinement is about links without errors: TLC
checks it for well-formed files, the theorem for any files as long as no error
is reported. What happens after an error is the subject of `linker_control`.

### Builder and Extract

`vector` is the filled part of the vector of capsules and `num_capsules` its
length: they differ when an input cannot be opened (`CannotOpen`). Reading a
capsule is that of `Capsule`, so a capsule may be abandoned at any item.
`library` is what `library_write` leaves: for every place a capsule and whether
it is whole, and the index. `IndexIsReadBack` runs the index through the checks
of the index reader (`library_check_index_entry`) and compares the tables: the
property ties the builder to the linker. `Extract` runs on the same library;
`RoundTrip` relates its files to the command line of the builder.

### Stages and Driver

`Stages` follows `set_stage` and `update_options` statement by statement,
because which files are kept decides where they are put. In `Driver`, `disk`
maps a name to the inputs a file was made from and whether it is whole; a
command makes its output whole, leaves it half made, or does not run
(`Outcomes`), and the user may interrupt it (`Interrupts`). `execute` removes
the output of a failed command where the code does, and the temporary directory
may resist its removal (`Leftovers`). The commands themselves
are external. `DriverSpec` has weak fairness on its step: tcc is sequential
and its children are assumed to end.

A file in the lists of tcc (`FileRecords`) has a name on the disk and, apart
from it, the base and number that the names of later stages are derived from:
`make_filename` uses the second for the first unless temporary files share a
name. `Chosen` is the loop that divides a list by type. `NamesApart` says for
which command lines the properties are stated: names are made up, or no two
inputs have one base name and, with `-M`, none has the name of what is made
from the capsule `a`.

### Archive

A file is a sequence of bytes, an archive a sequence of lines and bytes;
`buffer_size` is the size of `buffer`, and a file is archived in pieces of it,
one in each step (`ArchivePiece`; `offset` is how much of the file has been
read). The piece that is empty or not full is the last, and decides in
`split_archive` where the next file begins.
`BuildFails` is `build_archive` giving up; tcc then makes no use of the file.
`Truncate` and `Touch` are what may happen between building and splitting
(only the pieces of files are checked when they are written, so the end of an
archive may be missing from the start).
`AssertFails` is the assertion in `table_stage`.

### Sid and SidParser

A rule has a sequence of alternatives and may have the empty one. The phases
are those of `main_1`, in order; recursive functions have their calls in
`stack`. Where the code iterates over its hash table any rule may be next.
`rule_remove_left_cycle` contains the two special cases and the general one
(`Vector`, `Matrix`, `Extra`, `CycleAlts`, `ExtraAlts`, as in the comment of
`rule-lre.c`). `Clash` is `rule_expand_item_clashes`, `FactorGroup` is
`rule_factor_3`. The gates `main_abort_if_errored` do not appear: as in tld
they ask for a severity that nobody raises. Only `ERR_FATAL` ends sid
(`"fatal"`). One end belongs to the model and not to sid: `"undefined"`, after
the use of a tuple that was not initialised (the results of the generated
rules, when only empty alternatives end a left recursion). `maximum_errors`
(20) is not reached by such small grammars.

First sets are computed item by item, each call of `rule_compute_first_set_1`
a frame of `stack`: after "cannot compute first set" sid goes on with what has
been found of the set so far, and so does the model. Only then can a rule be
expanded into itself, and the loop of `rule_expand` runs over the alternatives
that it appends; `rule_expand_itself` is that loop, whose copies are not kept.

`SidParser` is the program that `c_output_rule` and its callees write: the
switch over first sets, the alternative that is the default, the basic that is
matched or fails. Its references are written from the grammar of the user and
use nothing of sid: `Sentences` generates by fixed point all sentences, with
their actions, whose tokens are a part of the input; `LL1` is the textbook
definition with `Nullable`, `First` and `Following`, less the grammars with a
nullable rule that every basic may start, which sid refuses on purpose.

The fairness of `Spec` is weak fairness of `Step`, written with `HasEnded` in
place of the negated ENABLED, which TLC would take minutes to evaluate. That
the two are the same is what the deadlock check of the run shows. `FairSpec`
has the fairness as such, for the one grammar of `sid_endless`.

The model was also compared with the program: each of the 2970 grammars of
`MCGrammars` was given to a sid built from `src/sid` (with `-l test -f 3`),
and the way it ends (clean, with errors, fatally, or not at all) is the one of
the model.

## Runs

| run | instance | shows |
|-----|----------|-------|
| `renames` | 4 names, all sequences of up to 4 options | final names, one report per cycle, one-step resolution, termination |
| `capsule_read` | 2 capsules with 2 local identifiers of each shape, 3 identifiers in all; a fault at every stage, 3 versions | no capture, ranges, exhaustion of identifiers, consistency after a failure; reading ends |
| `linker_resolve` | 1 input, 2 libraries, 3 library capsules | the search: complete, terminating, as `Linkage` says |
| `linker_control` | 3 inputs with all usages of a tag and a token; all triples of control lists for suppress, hide and keep; 2 inputs, 2 library capsules, 20 libraries, all kinds of failures | the definition is a function of what was merged; what is visible, and what survives errors |
| `library` | 2 inputs and 2 included capsules, libraries that are cut short, inputs that are missing or malformed, all ways to extract | index and contents of a library; the linker reads the index back; round trip |
| `driver` | 1 to 3 inputs of all types, options to keep and to stop, any outcome of every command, interrupts | what tcc leaves when it succeeds and when it fails; it ends |
| `archive` | 1 or 2 files with 0 to 4 bytes, a buffer of 2, a build that fails anywhere, archives cut off anywhere, links that change | split undoes build |
| `sid` | 2970 grammars of 2 to 4 rules, all inputs of up to 3 tokens | the parser is exact, LL(1) is accepted, sid ends unless it has reported an error |
| `linker_needed`, `archive_hidden`, `sid_mutual`, `sid_endless` | as small as needed | the findings |

Bounds. Four names give chains of length three, a fork, a tail leading into a
cycle and two disjoint cycles. Three capsules are the smallest number at which
the order of two definitions and a third usage matters. `IdMax` stands for
`UINT_MAX`; with 3 it is reached in the middle of names and of links.
`MaxErrors` stands for `maximum_errors` (20 in the code) and is small so that
the exit happens. Three library capsules are needed for a capsule that is
loaded because of one that was loaded in the pass before. Two inputs of the
driver are enough for one intermediate file to be taken for another;
`RETRY_LIMIT` is small so that it is reached. The lengths of the archived
files lie below, at and above one and two buffers. `FactorLimit` stands for
1000 and is 3 so that it is reached; three tokens are enough for two rounds
through every recursive rule of the pools, and `MaxSentence` leaves room for
an action before each token. No run uses symmetry.

Deadlock is checked in all runs; ends of the program stutter explicitly.

Each property has a mutant of the code in `PROJECT.json` (a definition in the
module whose comment starts with "Mutant of") that makes it fail under the
same configuration.

### Findings

1. `linker_needed`: a name that is only declared when it is taken off its list
   is never looked up again, although a library capsule loaded afterwards uses
   it. The user guide promises the contrary. The invariant
   `OnlySkippedUnresolved` and the clause in `Linkage!Finish` say exactly how
   far the promise holds.
2. `archive_hidden`: with `-no_names` the made-up name is put together in the
   buffer that the contents are read into, before it is printed. The first byte
   of the file replaces the `*` and the second the dot, so the name has lost
   its type if the file has two bytes or more.
3. `sid_mutual`: in a left recursive cycle of several rules all generated
   rules get the first row of the matrix. For `P = Q x | y`, `Q = P y | x` the
   parser does not accept `x x`. Cycles of one rule, which have one row only,
   are right (`sid`).
4. `sid_endless`: after "cannot compute first set" factorisation may not end.
   A rule is expanded into itself by a loop over the alternatives that the loop
   appends; the limit on rules that are created, which the comment in
   `rule-factor.c` and the user guide name as what prevents this, does not
   count expansions. `P = Q P x` with `Q = y | $` is the smallest such grammar;
   a sid built from the source uses up its memory on it. `SidEnds` says that
   this is the only way, and that it needs a reported error.

### Observations

What the models show of the code besides, without a run of its own:

* In `tld` and in `sid` the gates between the phases never fire, since errors
  are reported by `shared/src/error.c` and asked for from
  `libexds/src/error.c`. `sid` therefore ends with success, and writes a
  parser, for grammars that it has reported errors for; the tests
  `src/sid/tests/sid/fail-*.sid` expect it to fail (`sid.sh`). In `tld`, if the
  only input has a bad header, the assertion in `capsule_write_header` fails.
* After a cycle of renamings the entries hold the nil pointer, where the
  comment in `name-entry.h` promises place holders for all; `name_table_add`
  and `name_table_get` follow it later.
* The reader of a library index looks up the shape `token` before the index
  creates it, and so accepts tokens that are multiply defined from the first
  library, which the manual says is an error.
* The builder leaves a nil pointer in the vector for an input that cannot be
  opened, and follows it when it writes the library (`"crash"`: there is no
  library that a property could be about).
* The builder writes a library also after errors. A capsule that was abandoned
  has its place in it, under its name and with no contents, and what was read
  of it is in the index, so an entry may lead to an empty capsule.
  `IndexLeadsToDefinition` says that this is the only exception, and that it
  needs a reported error.
* `tcc`: `-P-t` does not undo `-Pt`, since `set_stage` assigns the value it has
  tested for; the child that could not execute a command removes the temporary
  directory of its parent; a directory that could not be made at first leaves
  `exec_error` set; an output that was being moved when tcc was interrupted
  stays behind half made; two inputs with one base name in different
  directories overwrite each other's files unless `-make_up_names` is given.
  `uniq_filename` compares the name of the capsule that `-M` builds with those
  of the capsules only, so with `-M -Pa` an object or assembler file `a.o` or
  `a.s` among the inputs is overwritten by what is made from that capsule.
  After `-Ft -P-a` nothing is kept and tcc reports success without a result:
  the second half of `SuccessIsWhole` is about compilations that end with no
  temporary file.
* Archives: joining a spec file to an object runs into the assertion of
  `table_stage`; splitting an archive that is not there closes a nil file; the
  options found in an archive go to a list that nothing reads.

## Theorems

All theorems hold for every value of the constants that the named assumptions
allow, and TLC evaluates the assumptions in the runs:

* `MaxErrorsAssumption`: the limit of errors is a number;
* `RenamesAssumption`: the names are finitely many, nil is none of them;
* `CapsuleAssumption`: any names, shapes, capsules and limit of identifiers;
  files of the form that the stages of the reader can tell apart
  (`WellFormed`: malformed streams are faults at a stage); a renaming as
  `RenamesProofs` shows it to be, each name one step from its end;
* `LinkerAssumption`: at least one input, none given twice, none the same as a
  library capsule; each control is a finite list of names of one shape;
* `BuilderAssumption`: no renaming (the builder has no such option), libraries
  that are cut short within their length;
* `ArchiveAssumption`: a buffer that is not empty;
* `DriverAssumption`: at least one input; any options, outcomes and retries.

Along which argument:

* `RenamesProofs`. The inductive invariant `IInv` adds to `CyclingIsOnStack`
  and `ResolvedInOneStep` where `ret` and `arg` may point. For
  `LeadsToFinalName` the table is related to the pairs: `TableInv` (an entry
  is renamed if its pair was entered), `StackInv` (each call was made for the
  name that the one before it leads to) and `DoneInv`, which says of a
  resolved entry that its target is reached by a walk that is no longer than
  the number of resolved entries, so that it is found within the number of
  names that `FinalName` walks. `FinalName` walks by a recursive function;
  its rows are shown to exist and to be what they should by taking the least
  row for which that fails, since induction is not available as a schema.
  `Doomed` are the entries that are nil and those that will be when the calls
  return; they are closed under renaming (`DoomInv`). `EachCycleReportedOnce`
  follows from `CountInv`: the errors are the dropped renamings and the cycles
  among the doomed names, and a step dooms a new cycle exactly when it reports
  one.
* `CapsuleProofs`: `CapsuleTypeOK`, strengthened by `ReadingOpened` (the
  capsule being read is open). One step per action; lemmas on what is at the
  current position, on exceptions, on `AddName` and on the last unit. The
  induction steps are stated for `ReaderStep`, a step of the reader or one
  that a caller may take between capsules, so that linker and builder can
  cite them for their own steps.
* `CapsuleIdProofs`: `IdsDistinct`, `LinksInRange`, `NoCapture`,
  `ExternalIdsAgree` and `ListedOnce`. `NoCapture` is not inductive: it does
  not say that an identifier that no capsule shares yet is different from
  those of names still to come. `IdInv` says where every mapped identifier
  comes from: it is that of an external name that the capsule binds to it
  (`Bound`), or no name and no other identifier shares it (`Private`); and all
  identifiers are below the count (`MapsInRange`), so a new one is fresh.
  `AgreeInv` extends `ExternalIdsAgree` to the names of the current capsule
  that have been read. `ShapeInv` says that the shapes of all names and links
  are in the table.
* `CapsuleUseProofs`: `DefinitionIsChosen`, `DefdHasDefinition`, `LegalUses`,
  `VersionsAgree` and the action property `DefinitionIsFinal`. The heart is
  the lemma `ChosenAppend`: one more usage changes the first-unique-or-only-
  multiple definition exactly as the cascade in the code does. `VersionsAgree`
  needs that it also holds of the capsule being read once it is past its
  header. `CleanInv` says what is known while no error was counted: everything
  opened was read, no unit lacks its body, no unique definition was passed
  over.
* `LinkerProofs`. `LinkerReads` shows that every step of the linker is a
  `ReaderStep`, which carries all of the above over to it. `LoadInv` (a
  library capsule was opened if and only if it is loaded or is being loaded)
  gives `LoadsOnce`, because a loaded capsule defines what made it needed, or
  was abandoned and then its name is not looked at again. `IndexInv` repeats
  `ChosenAppend` for the index. `HideInv` follows the two loops over the
  lists, `OutInv` ties what was written to the state at the end; together
  `VisibleNames`. `InputInv` and `CleanInv` give `CleanLinkIsWhole`.
  `OnlySkippedUnresolved` needs `ResolveInv`: every name waits in its list, is
  being looked at, or is settled, and as long as a pass has loaded nothing the
  lists of the shapes that it is done with are empty.
  `CleanLinkImplementsLinkage` is the refinement of `Linkage`. Its hypothesis,
  that no error is reported before the search of the libraries is over, is
  that of a clean link: well-formed files meet it unless a renaming makes two
  definitions one. `CleanStepsLink` needs no such hypothesis and speaks of
  each step that starts without an error. The mapping
  knows only files and options, the code decides by its tables, so
  `RefineInv` has to trace every bit of the tables back to what was read.
  `UsesRead`: a name has a usage if and only if a capsule that was read says
  so, or the one being read has said so by its current stage (`Heard`,
  `StageInv`); `NamesRead`: a name in the table is mentioned by one of them.
  `IndexWhole`: the index holds the unique, else the only multiple definition
  among the entries read so far (`FoundSoFar`), less what was suppressed.
  `CauseInv`: a name that was taken off its list before any capsule used it is
  mentioned by a capsule that does not use it (`SkippedMentioned`); the
  capsule being loaded is one that a used name lacks, and stays so while it is
  read (`LoadWanted`); and the inputs are read in order (`InputOrder`). Then the end of an input is `LinkInput`
  (`InputLinked`), that of a library capsule `LinkLibrary` (`LibraryLinked`),
  and the end of the last pass `Finish` (`SearchFinished`), by `ResolveInv`.
  The attempt to prove this showed that the mapping had once taken usages from
  capsules whose linker information does not cover the shape.
* `BuilderProofs`. `PlacedInv` (an opened capsule has its place in the vector,
  or gets it next) and `DefinesInv` (a definition is an opened capsule that
  defines the name) give the place of `IndexLeadsToDefinition`; that it is not
  empty in a clean build comes from `CleanLibraryIsWhole`. `MergedInv` says that every
  usage that a capsule tells (`Tells`) has been merged; with the exact
  definition of what a build without errors may hold (`DefsInv`) it gives
  `CleanIndexIsExact`. `OrderInv`, `OpenedInv` and `NamesInv` give
  `CleanLibraryIsWhole`. `LibraryInv` ties the library to the state it was
  written from, which gives `IndexIsReadBack`. `StoredInv` follows the two
  loops of the extractor and gives `RoundTrip`.
* `ArchiveProofs`. `ChangesNoticed` counts lines: with links there is one line
  per file. For `SplitUndoesBuild` the places of an archive where a piece
  begins are given marks (which file, from which byte on); `CopyInv` says that
  there is a set of marks such that at each there is the piece of that file
  from that byte, and the place after it has a mark too (`Laid`), up to the
  trailer (`Stored`), and that the reader stands at a mark and has extracted
  what that mark says (`Taken`). The theorem is stated for archives with the
  names of the files, as the finding requires.
* `DriverProofs`. `Fine` says of every file in every list of tcc where its name
  comes from (`Sprung`): an input of the same base and an earlier or equal
  type, the capsule that `-M` builds, or a made-up number; hence a name that a
  stage derives is no input's. `Listed` adds that the capsules among the
  inputs reach `uniq_filename`, which alone protects an input `a.j`. On the
  disk, `DiskInv` says that the inputs are as they were (`Safe`), that what is
  not whole is temporary or spoiled (`Tidy`) and that nothing temporary is
  left at the end unless the directory could not be removed. From it come `InputsUntouched` and `NoPartialButKept`.
  `FailedLinkKeepsObjectsMade` needs that no object takes the name of another.
  `PlainInv` says that an object's name is told by its base and number, and
  that all numbers in use are below the next one to be made up; `LineInv` that,
  unless names are made up, no two files of the lists have one base, also
  after the capsules have been replaced by the one that `-M` builds. Then
  `ObjInv` follows the objects from `done` to `links` and through `do_keep`:
  each is there, has been kept, or is known to be spoiled; `ErrInv` excludes
  that a link that succeeded returns an error. `SuccessIsWhole` needs the same
  of what every file was made from: as long as nothing has failed, the files
  in hand together stand for all inputs (`HasAll`), and of those that are done
  the lasting ones do (`LastingHaveAll`): objects and files outside the
  temporary directory are never overwritten (`NewName`), while other temporary
  files share their names and are used up before the next one is made,
  and no command removes, with the inputs that are not needed any more, what it
  has just made (`StageApart`, `BuiltApart`).

Only model-checked:

* all liveness (`RenamingTerminates`, `ReadingEnds`, `LinkTerminates`,
  `DriverEnds`, `SidEnds`, and `FactorisationEnds`, which fails), which is out of the prover's reach;
* `ParserIsExact` and `LL1IsAccepted` of `SidParser`: languages, first and
  follow sets and the run of the parser are computed by RECURSIVE operators,
  and both need induction over derivations.

## Not modelled

* Bytes, sizes, alignment, texts of messages and names, debug output, memory.
* The file that lists unit sets (`capsule_read_unit_set_file`), the order of
  unit sets and which of them are known.
* Counts of entities that a unit declares, apart from which shapes it counts.
* Exhaustion of identifiers in the tables of the library index, which are
  never written by the linker.
* Warnings about missing definitions, which have no effect on the link.
* `tcc`: environment files, the parser of its options, spec files, checker
  mode, the system compiler, the startup and endup files, dump linking; the
  option `-o` (`final_name` in `make_filename`); an RMDIR that dies of a signal
  or is interrupted while `main_end` waits for it.
* `sid`: parameters, results, predicates, exception handlers and non-local
  names; the parsers of its two input files; inlining, tail calls and
  mutations, which change the layout of the parser and not what it does.

## Plan

1. Writer (`CapsuleWriter`): order of shapes, names, limits, linker
   information unit and units, with the sizes computed before they are
   written; the reader applied to what was written gives the tables again.
2. `NameKey` and `TdfStream`: parsing of names (escapes, unique names) and the
   encoding of integers in nibbles, as operators checked against reference
   definitions over bounded inputs.
3. `Exceptions`: the stack of handlers of `libexds`, composed with the two
   nested users in tld.
4. `sid` with predicates, whose first sets have a second part, and `lexi`, the
   trie of its tokens and the characters it pushes back.
