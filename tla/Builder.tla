------------------------------ MODULE Builder -------------------------------
(***************************************************************************)
(* tld as a library builder (frontend/builder.c): read the libraries to    *)
(* include and the input capsules into one vector and one set of tables,   *)
(* check that every name has a single definition, suppress definitions,    *)
(* and write the library with its index (adt/library.c).                   *)
(*                                                                         *)
(* Nothing is renamed in this mode (Indirects holds the identity only).    *)
(* Memory is cleared when it is allocated, so what was not read from a     *)
(* library that is cut short is a nil pointer or an empty string; NULL     *)
(* stands for a capsule without a name.                                    *)
(***************************************************************************)
EXTENDS Capsule

CONSTANTS
  BuildArgs,   \* the possible command lines
  CapName      \* the file name of every capsule

\* A library to include: cut is the number of its capsules that come before the
\* point at which its stream ends (all of them, if it does not end early).
IncludedLibrary ==
  [opens : BOOLEAN, badheader : BOOLEAN, major : Nat, caps : Seq(Capsules), cut : Nat,
   index : {"good", "double", "bad"}]

BuildControl == [shape : Shapes, all : BOOLEAN, names : SUBSET Names]

BuildArg ==
  [libs : Seq(IncludedLibrary), inputs : Seq(Capsules), missing : SUBSET Capsules,
   suppress_mult : BOOLEAN, suppresses : Seq(BuildControl), writable : BOOLEAN]

ASSUME BuilderAssumption ==
  /\ BuildArgs \subseteq BuildArg
  /\ \A a \in BuildArgs : \A j \in DOMAIN a.libs : a.libs[j].cut <= Len(a.libs[j].caps)
  /\ \A f \in Indirects : \A n \in Names : f[n] = n

VARIABLES
  bargs,        \* ArgDataT
  phase,        \* where builder_main is
  next,         \* the next library
  included,     \* the capsules of the libraries that were read
  num_capsules, \* the length of the vector of capsules
  todo,         \* capsules still to be read, the included ones first
  vector,       \* the part of the vector that is filled
  library       \* the library that was written, NULL before

buildVars == <<bargs, phase, next, included, num_capsules, todo, vector, library>>
builderVars == <<capsuleVars, buildVars>>

BuilderInit ==
  /\ CapsuleInit /\ bargs \in BuildArgs /\ phase = "libs" /\ next = 1
  /\ included = <<>> /\ num_capsules = 0 /\ todo = <<>> /\ vector = <<>> /\ library = NULL

In(p) == phase = p /\ pc = "idle"

\* Everything of the reader but the counting of errors.
readerVars == <<file, indirect, opened, cap, item, tableVars, usageVars, shapes, idmap, units,
                versionVars, complete>>

-----------------------------------------------------------------------------
\* What library_read leaves of the capsules of a library: all that were counted,
\* and nothing in the places that the stream did not reach.
Delivered(lib) ==
  [k \in 1 .. Len(lib.caps) |-> IF k <= lib.cut THEN lib.caps[k] ELSE NULL]

\* One library of builder_read_libraries.  One that cannot be opened or has a
\* bad header counts as empty; one that is malformed later has been counted.
builder_read_library ==
  LET lib == bargs.libs[next]
      empty == ~lib.opens \/ lib.badheader \/ BadVersion(lib.major)
      faulty == empty \/ lib.cut < Len(lib.caps) \/ lib.index # "good"
  IN /\ In("libs") /\ next <= Len(bargs.libs)
     /\ SeriousErrors(IF faulty THEN 1 ELSE 0, "idle")
     /\ major' = IF ~empty /\ major = 0 THEN lib.major ELSE major
     /\ included' = IF empty THEN included ELSE included \o Delivered(lib)
     /\ next' = next + 1
     /\ UNCHANGED <<fixedVars, opened, cap, item, tableVars, usageVars, shapes, idmap, units,
                    minor, complete, bargs, phase, num_capsules, todo, vector, library>>

\* builder_read_capsules: the vector is allocated for all capsules of the
\* libraries and all input files.
EndLibraries ==
  /\ In("libs") /\ next > Len(bargs.libs)
  /\ phase' = "names"
  /\ num_capsules' = Len(included) + Len(bargs.inputs)
  /\ todo' = included \o bargs.inputs
  /\ UNCHANGED <<capsuleVars, bargs, next, included, vector, library>>

\* The next input file cannot be opened: an error, and the index stays.  The
\* capsules of libraries were read into memory before.
CannotOpen ==
  /\ In("names") /\ todo # <<>> /\ Len(todo) <= Len(bargs.inputs)
  /\ Head(todo) \in bargs.missing
  /\ SeriousThen("idle") /\ todo' = Tail(todo)
  /\ UNCHANGED <<readerVars, bargs, phase, next, included, num_capsules, vector, library>>

\* builder_read_capsule compares the name with those before it; a capsule
\* without a name cannot be compared.
CheckNames ==
  LET c == Head(todo) IN
  /\ In("names") /\ todo # <<>>
  /\ Len(todo) <= Len(bargs.inputs) => c \notin bargs.missing
  /\ IF vector # <<>> /\ (c = NULL \/ \E k \in DOMAIN vector : vector[k] = NULL)
     THEN pc' = "crash" /\ UNCHANGED errors
     ELSE SeriousErrors(Cardinality({k \in DOMAIN vector : CapName[vector[k]] = CapName[c]}),
                        "idle")
  /\ phase' = "open"
  /\ UNCHANGED <<readerVars, bargs, next, included, num_capsules, todo, vector, library>>

\* capsule_read; a capsule without a name is empty, and so malformed.
ReadCapsule ==
  /\ In("open") /\ phase' = "store"
  /\ IF Head(todo) = NULL THEN SeriousThen("idle") /\ UNCHANGED readerVars ELSE Open(Head(todo))
  /\ UNCHANGED <<bargs, next, included, num_capsules, todo, vector, library>>

\* capsule_store_contents, capsule_close, and the capsule takes its place.
StoreCapsule ==
  /\ In("store")
  /\ phase' = "names" /\ vector' = Append(vector, Head(todo)) /\ todo' = Tail(todo)
  /\ UNCHANGED <<capsuleVars, bargs, next, included, num_capsules, library>>

EndCapsules ==
  /\ In("names") /\ todo = <<>>
  /\ phase' = "check"
  /\ UNCHANGED <<capsuleVars, bargs, next, included, num_capsules, todo, vector, library>>

-----------------------------------------------------------------------------
\* Mutant of NoSingleDefinition: only names without a unique definition.
NoSingleDefinitionUnique(n) == "MULT" \in use[n] /\ "DEFD" \in use[n] /\ def[n] = NULL

NoSingleDefinition(n) == "MULT" \in use[n] /\ def[n] = NULL

builder_check_multi_defs ==
  /\ In("check")
  /\ SeriousErrors(Cardinality({n \in direct : NoSingleDefinition(n)}), "idle")
  /\ phase' = "suppress"
  /\ UNCHANGED <<readerVars, bargs, next, included, num_capsules, todo, vector, library>>

Suppressed(n) ==
  \/ bargs.suppress_mult /\ use[n] \cap {"DEFD", "MULT"} = {"MULT"}
  \/ \E j \in DOMAIN bargs.suppresses :
        LET c == bargs.suppresses[j] IN (c.all /\ ShapeOf[n] = c.shape) \/ n \in c.names

builder_suppress ==
  /\ In("suppress")
  /\ def' = [n \in Names |-> IF n \in direct /\ Suppressed(n) THEN NULL ELSE def[n]]
  /\ phase' = "write"
  /\ UNCHANGED <<pc, errors, fixedVars, opened, cap, item, tableVars, use, merged, shapes, idmap,
                 units, versionVars, complete, bargs, next, included, num_capsules, todo, vector,
                 library>>

\* Mutant of PositionOf: the capsule is looked up by its name.
PositionByName(c) ==
  CHOOSE k \in DOMAIN vector :
     /\ CapName[vector[k]] = CapName[c]
     /\ \A j \in 1 .. k - 1 : CapName[vector[j]] # CapName[c]

\* capsule_get_index: the place that builder_read_capsule gave to the capsule.
PositionOf(c) == CHOOSE k \in DOMAIN vector : vector[k] = c

\* Mutant of IndexOf: the usage of the definition alone.
IndexOfBare ==
  {[name |-> n, use |-> use[n] \ {"DECD"}, index |-> PositionOf(def[n])] :
     n \in {m \in direct : def[m] # NULL}}

\* shape_entry_do_lib_count and shape_entry_do_lib_write: one entry for every
\* name that has a definition.
IndexOf ==
  {[name |-> n, use |-> use[n], index |-> PositionOf(def[n])] :
     n \in {m \in direct : def[m] # NULL}}

\* builder_write_library.  The names of all num_capsules capsules are written,
\* also of those that the vector does not hold.
builder_write_library ==
  /\ In("write") /\ phase' = "done"
  /\ \/ ~bargs.writable /\ pc' = "abort" /\ UNCHANGED library
     \/ /\ bargs.writable
        /\ IF major < 4 \/ Len(vector) < num_capsules \/ \E k \in DOMAIN vector : vector[k] = NULL
           THEN pc' = "crash" /\ UNCHANGED library
           ELSE /\ library' = [major |-> major, minor |-> minor, caps |-> vector,
                               whole |-> complete, index |-> IndexOf]
                /\ UNCHANGED pc
  /\ UNCHANGED <<errors, readerVars, bargs, next, included, num_capsules, todo, vector>>

BuilderEnd ==
  /\ pc \in {"abort", "crash"} \/ In("done")
  /\ UNCHANGED builderVars

BuildStep ==
  \/ builder_read_library
  \/ EndLibraries
  \/ CannotOpen
  \/ CheckNames
  \/ ReadCapsule
  \/ StoreCapsule
  \/ EndCapsules
  \/ builder_check_multi_defs
  \/ builder_suppress
  \/ builder_write_library

BuilderStep == BuildStep \/ (ReadStep /\ UNCHANGED buildVars)

BuilderNext == BuilderStep \/ BuilderEnd

BuilderSpec == BuilderInit /\ [][BuilderNext]_builderVars

-----------------------------------------------------------------------------
\* The linker information of the capsule, if it has any, says how the name is
\* used: a unit of type 1 does so for all names, others for tokens and tags.
Tells(c, n) ==
  \/ file[c].tld = "tld1"
  \/ file[c].tld \in {"tld0", "tld2"} /\ ShapeOf[n] \in {Token, Tag}

\* The file of the capsule defines the name.
Definer(c, n) ==
  \E j \in DOMAIN file[c].externs :
     /\ file[c].externs[j].name = n /\ Tells(c, n)
     /\ file[c].externs[j].use \cap {"DEFD", "MULT"} # {}

\* The library has the whole file of the capsule at the place; of one that was
\* abandoned it has the name and no contents (capsule.c:1048).
HasContents(k) == library.caps[k] \in library.whole

\* Every entry of the index leads to a place of the library, and what the library
\* holds there defines the name: it may only be empty, the rest of a capsule that
\* was abandoned after it had been merged, in a build that reported an error
\* (builder.c:91, capsule.c:1048, name-entry.c:333).
IndexLeadsToDefinition ==
  library # NULL =>
    \A e \in library.index :
       /\ e.index \in DOMAIN library.caps
       /\ HasContents(e.index) => Definer(library.caps[e.index], e.name)
       /\ errors = 0 => HasContents(e.index)

\* A library that was written without an error holds all capsules that were
\* asked for, in order and whole, under different names.
CleanLibraryIsWhole ==
  library # NULL /\ errors = 0 =>
    /\ library.caps = included \o bargs.inputs
    /\ \A k \in DOMAIN library.caps : HasContents(k)
    /\ \A j, k \in DOMAIN library.caps :
          CapName[library.caps[j]] = CapName[library.caps[k]] => j = k

\* What the linker makes of the index when this is its first library: the entry
\* of a name is accepted, and it is a definition.
AcceptedAlone(e) ==
  /\ ~IllegalUse(e.use, ShapeOf[e.name] = Tag, ShapeOf[e.name] = Token)
  /\ NewDefinition(NULL, {}, e.use, library.caps[e.index]) # NULL

\* An index that the builder wrote is read by library_check_index_entry without
\* an error and gives back the definitions and usages of the builder, even when
\* the build had errors (library.c:81, name-entry.c:333).
IndexIsReadBack ==
  library # NULL =>
    /\ \A e \in library.index : AcceptedAlone(e) /\ library.caps[e.index] = def[e.name]
    /\ \A d, e \in library.index : d.name = e.name => d = e
    /\ {e.name : e \in library.index} = {n \in direct : def[n] # NULL}

\* What the index of a clean build defines: the names with exactly one
\* definition in the capsules, but for those that are suppressed.
CleanIndexIsExact ==
  library # NULL /\ errors = 0 =>
    {e.name : e \in library.index} =
       {n \in Names : /\ \E k \in DOMAIN library.caps : Definer(library.caps[k], n)
                      /\ ~Suppressed(n)}
=============================================================================
