------------------------------- MODULE Linker -------------------------------
(***************************************************************************)
(* tld as a linker (frontend/linker.c): read the input capsules, load the  *)
(* indices of the libraries, suppress library definitions, load library    *)
(* capsules until no name that was met needs one, hide and keep external   *)
(* names, and write the output capsule.                                    *)
(*                                                                         *)
(* Renaming has been done (module Renames): indirect is its result for the *)
(* name table and for the table of the library index alike.                *)
(*                                                                         *)
(* The tables of shapes and names are hash tables: shape_table_iter visits *)
(* the shapes in any order, and a shape that is added while it runs may be *)
(* visited or not.                                                         *)
(***************************************************************************)
EXTENDS Capsule

CONSTANT Args   \* the possible command lines

\* An entry of a shape control list: all names of a shape, or some, or both.
Control == [shape : Shapes, all : BOOLEAN, names : SUBSET Names]

\* A library: its index, and the entry before which the stream turns out to be
\* malformed (0: in the header, -1: not at all).
IndexEntry == [name : Names, use : SUBSET UseBits, cap : Capsules]
Library == [opens : BOOLEAN, major : Nat, index : Seq(IndexEntry), fault : Int]

Arg ==
  [inputs    : Seq(Capsules),      \* input files
   missing   : SUBSET Capsules,    \* input files that cannot be opened
   libs      : Seq(Library),
   suppress_mult : BOOLEAN,
   suppresses    : Seq(Control),
   hide_defd : BOOLEAN,
   hides     : Seq(Control),
   keeps     : Seq(Control),
   writable  : BOOLEAN]            \* the output file can be opened

InputCaps(a) == {a.inputs[j] : j \in DOMAIN a.inputs}
LibCaps(a) == UNION {{a.libs[j].index[k].cap : k \in DOMAIN a.libs[j].index} : j \in DOMAIN a.libs}

ASSUME LinkerAssumption ==
  /\ Args \subseteq Arg
  /\ \A a \in Args :
        /\ a.inputs # <<>>
        /\ \A i, j \in DOMAIN a.inputs : a.inputs[i] = a.inputs[j] => i = j
        /\ InputCaps(a) \cap LibCaps(a) = {}
        /\ \A x \in {a.suppresses, a.hides, a.keeps} : \A j \in DOMAIN x :
              IsFiniteSet(x[j].names) /\ \A n \in x[j].names : ShapeOf[n] = x[j].shape

VARIABLES
  args,         \* ArgDataT
  phase,        \* where linker_main is
  next,         \* the next file, library or control entry
  entry,        \* the next entry of the library index
  lshapes,      \* shapes in the shape table of the libraries
  token_known,  \* the library reader knows which shape is "token"
  tag_known,    \* and which is "tag"
  ldirect,      \* names with a direct entry in the index
  luse,         \* their usages
  ldef,         \* NameEntryT.u.direct.lib_definition
  loaded,       \* LibCapsuleT.loaded
  known,        \* shapes in the table when the current pass began
  visited,      \* shapes that the pass has come to
  cur,          \* the shape whose list is being emptied
  name,         \* the name that was taken off it last
  did_define,   \* ShapeLibClosureT.did_define
  hidden,       \* names with U_HIDE
  out,          \* the output capsule, NULL as long as it is not written
  skipped,      \* history: names taken off the list before they were used
  lmerged       \* history: for each name, the index entries merged into it

indexVars == <<lshapes, token_known, tag_known, ldirect, luse, ldef, lmerged>>
passVars == <<known, visited, cur, name, did_define, loaded, skipped>>
outVars == <<hidden, out>>
linkerVars == <<args, phase, next, entry, indexVars, passVars, outVars>>
vars == <<capsuleVars, linkerVars>>

\* Everything of the reader but the counting of errors.
readerVars == <<file, indirect, opened, cap, item, tableVars, usageVars, shapes, idmap, units,
                versionVars, complete>>

LinkerInit ==
  /\ CapsuleInit /\ args \in Args /\ phase = "read" /\ next = 1 /\ entry = 1
  /\ lshapes = shapes /\ token_known = FALSE /\ tag_known = FALSE
  /\ ldirect = {} /\ luse = [n \in Names |-> {}] /\ ldef = [n \in Names |-> NULL]
  /\ loaded = {} /\ known = {} /\ visited = {} /\ cur = NULL /\ name = NULL
  /\ did_define = FALSE /\ hidden = {} /\ out = NULL /\ skipped = {}
  /\ lmerged = [n \in Names |-> <<>>]

-----------------------------------------------------------------------------
\* The code of the linker runs when no capsule is being read.
In(p) == phase = p /\ pc = "idle"

\* The linker goes on without any effect on what has been read.
Quiet == UNCHANGED capsuleVars

\* linker_read_capsules: the next input file.
OpenInput ==
  LET c == args.inputs[next] IN
  /\ In("read") /\ next <= Len(args.inputs)
  /\ \/ c \in args.missing /\ SeriousThen("idle") /\ UNCHANGED readerVars
     \/ c \notin args.missing /\ Open(c)
  /\ next' = next + 1
  /\ UNCHANGED <<args, phase, entry, indexVars, passVars, outVars>>

EndInputs ==
  /\ In("read") /\ next > Len(args.inputs)
  /\ phase' = "libs" /\ next' = 1 /\ Quiet
  /\ UNCHANGED <<args, entry, indexVars, passVars, outVars>>

\* linker_load_libraries: the next library, as far as its header; a library that
\* cannot be opened or has a bad header is passed over.  The entries of the
\* shapes "token" and "tag" are looked up before the index brings in shapes.
library_read_header ==
  LET lib == args.libs[next]
      bad == ~lib.opens \/ lib.fault = 0 \/ BadVersion(lib.major)
  IN /\ In("libs") /\ next <= Len(args.libs)
     /\ \/ /\ bad /\ SeriousThen("idle") /\ next' = next + 1
           /\ UNCHANGED <<readerVars, phase, entry, indexVars>>
        \/ /\ ~bad
           /\ IF major = 0 THEN capsule_set_major_version(lib.major) ELSE Quiet
           /\ phase' = "index" /\ entry' = 1
           /\ token_known' = (Token \in lshapes) /\ tag_known' = (Tag \in lshapes)
           /\ UNCHANGED <<next, lshapes, ldirect, luse, ldef, lmerged>>
     /\ UNCHANGED <<args, passVars, outVars>>

\* THROW in the middle of an index: library_read returns, and what was entered
\* so far stays.
ThrowIndex == SeriousThen("idle") /\ phase' = "libs" /\ next' = next + 1 /\ entry' = entry

\* The stream of the library is malformed here.
MalformedIndex ==
  /\ In("index") /\ entry = args.libs[next].fault
  /\ ThrowIndex
  /\ UNCHANGED <<readerVars, args, indexVars, passVars, outVars>>

\* One entry of the index of a library.
library_check_index_entry ==
  LET lib == args.libs[next]
      e == lib.index[entry]
      s == ShapeOf[e.name]
      n == indirect[e.name]
  IN /\ In("index") /\ entry # lib.fault /\ entry <= Len(lib.index)
     /\ lshapes' = lshapes \cup {s}
     /\ \/ /\ n = NULL
           /\ pc' = "crash"
           /\ UNCHANGED <<errors, phase, next, entry, ldirect, luse, ldef, lmerged>>
        \/ /\ n # NULL /\ IllegalUse(e.use, tag_known /\ s = Tag, token_known /\ s = Token)
           /\ ldirect' = ldirect \cup {n}
           /\ ThrowIndex /\ UNCHANGED <<luse, ldef, lmerged>>
        \/ /\ n # NULL /\ ~IllegalUse(e.use, tag_known /\ s = Tag, token_known /\ s = Token)
           /\ ldirect' = ldirect \cup {n}
           /\ SeriousErrors(IF "DEFD" \in e.use \cap luse[n] THEN 1 ELSE 0, "idle")
           /\ ldef' = [ldef EXCEPT ![n] = NewDefinition(@, luse[n], e.use, e.cap)]
           /\ luse' = [luse EXCEPT ![n] = @ \cup e.use]
           /\ lmerged' = [lmerged EXCEPT ![n] = Append(@, [cap |-> e.cap, use |-> e.use])]
           /\ entry' = entry + 1 /\ UNCHANGED <<phase, next>>
     /\ UNCHANGED <<readerVars, args, token_known, tag_known, passVars, outVars>>

\* tdf_read_eof succeeds: on to the next library.
EndIndex ==
  /\ In("index") /\ entry # args.libs[next].fault /\ entry > Len(args.libs[next].index)
  /\ phase' = "libs" /\ next' = next + 1 /\ Quiet
  /\ UNCHANGED <<args, entry, indexVars, passVars, outVars>>

EndLibraries ==
  /\ In("libs") /\ next > Len(args.libs)
  /\ phase' = "suppress" /\ Quiet
  /\ UNCHANGED <<args, next, entry, indexVars, passVars, outVars>>

-----------------------------------------------------------------------------
\* The names that a control list names, apart from those of shapes that are not
\* in the table: name_table_get is called for each.
LookedUp(controls, table) ==
  UNION {controls[j].names : j \in {k \in DOMAIN controls : controls[k].shape \in table}}

\* name_table_get follows the nil pointer of a name in a cycle of renamings.
Cyclic(names) == {n \in names : indirect[n] = NULL}

\* Mutant of Selected: renaming is forgotten.
SelectedLiterally(c, table) ==
  {n \in table : (c.all /\ ShapeOf[n] = c.shape) \/ n \in c.names}

\* The entries that a control applies to, out of those in a table.
Selected(c, table) ==
  {n \in table : \/ c.all /\ ShapeOf[n] = c.shape
                 \/ \E m \in c.names : indirect[m] = n}

\* Suppressed names lose their definition in the libraries, not their usage.
linker_suppress ==
  LET mult == {n \in ldirect : args.suppress_mult /\ luse[n] \cap {"DEFD", "MULT"} = {"MULT"}}
      chosen == UNION {Selected(args.suppresses[j], ldirect) : j \in DOMAIN args.suppresses}
      crash == Cyclic(LookedUp(args.suppresses, lshapes)) # {}
  IN /\ In("suppress")
     /\ ldef' = [n \in Names |-> IF n \in mult \cup chosen THEN NULL ELSE ldef[n]]
     /\ pc' = IF crash THEN "crash" ELSE "idle"
     /\ phase' = "resolve"
     /\ UNCHANGED <<errors, readerVars, args, next, entry, lshapes, token_known, tag_known,
                    ldirect, luse, lmerged, passVars, outVars>>

-----------------------------------------------------------------------------
\* linker_resolve_undefined: a pass over the shapes.
StartPass ==
  /\ In("resolve")
  /\ phase' = "pass" /\ did_define' = FALSE /\ visited' = {} /\ known' = shapes /\ Quiet
  /\ UNCHANGED <<args, next, entry, indexVars, cur, name, loaded, skipped, outVars>>

\* shape_table_iter comes to a shape.
VisitShape(s) ==
  /\ In("pass") /\ s \in shapes \ visited
  /\ phase' = "shape" /\ cur' = s /\ visited' = visited \cup {s} /\ Quiet
  /\ UNCHANGED <<args, next, entry, indexVars, known, name, did_define, loaded, skipped, outVars>>

\* shape_entry_resolve_undefined takes the next name off the list of the shape.
TakeName ==
  /\ In("shape") /\ shape_entry_get_from_list(cur)
  /\ phase' = "name" /\ name' = Head(list[cur])
  /\ UNCHANGED <<args, next, entry, indexVars, known, visited, cur, did_define, loaded, skipped,
                 outVars>>

EndShape ==
  /\ In("shape") /\ list[cur] = <<>>
  /\ phase' = "pass" /\ Quiet
  /\ UNCHANGED <<args, next, entry, indexVars, passVars, outVars>>

\* Mutant of Needed: names that are declared count as well.
NeededDeclared(n) == use[n] # {} /\ "DEFD" \notin use[n]

Needed(n) == "USED" \in use[n] /\ "DEFD" \notin use[n]

\* Mutant of Supplied: a capsule may be loaded again.
SuppliedAgain(n) ==
  /\ n \in ldirect /\ ldef[n] # NULL
  /\ "MULT" \in use[n] => "DEFD" \in luse[n]

\* The index has a definition for the name that can be loaded: a name with
\* multiple definitions is only given a unique one.
Supplied(n) ==
  /\ n \in ldirect /\ ldef[n] # NULL /\ ldef[n] \notin loaded
  /\ "MULT" \in use[n] => "DEFD" \in luse[n]

\* name_entry_resolve_undefined: the name needs no definition, or none is found.
LeaveName ==
  /\ In("name") /\ ~(Needed(name) /\ Supplied(name))
  /\ phase' = "shape" /\ Quiet
  /\ skipped' = IF {"DEFD", "USED"} \cap use[name] = {} THEN skipped \cup {name} ELSE skipped
  /\ UNCHANGED <<args, next, entry, indexVars, known, visited, cur, name, did_define, loaded,
                 outVars>>

\* name_entry_resolve_undefined: the defining capsule is read.
LoadCapsule ==
  /\ In("name") /\ Needed(name) /\ Supplied(name)
  /\ Open(ldef[name]) /\ phase' = "load"
  /\ UNCHANGED <<args, next, entry, indexVars, passVars, outVars>>

\* It has been read; it counts as loaded even if it was abandoned.
lib_capsule_loaded ==
  /\ In("load")
  /\ phase' = "shape" /\ loaded' = loaded \cup {ldef[name]} /\ did_define' = TRUE /\ Quiet
  /\ UNCHANGED <<args, next, entry, indexVars, known, visited, cur, name, skipped, outVars>>

\* Mutant of EndPass: there is one pass only.
EndPassOnce ==
  /\ In("pass") /\ known \subseteq visited
  /\ phase' = "hide_all" /\ next' = 1 /\ Quiet
  /\ UNCHANGED <<args, entry, indexVars, passVars, outVars>>

\* Mutant of EndPass: did_define is not looked at.
EndPassAlways ==
  /\ In("pass") /\ known \subseteq visited
  /\ phase' = "resolve" /\ next' = 1 /\ Quiet
  /\ UNCHANGED <<args, entry, indexVars, passVars, outVars>>

\* The pass is over, and there is another one if a capsule was loaded.
EndPass ==
  /\ In("pass") /\ known \subseteq visited
  /\ phase' = IF did_define THEN "resolve" ELSE "hide_all"
  /\ next' = 1 /\ Quiet
  /\ UNCHANGED <<args, entry, indexVars, passVars, outVars>>

-----------------------------------------------------------------------------
Defined == {n \in direct : "DEFD" \in use[n]}

\* linker_hide_and_keep: hide all definitions if asked to.
shape_entry_hide_all_defd ==
  /\ In("hide_all")
  /\ phase' = "hide" /\ hidden' = (IF args.hide_defd THEN Defined ELSE {}) /\ Quiet
  /\ UNCHANGED <<args, next, entry, indexVars, passVars, out>>

\* Errors for the names in bad, unless the nil pointer of a name in a cycle is
\* met after some of them.
Report(bad, cyclic) ==
  \/ cyclic = {} /\ SeriousErrors(Cardinality(bad), "idle")
  \/ cyclic # {} /\ \E k \in 0 .. Cardinality(bad) : SeriousErrors(k, "crash")

\* An entry of the list of names to hide: a name that is not there, or is not
\* defined, is an error.
linker_hide ==
  LET c == args.hides[next]
      bad == {m \in c.names : indirect[m] # NULL /\ indirect[m] \notin Defined}
  IN /\ In("hide") /\ next <= Len(args.hides)
     /\ \/ /\ c.shape \notin shapes
           /\ SeriousThen("idle") /\ UNCHANGED hidden
        \/ /\ c.shape \in shapes
           /\ Report(bad, Cyclic(c.names))
           /\ hidden' = hidden \cup Selected(c, Defined)
     /\ next' = next + 1
     /\ UNCHANGED <<readerVars, args, phase, entry, indexVars, passVars, out>>

EndHide ==
  /\ In("hide") /\ next > Len(args.hides)
  /\ phase' = "keep" /\ next' = 1 /\ Quiet
  /\ UNCHANGED <<args, entry, indexVars, passVars, outVars>>

\* An entry of the list of names to keep.
linker_keep ==
  LET c == args.keeps[next]
      bad == {m \in c.names : indirect[m] # NULL /\ indirect[m] \notin direct}
  IN /\ In("keep") /\ next <= Len(args.keeps)
     /\ \/ /\ c.shape \notin shapes
           /\ SeriousThen("idle") /\ UNCHANGED hidden
        \/ /\ c.shape \in shapes
           /\ Report(bad, Cyclic(c.names))
           /\ hidden' = hidden \ Selected(c, direct)
     /\ next' = next + 1
     /\ UNCHANGED <<readerVars, args, phase, entry, indexVars, passVars, out>>

EndKeep ==
  /\ In("keep") /\ next > Len(args.keeps)
  /\ phase' = "write" /\ Quiet
  /\ UNCHANGED <<args, next, entry, indexVars, passVars, outVars>>

\* The shapes that are written: those with identifiers, and those that a unit
\* counts entities of.
NonEmpty == {s \in shapes : idcount[s] > 0 \/ \E j \in DOMAIN units : s \in units[j].counted}

\* linker_write_capsule and capsule_write.  The table of unit sets exists only
\* after a capsule was read, and capsule_write_header asserts that the major
\* version is known.
linker_write_capsule ==
  /\ In("write")
  /\ \/ ~args.writable /\ pc' = "abort" /\ UNCHANGED <<phase, out>>
     \/ /\ args.writable /\ (opened = {} \/ major < 4)
        /\ pc' = "crash" /\ UNCHANGED <<phase, out>>
     \/ /\ args.writable /\ opened # {} /\ major >= 4
        /\ phase' = "exit"
        /\ out' = [names |-> direct \ hidden, shapes |-> NonEmpty, limits |-> idcount,
                   units |-> units]
        /\ UNCHANGED pc
  /\ UNCHANGED <<errors, readerVars, args, next, entry, indexVars, passVars, hidden>>

Ended == phase = "exit" \/ pc \in {"abort", "crash"}

LinkerStep ==
  \/ ReadStep /\ UNCHANGED linkerVars
  \/ OpenInput
  \/ EndInputs
  \/ library_read_header
  \/ MalformedIndex
  \/ library_check_index_entry
  \/ EndIndex
  \/ EndLibraries
  \/ linker_suppress
  \/ StartPass
  \/ \E s \in Shapes : VisitShape(s)
  \/ TakeName
  \/ EndShape
  \/ LeaveName
  \/ LoadCapsule
  \/ lib_capsule_loaded
  \/ EndPass
  \/ shape_entry_hide_all_defd
  \/ linker_hide
  \/ EndHide
  \/ linker_keep
  \/ EndKeep
  \/ linker_write_capsule

Terminated == Ended /\ UNCHANGED vars

LinkerNext == LinkerStep \/ Terminated

LinkerSpec == LinkerInit /\ [][LinkerNext]_vars /\ WF_vars(LinkerStep)

-----------------------------------------------------------------------------
AfterResolve == phase \in {"hide_all", "hide", "keep", "write", "exit"}

\* A capsule of a library is read at most once, however many names it defines and
\* even if reading it failed: the definition that is about to be loaded has not
\* been opened before (name-entry.c:389).
LoadsOnce ==
  phase = "name" /\ Needed(name) /\ Supplied(name) => ldef[name] \notin opened

\* When the search of the libraries is over, a name that still needs a definition
\* which a library could supply is one that was taken off its list before any
\* capsule used it (name-entry.c:379); no name is left unexamined, not even
\* those that the last capsules brought in or those of shapes that were added
\* during the last pass (linker.c:214).
OnlySkippedUnresolved ==
  AfterResolve =>
     /\ \A s \in Shapes : list[s] = <<>>
     /\ \A n \in direct : Needed(n) /\ Supplied(n) => n \in skipped

\* A control applies to the name: to all of its shape, or to a name renamed to it.
Asked(controls, n) ==
  \E j \in DOMAIN controls :
     \/ controls[j].all /\ controls[j].shape = ShapeOf[n]
     \/ \E m \in controls[j].names : indirect[m] = n

\* The external names of the output are those that are not defined, those that
\* nobody asked to hide and those that were to be kept, whatever the order of
\* the options and under whatever name they were given (linker.c:294).
VisibleNames ==
  out # NULL =>
     out.names = {n \in direct : \/ n \notin Defined
                                \/ ~(args.hide_defd \/ Asked(args.hides, n))
                                \/ Asked(args.keeps, n)}

\* If no error was reported then everything in the output is whole: all input
\* capsules and all library capsules that were loaded have been read to the end,
\* no unit lacks its body, no name has two unique definitions, and all
\* identifiers in the output are below their limits.
CleanLinkIsWhole ==
  out # NULL /\ errors = 0 =>
     /\ InputCaps(args) \cup loaded \subseteq complete
     /\ \A j \in DOMAIN out.units :
           /\ out.units[j].whole
           /\ \A k \in DOMAIN out.units[j].links :
                 LET l == out.units[j].links[k]
                 IN l.shape \in out.shapes /\ l.ext < out.limits[l.shape]
     /\ \A n \in out.names : ShapeOf[n] \in out.shapes /\ id[n] < out.limits[ShapeOf[n]]
     /\ \A n \in Names : \A i, j \in DOMAIN merged[n] :
           "DEFD" \in merged[n][i].use \cap merged[n][j].use => i = j

\* Until names are suppressed, the index leads from a name to its first unique
\* definition in the libraries, else to its only multiple definition, and to
\* nothing if there are several, however the entries are spread over libraries
\* and wherever an index was abandoned (library.c:86).
IndexIsChosen ==
  phase \in {"libs", "index", "suppress"} /\ pc = "idle" =>
     \A n \in Names :
        /\ ldef[n] = ChosenDefinition(lmerged[n])
        /\ luse[n] = UNION {lmerged[n][j].use : j \in DOMAIN lmerged[n]}

\* The linker comes to an end: no library makes it load capsules for ever.
LinkTerminates == <>Ended

\* userguide.xml:280: the search is repeated until definitions have been found for
\* all names that need them and that definitions exist for.
NeededAreResolved ==
  AfterResolve => \A n \in direct : ~(Needed(n) /\ Supplied(n))
=============================================================================
