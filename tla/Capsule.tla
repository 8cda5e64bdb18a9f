------------------------------ MODULE Capsule -------------------------------
(***************************************************************************)
(* Reading capsules in tld (adt/capsule.c): the external names of every    *)
(* capsule that is read go into one name table (adt/name-table.c,          *)
(* adt/name-entry.c, adt/shape-entry.c), their usages are merged, and the  *)
(* identifiers of the capsule are mapped to identifiers of the capsule     *)
(* that will be written.  A capsule that is malformed raises an exception  *)
(* in the middle; capsule_read handles it, and what was entered so far     *)
(* stays.  The linker and the library builder both read capsules this way, *)
(* and they take names off the lists that the reader fills.                *)
(*                                                                         *)
(* A capsule file is an abstract value (Content).  What only makes a       *)
(* stream malformed (end of file, a bad magic number, an unknown unit set, *)
(* a wrong count, bytes after the end) is its fault: the stage and item at *)
(* which the reader reports the error and throws.                          *)
(***************************************************************************)
EXTENDS Errors, Sequences, FiniteSets

CONSTANTS
  NULL,
  Names,       \* external names; names of different shapes are different
  Shapes,      \* linkable entities
  ShapeOf,     \* the shape of each name
  Token, Tag,  \* the shapes "token" and "tag"
  MaxLocal,    \* bound on the identifiers of a capsule that is read
  IdMax,       \* UINT_MAX: no identifier, and the limit of id_count
  Capsules,    \* capsule objects, one for each time a capsule is opened
  Files,       \* the possible assignments of contents to capsules
  Indirects,   \* the possible results of renaming (module Renames)
  Majors       \* major versions that library headers may have

Bits == {"USED", "DECD", "DEFD", "MULT"}      \* U_USED ... U_MULT
UseBits == Bits \cup {"OTHER"}                \* and any other bit of the integer

Stages == {"header", "sets", "shapes", "names", "usage", "token", "tag", "units", "eof"}
LocalIds == 0 .. MaxLocal - 1

Extern == [name : Names, id : Nat, use : SUBSET UseBits]
UnitItem == [op : {"unit", "link", "body"}, shape : Shapes, ext : Nat, counted : SUBSET Shapes]

Content ==
  [major   : Nat,                       \* version numbers of the header
   minor   : Nat,
   tld     : {"none", "tld0", "tld1", "tld2"},  \* linker information unit
   shapes  : Seq(Shapes),
   nids    : [Shapes -> 0 .. MaxLocal], \* number of identifiers of each shape
   externs : Seq(Extern),               \* external names and their usages
   units   : Seq(UnitItem),             \* units, links and unit bodies
   fault   : [at : Stages \cup {"none"}, item : Nat]]

\* Identifiers and external names come under the shapes that the capsule lists,
\* and every unit ends with its body.
WellFormed(f) ==
  /\ \A s \in Shapes : f.nids[s] > 0 => \E k \in DOMAIN f.shapes : f.shapes[k] = s
  /\ \A j \in DOMAIN f.externs : \E k \in DOMAIN f.shapes :
        f.shapes[k] = ShapeOf[f.externs[j].name]
  /\ f.units # <<>> => f.units[1].op = "unit" /\ f.units[Len(f.units)].op = "body"
  /\ \A j \in 1 .. Len(f.units) - 1 : f.units[j].op = "body" <=> f.units[j + 1].op = "unit"

ASSUME CapsuleAssumption ==
  /\ ShapeOf \in [Names -> Shapes]
  /\ MaxLocal \in Nat /\ IdMax \in Nat /\ Majors \subseteq Nat
  /\ NULL \notin Names \cup Capsules
  /\ Files \subseteq [Capsules -> Content]
  /\ \A f \in Files : \A c \in Capsules : WellFormed(f[c])
  /\ \A f \in Indirects :
        /\ f \in [Names -> Names \cup {NULL}]
        /\ \A n \in Names : f[n] # NULL => f[f[n]] = f[n] /\ ShapeOf[f[n]] = ShapeOf[n]

VARIABLES
  file,      \* the contents of the capsules
  indirect,  \* the entry that a name stands for after renaming; NULL in a cycle
  opened,    \* capsules whose reading has begun
  cap,       \* the capsule that is being read
  item,      \* the position in the current stage
  direct,    \* names with a direct entry
  id,        \* NameEntryT.u.direct.id
  use,       \* NameEntryT.u.direct.use, without U_HIDE
  def,       \* NameEntryT.u.direct.definition
  idcount,   \* ShapeEntryT.id_count
  list,      \* the list of names of each shape (ShapeEntryT.head)
  shapes,    \* shapes in the shape table
  idmap,     \* ShapeDataT.id_maps of every capsule (freed once it is read)
  units,     \* UnitT objects, in the order in which they are added
  major,     \* capsule_major_version
  minor,     \* capsule_minor_version
  complete,  \* capsules that were read to the end
  merged     \* history: for each name, the usages merged into it, and from where

tableVars == <<direct, id, idcount, list>>
usageVars == <<use, def, merged>>
versionVars == <<major, minor>>
fixedVars == <<file, indirect>>
capsuleVars == <<pc, errors, file, indirect, opened, cap, item, direct, id, use, def,
                 idcount, list, shapes, idmap, units, major, minor, complete, merged>>

Link == [shape : Shapes, ext : 0 .. IdMax]
UnitObject == [cap : Capsules, links : Seq(Link), counted : SUBSET Shapes, whole : BOOLEAN]

ControlTypeOK ==
  /\ pc \in Stages \cup {"idle", "abort", "crash"}
  /\ errors \in Nat
  /\ opened \subseteq Capsules /\ complete \subseteq opened
  /\ cap \in opened \cup {NULL}
  /\ item \in Nat \ {0}

TablesTypeOK ==
  /\ direct \subseteq Names
  /\ id \in [Names -> 0 .. IdMax]
  /\ idcount \in [Shapes -> 0 .. IdMax]
  /\ list \in [Shapes -> Seq(Names)]

UsagesTypeOK ==
  /\ use \in [Names -> SUBSET Bits]
  /\ def \in [Names -> Capsules \cup {NULL}]
  /\ merged \in [Names -> Seq([cap : Capsules, use : SUBSET Bits])]

UnitsTypeOK ==
  /\ idmap \in [Capsules \X Shapes \X LocalIds -> 0 .. IdMax]
  /\ units \in Seq(UnitObject)

CapsuleTypeOK ==
  /\ ControlTypeOK /\ TablesTypeOK /\ UsagesTypeOK /\ UnitsTypeOK
  /\ file \in Files /\ indirect \in Indirects
  /\ shapes \subseteq Shapes
  /\ major \in Nat /\ minor \in Nat

\* The state that renaming leaves: a shape with renamed names has an entry, and a
\* cycle has been reported.
CapsuleInit ==
  /\ pc = "idle"
  /\ file \in Files /\ indirect \in Indirects
  /\ errors = IF \E n \in Names : indirect[n] = NULL THEN 1 ELSE 0
  /\ opened = {} /\ cap = NULL /\ item = 1
  /\ direct = {} /\ id = [n \in Names |-> 0]
  /\ use = [n \in Names |-> {}] /\ def = [n \in Names |-> NULL]
  /\ idcount = [s \in Shapes |-> 0] /\ list = [s \in Shapes |-> <<>>]
  /\ shapes = {ShapeOf[n] : n \in {m \in Names : indirect[m] # m}}
  /\ idmap = [x \in Capsules \X Shapes \X LocalIds |-> IdMax]
  /\ units = <<>> /\ major = 0 /\ minor = 0 /\ complete = {}
  /\ merged = [n \in Names |-> <<>>]

-----------------------------------------------------------------------------
C == file[cap]

\* Mutant of Throw: the error is not counted.
ThrowSilently == pc' = "idle" /\ UNCHANGED <<errors, opened, cap, item, complete>>

\* A serious error and THROW: the handler of capsule_read returns to its caller.
Throw == SeriousThen("idle") /\ UNCHANGED <<opened, cap, item, complete>>

\* Whether the stream gives out, or is not what is expected, at this item.
Fails == C.fault = [at |-> pc, item |-> item]

\* Mutant of Advance: the loop does not get on.
AdvanceNowhere == UNCHANGED <<pc, errors, item, opened, cap, complete>>

\* The next item of a stage.
Advance == item' = item + 1 /\ UNCHANGED <<pc, errors, opened, cap, complete>>

\* The sequence that a stage reads one by one.
Items ==
  CASE pc = "shapes" -> C.shapes
    [] pc \in {"names", "usage", "token", "tag"} -> C.externs
    [] pc = "units" -> C.units
    [] OTHER -> <<>>

At(stage) == pc = stage /\ ~Fails
AtItem(stage) == At(stage) /\ item <= Len(Items)

\* capsule_create_*_input and the call of capsule_read.
Open(c) ==
  /\ pc = "idle" /\ c \notin opened
  /\ pc' = "header" /\ cap' = c /\ item' = 1 /\ opened' = opened \cup {c}
  /\ UNCHANGED <<errors, fixedVars, tableVars, usageVars, shapes, idmap, units, versionVars,
                 complete>>

\* The stream is malformed here.
Malformed ==
  /\ pc \in Stages /\ Fails
  /\ Throw
  /\ UNCHANGED <<fixedVars, tableVars, usageVars, shapes, idmap, units, versionVars>>

\* Mutant of BadVersion: no comparison with what was read before.
BadVersionAlone(v) == v < 4

\* The first capsule or library decides the major version.
BadVersion(v) == v < 4 \/ (major # 0 /\ major # v)

\* The minor version is the largest one.
capsule_read_header ==
  /\ At("header")
  /\ IF BadVersion(C.major)
     THEN Throw /\ UNCHANGED versionVars
     ELSE /\ pc' = "sets"
          /\ major' = C.major
          /\ minor' = IF major = 0 \/ minor < C.minor THEN C.minor ELSE minor
          /\ UNCHANGED <<errors, opened, cap, item, complete>>
  /\ UNCHANGED <<fixedVars, tableVars, usageVars, shapes, idmap, units>>

\* A "tld2" unit set is an error, but it is read all the same.
capsule_read_unit_set_names ==
  /\ At("sets")
  /\ SeriousErrors(IF C.tld = "tld2" THEN 1 ELSE 0, "shapes")
  /\ UNCHANGED <<fixedVars, opened, cap, item, complete, tableVars, usageVars, shapes, idmap,
                 units, versionVars>>

capsule_read_shapes ==
  LET s == C.shapes[item] IN
  /\ AtItem("shapes")
  /\ shapes' = shapes \cup {s}
  /\ IF \E j \in 1 .. item - 1 : C.shapes[j] = s THEN Throw ELSE Advance
  /\ UNCHANGED <<fixedVars, tableVars, usageVars, idmap, units, versionVars>>

\* Mutant of AddName: the next name gets the same identifier.
AddNameSameId(n) ==
  IF n \in direct
  THEN UNCHANGED tableVars
  ELSE /\ direct' = direct \cup {n}
       /\ id' = [id EXCEPT ![n] = idcount[ShapeOf[n]]]
       /\ idcount' = [idcount EXCEPT ![ShapeOf[n]] = IF @ = 0 THEN 1 ELSE @]
       /\ list' = [list EXCEPT ![ShapeOf[n]] = Append(@, n)]

\* Mutant of AddName: an old name gets a new identifier.
AddNameAgain(n) ==
  /\ direct' = direct \cup {n}
  /\ id' = [id EXCEPT ![n] = idcount[ShapeOf[n]]]
  /\ idcount' = [idcount EXCEPT ![ShapeOf[n]] = @ + 1]
  /\ list' = IF n \in direct THEN list ELSE [list EXCEPT ![ShapeOf[n]] = Append(@, n)]

\* Mutant of AddName: an old name goes to the list again.
AddNameListed(n) ==
  /\ direct' = direct \cup {n}
  /\ id' = IF n \in direct THEN id ELSE [id EXCEPT ![n] = idcount[ShapeOf[n]]]
  /\ idcount' = [idcount EXCEPT ![ShapeOf[n]] = IF n \in direct THEN @ ELSE @ + 1]
  /\ list' = [list EXCEPT ![ShapeOf[n]] = Append(@, n)]

\* name_table_add of a name whose entry is n: a name that has no direct entry
\* yet gets the next identifier of its shape and goes to the end of its list.
AddName(n) ==
  IF n \in direct
  THEN UNCHANGED tableVars
  ELSE /\ direct' = direct \cup {n}
       /\ id' = [id EXCEPT ![n] = idcount[ShapeOf[n]]]
       /\ idcount' = [idcount EXCEPT ![ShapeOf[n]] = @ + 1]
       /\ list' = [list EXCEPT ![ShapeOf[n]] = Append(@, n)]

\* Mutant of NoIdLeft: the identifiers are not limited.
NoIdLeftNever(n) == FALSE

\* shape_entry_next_id exits when the identifiers of the shape are used up.
NoIdLeft(n) == n \notin direct /\ idcount[ShapeOf[n]] = IdMax

\* One external name: its identifier must be in range, and after the name has
\* been entered it must not have been bound before.  The entry of a name in a
\* cycle of renamings is the nil pointer, which name_table_add dereferences.
capsule_read_external_names ==
  LET e == C.externs[item]
      s == ShapeOf[e.name]
      n == indirect[e.name]
  IN /\ AtItem("names")
     /\ \/ /\ e.id >= C.nids[s]
           /\ Throw
           /\ UNCHANGED <<tableVars, idmap>>
        \/ /\ e.id < C.nids[s] /\ n = NULL
           /\ pc' = "crash"
           /\ UNCHANGED <<errors, opened, cap, item, complete, tableVars, idmap>>
        \/ /\ e.id < C.nids[s] /\ n # NULL /\ NoIdLeft(n)
           /\ pc' = "abort"
           /\ UNCHANGED <<errors, opened, cap, item, complete, tableVars, idmap>>
        \/ /\ e.id < C.nids[s] /\ n # NULL /\ ~NoIdLeft(n)
           /\ AddName(n)
           /\ IF idmap[<<cap, s, e.id>>] # IdMax
              THEN Throw /\ UNCHANGED idmap
              ELSE Advance /\ idmap' = [idmap EXCEPT ![<<cap, s, e.id>>] = id'[n]]
     /\ UNCHANGED <<fixedVars, usageVars, shapes, units, versionVars>>

\* Mutant of IllegalUse: multiple definitions need no declaration.
IllegalUseMult(u, need_dec, no_mult) ==
  \/ u \notin SUBSET Bits
  \/ no_mult /\ "MULT" \in u
  \/ need_dec /\ "DECD" \notin u /\ "DEFD" \in u

\* The checks of a usage, in capsules and in library indices.
IllegalUse(u, need_dec, no_mult) ==
  \/ u \notin SUBSET Bits
  \/ no_mult /\ "MULT" \in u
  \/ need_dec /\ "DECD" \notin u /\ u \cap {"DEFD", "MULT"} # {}

\* Mutant of NewDefinition: the last definition counts.
NewDefinitionLast(d, old, u, c) ==
  CASE "DEFD" \in u -> c
    [] "MULT" \in u \cap old /\ "DEFD" \notin u \cup old -> NULL
    [] "MULT" \in u \ old /\ "DEFD" \notin u \cup old -> c
    [] OTHER -> d

\* Mutant of NewDefinition: multiple definitions undo a unique one.
NewDefinitionUndone(d, old, u, c) ==
  CASE "MULT" \in u \cap old /\ "DEFD" \notin u -> NULL
    [] "DEFD" \in u \ old \/ ("MULT" \in u \ old /\ "DEFD" \notin u \cup old) -> c
    [] OTHER -> d

\* The definition of a name of usage old and definition d after usage u is
\* read from the capsule c: two definitions are an error and the first one
\* stays, a definition overrides multiple definitions, and of several
\* multiple definitions none is the definition.
NewDefinition(d, old, u, c) ==
  CASE "MULT" \in u \cap old /\ "DEFD" \notin u \cup old -> NULL
    [] "DEFD" \in u \ old \/ ("MULT" \in u \ old /\ "DEFD" \notin u \cup old) -> c
    [] OTHER -> d

\* A linker information unit of type 1 has the usages of all names; one of type
\* 0, or of the old "tld2" unit set, those of the tokens and then of the tags.
HasUsage(s) ==
  \/ pc = "usage"
  \/ pc = "token" /\ s = Token
  \/ pc = "tag" /\ s = Tag

\* One usage of a linker information unit.
capsule_read_usage ==
  LET e == C.externs[item]
      s == ShapeOf[e.name]
      n == indirect[e.name]
  IN /\ pc \in {"usage", "token", "tag"} /\ AtItem(pc)
     /\ \/ /\ ~HasUsage(s)
           /\ Advance /\ UNCHANGED usageVars
        \/ /\ HasUsage(s)
           /\ IF IllegalUse(e.use, s = Tag, s = Token)
              THEN Throw /\ UNCHANGED usageVars
              ELSE /\ SeriousErrors(IF "DEFD" \in e.use \cap use[n] THEN 1 ELSE 0, pc)
                   /\ item' = item + 1
                   /\ def' = [def EXCEPT ![n] = NewDefinition(@, use[n], e.use, cap)]
                   /\ use' = [use EXCEPT ![n] = @ \cup e.use]
                   /\ merged' = [merged EXCEPT ![n] = Append(@, [cap |-> cap, use |-> e.use])]
                   /\ UNCHANGED <<opened, cap, complete>>
     /\ UNCHANGED <<fixedVars, tableVars, shapes, idmap, units, versionVars>>

\* unit_entry_add_unit: a unit is added before anything of it is read.
unit_entry_add_unit ==
  /\ AtItem("units") /\ C.units[item].op = "unit"
  /\ units' = Append(units, [cap |-> cap, links |-> <<>>,
                             counted |-> C.units[item].counted, whole |-> FALSE])
  /\ Advance
  /\ UNCHANGED <<fixedVars, tableVars, usageVars, shapes, idmap, versionVars>>

\* Mutant of LinkId: an identifier that is not mapped keeps its number.
LinkIdSame(l) ==
  IF idmap[<<cap, l.shape, l.ext>>] = IdMax THEN l.ext ELSE idmap[<<cap, l.shape, l.ext>>]

\* Mutant of LinkId: the map is not consulted.
LinkIdNew(l) == idcount[l.shape]

\* The identifier in the output of the identifier that a link names: a new one
\* if it has none yet.
LinkId(l) ==
  IF idmap[<<cap, l.shape, l.ext>>] = IdMax THEN idcount[l.shape] ELSE idmap[<<cap, l.shape, l.ext>>]

\* One link of a unit: the identifier of the capsule is replaced by its
\* identifier in the output.
capsule_read_unit_maps ==
  LET u == C.units[item]
      old == idmap[<<cap, u.shape, u.ext>>]
      new == LinkId(u)
  IN /\ AtItem("units") /\ u.op = "link"
     /\ \/ /\ u.ext >= C.nids[u.shape]
           /\ Throw
           /\ UNCHANGED <<idcount, idmap, units>>
        \/ /\ u.ext < C.nids[u.shape] /\ new = IdMax
           /\ pc' = "abort"
           /\ UNCHANGED <<errors, opened, cap, item, complete, idcount, idmap, units>>
        \/ /\ u.ext < C.nids[u.shape] /\ new # IdMax
           /\ idcount' = [idcount EXCEPT ![u.shape] = IF old = IdMax THEN @ + 1 ELSE @]
           /\ idmap' = [idmap EXCEPT ![<<cap, u.shape, u.ext>>] = new]
           /\ units' = [units EXCEPT ![Len(units)].links =
                          Append(@, [shape |-> u.shape, ext |-> new])]
           /\ Advance
     /\ UNCHANGED <<fixedVars, direct, id, list, usageVars, shapes, versionVars>>

\* unit_set_contents: the unit is whole.
unit_set_contents ==
  /\ AtItem("units") /\ C.units[item].op = "body"
  /\ units' = [units EXCEPT ![Len(units)].whole = TRUE]
  /\ Advance
  /\ UNCHANGED <<fixedVars, tableVars, usageVars, shapes, idmap, versionVars>>

\* The stages of capsule_read, in order; the linker information unit set comes
\* before the other unit sets.
NextStage ==
  CASE pc = "shapes" -> "names"
    [] pc = "names" /\ C.tld = "tld1" -> "usage"
    [] pc = "names" /\ C.tld \in {"tld0", "tld2"} -> "token"
    [] pc = "token" -> "tag"
    [] pc = "units" -> "eof"
    [] OTHER -> "units"

EndStage ==
  /\ pc \in {"shapes", "names", "usage", "token", "tag", "units"}
  /\ ~Fails /\ item > Len(Items)
  /\ pc' = NextStage /\ item' = 1
  /\ UNCHANGED <<errors, fixedVars, opened, cap, tableVars, usageVars, shapes, idmap, units,
                 versionVars, complete>>

\* tdf_read_eof succeeds.
capsule_read_end ==
  /\ At("eof")
  /\ pc' = "idle" /\ complete' = complete \cup {cap}
  /\ UNCHANGED <<errors, fixedVars, opened, cap, item, tableVars, usageVars, shapes, idmap,
                 units, versionVars>>

\* shape_entry_get_from_list, called between two capsules.
shape_entry_get_from_list(s) ==
  /\ pc = "idle" /\ list[s] # <<>>
  /\ list' = [list EXCEPT ![s] = Tail(@)]
  /\ UNCHANGED <<pc, errors, fixedVars, opened, cap, item, direct, id, idcount, usageVars,
                 shapes, idmap, units, versionVars, complete>>

\* capsule_set_major_version, called for the header of a library.
capsule_set_major_version(v) ==
  /\ pc = "idle" /\ major = 0 /\ v >= 4
  /\ major' = v
  /\ UNCHANGED <<pc, errors, fixedVars, opened, cap, item, tableVars, usageVars, shapes,
                 idmap, units, minor, complete>>

\* A step of capsule_read.
ReadStep ==
  \/ Malformed
  \/ capsule_read_header
  \/ capsule_read_unit_set_names
  \/ capsule_read_shapes
  \/ capsule_read_external_names
  \/ capsule_read_usage
  \/ unit_entry_add_unit
  \/ capsule_read_unit_maps
  \/ unit_set_contents
  \/ EndStage
  \/ capsule_read_end

\* Capsules are opened in any order, and the caller takes names off the lists
\* whenever no capsule is being read.
CapsuleStep ==
  \/ ReadStep
  \/ \E c \in Capsules : Open(c)
  \/ \E s \in Shapes : shape_entry_get_from_list(s)
  \/ \E v \in Majors : capsule_set_major_version(v)

CapsuleEnd ==
  /\ \/ pc \in {"abort", "crash"}
     \/ pc = "idle" /\ opened = Capsules /\ \A s \in Shapes : list[s] = <<>>
  /\ UNCHANGED capsuleVars

CapsuleNext == CapsuleStep \/ CapsuleEnd

CapsuleSpec == CapsuleInit /\ [][CapsuleNext]_capsuleVars /\ WF_capsuleVars(ReadStep)

-----------------------------------------------------------------------------
\* Names of one shape never share an identifier, and an identifier that was
\* given out is below the limit that is written for the shape; it is never
\* UINT_MAX, which the identifier maps use for "none" (shape-entry.c:68).
IdsDistinct ==
  \A m, n \in direct :
     /\ id[n] < idcount[ShapeOf[n]]
     /\ m # n /\ ShapeOf[m] = ShapeOf[n] => id[m] # id[n]

\* In a capsule that was read to the end, the identifier of an external name
\* is mapped to the identifier of that name, after renaming, whichever capsule
\* the name came from first (capsule.c:472).
ExternalIdsAgree ==
  \A c \in complete : \A j \in DOMAIN file[c].externs :
     LET e == file[c].externs[j]
         n == indirect[e.name]
     IN n \in direct /\ idmap[<<c, ShapeOf[e.name], e.id>>] = id[n]

\* The capsule binds the identifier l of shape s to an external name whose entry
\* is n.
Binds(c, s, l, n) ==
  \E j \in DOMAIN file[c].externs :
     LET e == file[c].externs[j] IN e.id = l /\ ShapeOf[e.name] = s /\ indirect[e.name] = n

\* Two identifiers, of one capsule or of two, become the same identifier of the
\* output only if both are bound to the same external name: linking never
\* captures an identifier that is private to a unit, not even when a capsule
\* was abandoned halfway (capsule.c:829).
NoCapture ==
  \A x, y \in DOMAIN idmap :
     x # y /\ x[2] = y[2] /\ idmap[x] # IdMax /\ idmap[x] = idmap[y] =>
       \E n \in direct : /\ id[n] = idmap[x]
                         /\ Binds(x[1], x[2], x[3], n) /\ Binds(y[1], y[2], y[3], n)

\* Links of units stay below the identifier limit of their shape.
LinksInRange ==
  \A j \in DOMAIN units : \A k \in DOMAIN units[j].links :
     LET l == units[j].links[k] IN l.ext < idcount[l.shape]

\* The definition that a sequence of usages amounts to: the first unique
\* definition, else the only multiple definition, else none.
ChosenDefinition(seq) ==
  LET unique == {j \in DOMAIN seq : "DEFD" \in seq[j].use}
      multiple == {j \in DOMAIN seq : "MULT" \in seq[j].use}
  IN CASE unique # {} -> seq[CHOOSE j \in unique : \A k \in unique : j <= k].cap
       [] unique = {} /\ (\E j \in multiple : multiple = {j}) ->
            seq[CHOOSE j \in multiple : TRUE].cap
       [] OTHER -> NULL

\* The definition and the usage of a name depend in this way on everything that
\* was read about it, whatever the order of the capsules and wherever a capsule
\* was abandoned (capsule.c:585).
DefinitionIsChosen ==
  \A n \in Names :
     /\ def[n] = ChosenDefinition(merged[n])
     /\ use[n] = UNION {merged[n][j].use : j \in DOMAIN merged[n]}

\* A name that counts as defined has a defining capsule, so the report of a
\* second definition can name the first one (capsule.c:586).
DefdHasDefinition ==
  \A n \in Names : "DEFD" \in use[n] => def[n] # NULL

\* No token is multiply defined and every tag that is defined is declared,
\* also when its usages come from several capsules (capsule.c:568-577).
LegalUses ==
  \A n \in Names :
     /\ ShapeOf[n] = Token => "MULT" \notin use[n]
     /\ ShapeOf[n] = Tag /\ use[n] \cap {"DEFD", "MULT"} # {} => "DECD" \in use[n]

\* All capsules that were read to their end have the major version that will be
\* written, at least 4, and no minor version above the one written, whatever
\* versions the libraries and the capsules that were abandoned have.
VersionsAgree ==
  \A c \in complete : file[c].major = major /\ major >= 4 /\ file[c].minor <= minor

\* Every name waits in the list of its shape at most once, so a caller that
\* takes names off the lists meets each name once.
ListedOnce ==
  \A s \in Shapes :
     /\ \A j \in DOMAIN list[s] : list[s][j] \in direct /\ ShapeOf[list[s][j]] = s
     /\ \A i, j \in DOMAIN list[s] : list[s][i] = list[s][j] => i = j

\* A name that is defined keeps its definition, and no name loses a usage, its
\* identifier or its entry.
DefinitionIsFinal ==
  [][\A n \in direct :
       /\ n \in direct' /\ id'[n] = id[n] /\ use[n] \subseteq use'[n]
       /\ "DEFD" \in use[n] => def'[n] = def[n]]_capsuleVars

\* Every capsule that is opened is done with, whatever is wrong with it.
ReadingEnds == pc \in Stages ~> pc \in {"idle", "abort", "crash"}
=============================================================================
