--------------------------- MODULE CapsuleProofs ----------------------------
(***************************************************************************)
(* Proofs about the capsule reader, for any number of capsules, names,     *)
(* shapes and identifiers and any capsule files.                           *)
(***************************************************************************)
EXTENDS Capsule, TLAPS

\* While a capsule is being read it is the current one.
ReadingOpened == pc \in Stages => cap \in opened

Typed == CapsuleTypeOK /\ ReadingOpened

USE DEF Stages, Bits, LocalIds

\* What the code that calls the reader does to the reader's state, besides opening
\* capsules and taking names off lists: it reports errors, exits or crashes, and
\* the header of a library may decide the major version (linker.c, builder.c).
CallerStep ==
  /\ pc = "idle" /\ pc' \in {"idle", "abort", "crash"}
  /\ errors' \in Nat /\ errors <= errors'
  /\ major' = major \/ (major = 0 /\ major' \in Nat /\ major' >= 4)
  /\ UNCHANGED <<fixedVars, opened, cap, item, tableVars, usageVars, shapes, idmap, units,
                 minor, complete>>

\* A step of the reader as part of any program: what is proved of these steps
\* holds of the reader alone, of the linker and of the library builder.
ReaderStep ==
  \/ ReadStep
  \/ \E c \in Capsules : Open(c)
  \/ \E s \in Shapes : shape_entry_get_from_list(s)
  \/ CallerStep
  \/ UNCHANGED capsuleVars

\* The reader alone makes no other steps.
LEMMA ReaderSteps == Typed /\ [CapsuleNext]_capsuleVars => ReaderStep
  <1> SUFFICES ASSUME Typed, [CapsuleNext]_capsuleVars PROVE ReaderStep
    OBVIOUS
  <1>1. ASSUME NEW v \in Majors, capsule_set_major_version(v) PROVE CallerStep
    <2>1. v \in Nat /\ errors \in Nat
      BY CapsuleAssumption DEF Typed, CapsuleTypeOK, ControlTypeOK
    <2> QED
      BY <1>1, <2>1 DEF capsule_set_major_version, CallerStep
  <1>2. CASE CapsuleEnd
    BY <1>2 DEF CapsuleEnd, ReaderStep
  <1> QED
    BY <1>1, <1>2 DEF CapsuleNext, CapsuleStep, ReaderStep

-----------------------------------------------------------------------------
\* What is known of the capsule that is being read (capsule.c).
LEMMA CurrentContent ==
  ASSUME Typed, pc \in Stages
  PROVE  /\ cap \in Capsules /\ cap \in opened
         /\ C.major \in Nat /\ C.minor \in Nat
         /\ C.shapes \in Seq(Shapes) /\ C.nids \in [Shapes -> 0 .. MaxLocal]
         /\ C.externs \in Seq(Extern) /\ C.units \in Seq(UnitItem)
  BY CapsuleAssumption DEF Typed, CapsuleTypeOK, ControlTypeOK, ReadingOpened, C, Content

\* The external name that the reader is at.
LEMMA CurrentExtern ==
  ASSUME Typed, pc \in {"names", "usage", "token", "tag"}, AtItem(pc)
  PROVE  /\ C.externs[item].name \in Names /\ C.externs[item].id \in Nat
         /\ ShapeOf[C.externs[item].name] \in Shapes
         /\ indirect[C.externs[item].name] \in Names \cup {NULL}
         /\ indirect[C.externs[item].name] # NULL =>
              ShapeOf[indirect[C.externs[item].name]] = ShapeOf[C.externs[item].name]
  <1>1. C.externs \in Seq(Extern)
    BY CurrentContent
  <1>2. item \in 1 .. Len(C.externs)
    BY <1>1 DEF AtItem, Items, Typed, CapsuleTypeOK, ControlTypeOK
  <1>3. C.externs[item] \in Extern
    BY <1>1, <1>2
  <1>4. C.externs[item].name \in Names /\ C.externs[item].id \in Nat
    BY <1>3 DEF Extern
  <1> QED
    BY <1>4, CapsuleAssumption DEF Typed, CapsuleTypeOK

\* The unit item that the reader is at.
LEMMA CurrentUnit ==
  ASSUME Typed, AtItem("units")
  PROVE  /\ C.units[item].shape \in Shapes /\ C.units[item].ext \in Nat
         /\ C.units[item].counted \subseteq Shapes
  <1>0. pc = "units"
    BY DEF AtItem, At
  <1>1. C.units \in Seq(UnitItem)
    BY <1>0, CurrentContent
  <1>2. item \in 1 .. Len(C.units)
    BY <1>0, <1>1 DEF AtItem, Items, Typed, CapsuleTypeOK, ControlTypeOK
  <1>3. C.units[item] \in UnitItem
    BY <1>1, <1>2
  <1> QED
    BY <1>3 DEF UnitItem

-----------------------------------------------------------------------------
\* The type of a part of the state that a step leaves alone.
LEMMA UnchangedTyped ==
  /\ TablesTypeOK /\ UNCHANGED tableVars => TablesTypeOK'
  /\ UsagesTypeOK /\ UNCHANGED usageVars => UsagesTypeOK'
  /\ UnitsTypeOK /\ UNCHANGED <<idmap, units>> => UnitsTypeOK'
  BY DEF TablesTypeOK, UsagesTypeOK, UnitsTypeOK, tableVars, usageVars

\* The control part of the state keeps its type when errors are counted.
LEMMA ErrorsTyped ==
  ASSUME errors \in Nat, NEW n \in Nat, NEW next, SeriousErrors(n, next)
  PROVE  errors' \in Nat /\ pc' \in {next, "abort"}
  BY MaxErrorsAssumption DEF SeriousErrors

\* What is the same for all steps: ControlInv holds in the next state when an error
\* is thrown or the reader gets on.
ControlInv == ControlTypeOK /\ ReadingOpened

LEMMA ThrowControl == ControlInv /\ Throw => ControlInv'
  <1> SUFFICES ASSUME ControlInv, Throw PROVE ControlInv'
    OBVIOUS
  <1>1. errors' \in Nat /\ pc' \in {"idle", "abort"}
    BY ErrorsTyped DEF Throw, SeriousThen, ControlInv, ControlTypeOK
  <1> QED
    BY <1>1 DEF Throw, ControlInv, ControlTypeOK, ReadingOpened

\* Errors are counted, and the reader gets on in the same stage unless they are
\* too many.
LEMMA CountedControl ==
  ASSUME ControlInv, errors' \in Nat, pc' \in {pc, "abort"}, item' = item + 1,
         UNCHANGED <<opened, cap, complete>>
  PROVE  ControlInv'
  <1>1. item' \in Nat \ {0}
    BY DEF ControlInv, ControlTypeOK
  <1> QED
    BY <1>1 DEF ControlInv, ControlTypeOK, ReadingOpened

LEMMA AdvanceControl == ControlInv /\ Advance => ControlInv'
  BY DEF Advance, ControlInv, ControlTypeOK, ReadingOpened

\* name_table_add keeps the types of the tables.
LEMMA AddNameTyped ==
  ASSUME TablesTypeOK, NEW n \in Names, ~NoIdLeft(n), AddName(n)
  PROVE  TablesTypeOK' /\ n \in direct'
  <1>1. CASE n \in direct
    BY <1>1 DEF AddName, tableVars, TablesTypeOK
  <1>2. CASE n \notin direct
    <2>1. ShapeOf[n] \in Shapes /\ idcount[ShapeOf[n]] \in 0 .. IdMax /\ idcount[ShapeOf[n]] # IdMax
      BY <1>2, CapsuleAssumption DEF NoIdLeft, TablesTypeOK
    <2>2. idcount[ShapeOf[n]] + 1 \in 0 .. IdMax
      BY <2>1, CapsuleAssumption
    <2>3. Append(list[ShapeOf[n]], n) \in Seq(Names)
      BY <2>1 DEF TablesTypeOK
    <2> QED
      BY <1>2, <2>1, <2>2, <2>3 DEF AddName, TablesTypeOK
  <1> QED
    BY <1>1, <1>2

\* A usage that is not illegal consists of the four known bits, and merging it
\* keeps the types (capsule.c:585).
LEMMA NewDefinitionTyped ==
  ASSUME NEW d \in Capsules \cup {NULL}, NEW old, NEW u, NEW c \in Capsules
  PROVE  NewDefinition(d, old, u, c) \in Capsules \cup {NULL}
  BY DEF NewDefinition

\* Replacing an element of a sequence, and adding one to a sequence.
LEMMA ReplaceTyped ==
  ASSUME NEW S, NEW q \in Seq(S), NEW i \in 1 .. Len(q), NEW x \in S
  PROVE  [q EXCEPT ![i] = x] \in Seq(S)
  OBVIOUS

LEMMA AppendTyped ==
  ASSUME NEW D, NEW S, NEW f \in [D -> Seq(S)], NEW n, NEW x \in S
  PROVE  [f EXCEPT ![n] = Append(@, x)] \in [D -> Seq(S)]
  <1>1. CASE n \in D
    <2>1. Append(f[n], x) \in Seq(S)
      BY <1>1
    <2> QED
      BY <1>1, <2>1
  <1>2. CASE n \notin D
    <2>1. [f EXCEPT ![n] = Append(@, x)] = f
      BY <1>2
    <2> QED
      BY <2>1
  <1> QED
    BY <1>1, <1>2

\* The current unit is the last one; its links grow, and at the end it is whole.
LEMMA UnitsExcept ==
  ASSUME units \in Seq(UnitObject)
  PROVE  /\ \A l \in Link :
              [units EXCEPT ![Len(units)].links = Append(@, l)] \in Seq(UnitObject)
         /\ [units EXCEPT ![Len(units)].whole = TRUE] \in Seq(UnitObject)
  <1>1. \A j \in 1 .. Len(units) : units[j] \in UnitObject
    OBVIOUS
  <1>2. ASSUME NEW v \in UnitObject, NEW l \in Link
        PROVE  /\ [v EXCEPT !.links = Append(@, l)] \in UnitObject
               /\ [v EXCEPT !.whole = TRUE] \in UnitObject
    <2>1. Append(v.links, l) \in Seq(Link)
      BY DEF UnitObject
    <2> QED
      BY <2>1 DEF UnitObject
  <1>3. ASSUME NEW v \in UnitObject PROVE [v EXCEPT !.whole = TRUE] \in UnitObject
    BY DEF UnitObject
  <1>4. CASE Len(units) = 0
    <2>1. \A x : [units EXCEPT ![Len(units)] = x] = units
      BY <1>4
    <2> QED
      BY <2>1
  <1>5. CASE Len(units) # 0
    <2>1. Len(units) \in 1 .. Len(units) /\ units[Len(units)] \in UnitObject
      BY <1>1, <1>5
    <2> QED
      BY <1>2, <1>3, <2>1, ReplaceTyped
  <1> QED
    BY <1>4, <1>5

\* Every step of the reader and of its callers keeps the types (capsule.c).
LEMMA NextTyped == Typed /\ ReaderStep => Typed'
  <1> SUFFICES ASSUME Typed, ReaderStep
               PROVE  Typed'
    OBVIOUS
  <1>0. ControlInv /\ TablesTypeOK /\ UsagesTypeOK /\ UnitsTypeOK
    BY DEF Typed, CapsuleTypeOK, ControlInv
  <1> USE UnchangedTyped DEF Typed, CapsuleTypeOK, versionVars, fixedVars
  <1>1. ASSUME NEW c \in Capsules, Open(c) PROVE Typed'
    BY <1>1 DEF Open, ControlTypeOK, ReadingOpened
  <1>2. CASE Malformed
    BY <1>0, <1>2, ThrowControl DEF Malformed, ControlInv
  <1>3. CASE capsule_read_header
    <2>1. C.major \in Nat /\ C.minor \in Nat /\ cap \in opened
      BY <1>3, CurrentContent DEF capsule_read_header, At
    <2>2. CASE BadVersion(C.major)
      BY <1>0, <1>3, <2>2, ThrowControl DEF capsule_read_header, ControlInv
    <2>3. CASE ~BadVersion(C.major)
      BY <1>3, <2>1, <2>3 DEF capsule_read_header, ControlTypeOK, ReadingOpened
    <2> QED
      BY <2>2, <2>3
  <1>4. CASE capsule_read_unit_set_names
    <2>1. errors' \in Nat /\ pc' \in {"shapes", "abort"} /\ cap \in opened
      BY <1>4, ErrorsTyped, CurrentContent DEF capsule_read_unit_set_names, At, ControlTypeOK
    <2> QED
      BY <1>4, <2>1 DEF capsule_read_unit_set_names, ControlTypeOK, ReadingOpened
  <1>5. CASE capsule_read_shapes
    <2>1. pc = "shapes" /\ C.shapes \in Seq(Shapes)
      BY <1>5, CurrentContent DEF capsule_read_shapes, AtItem, At
    <2>2. C.shapes[item] \in Shapes
      BY <1>5, <2>1 DEF capsule_read_shapes, AtItem, Items, ControlTypeOK
    <2>3. ControlInv'
      BY <1>0, <1>5, ThrowControl, AdvanceControl DEF capsule_read_shapes
    <2> QED
      BY <1>5, <2>2, <2>3 DEF capsule_read_shapes, ControlInv
  <1>6. CASE capsule_read_external_names
    <2> DEFINE e == C.externs[item]
               sh == ShapeOf[e.name]
               n == indirect[e.name]
    <2>1. /\ pc = "names" /\ cap \in Capsules /\ C.nids \in [Shapes -> 0 .. MaxLocal]
          /\ e.id \in Nat /\ sh \in Shapes /\ n \in Names \cup {NULL}
      BY <1>6, CurrentContent, CurrentExtern DEF capsule_read_external_names, AtItem, At
    <2>2. CASE pc' \in {"crash", "abort"} /\ UNCHANGED <<errors, opened, cap, item, complete, tableVars, idmap>>
      BY <1>6, <2>2 DEF capsule_read_external_names, ControlTypeOK, ReadingOpened
    <2>3. CASE Throw /\ UNCHANGED <<tableVars, idmap>>
      BY <1>0, <1>6, <2>3, ThrowControl DEF capsule_read_external_names, ControlInv
    <2>4. CASE /\ e.id < C.nids[sh] /\ n # NULL /\ ~NoIdLeft(n) /\ AddName(n)
               /\ IF idmap[<<cap, sh, e.id>>] # IdMax
                  THEN Throw /\ UNCHANGED idmap
                  ELSE Advance /\ idmap' = [idmap EXCEPT ![<<cap, sh, e.id>>] = id'[n]]
      <3>1. n \in Names
        BY <2>1, <2>4
      <3>2. TablesTypeOK'
        BY <1>0, <2>4, <3>1, AddNameTyped
      <3>3. ControlInv'
        BY <1>0, <2>4, ThrowControl, AdvanceControl
      <3>4. id'[n] \in 0 .. IdMax
        BY <3>1, <3>2 DEF TablesTypeOK
      <3>5. idmap' \in [Capsules \X Shapes \X LocalIds -> 0 .. IdMax]
        BY <1>0, <2>4, <3>4 DEF UnitsTypeOK
      <3>6. UnitsTypeOK'
        BY <1>0, <1>6, <3>5 DEF UnitsTypeOK, capsule_read_external_names
      <3> QED
        BY <1>6, <3>2, <3>3, <3>6 DEF capsule_read_external_names, ControlInv
    <2> QED
      BY <1>6, <2>2, <2>3, <2>4 DEF capsule_read_external_names
  <1>7. CASE capsule_read_usage
    <2> DEFINE e == C.externs[item]
               sh == ShapeOf[e.name]
               n == indirect[e.name]
    <2>1. pc \in {"usage", "token", "tag"} /\ cap \in Capsules /\ cap \in opened
      BY <1>7, CurrentContent DEF capsule_read_usage
    <2>2. CASE (Throw \/ Advance) /\ UNCHANGED usageVars
      BY <1>0, <1>7, <2>2, ThrowControl, AdvanceControl DEF capsule_read_usage, ControlInv
    <2>3. CASE /\ ~IllegalUse(e.use, sh = Tag, sh = Token)
               /\ SeriousErrors(IF "DEFD" \in e.use \cap use[n] THEN 1 ELSE 0, pc)
               /\ item' = item + 1
               /\ def' = [def EXCEPT ![n] = NewDefinition(@, use[n], e.use, cap)]
               /\ use' = [use EXCEPT ![n] = @ \cup e.use]
               /\ merged' = [merged EXCEPT ![n] = Append(@, [cap |-> cap, use |-> e.use])]
               /\ UNCHANGED <<opened, cap, complete>>
      <3>1. e.use \in SUBSET Bits
        BY <2>3 DEF IllegalUse
      <3>2. errors' \in Nat /\ pc' \in {pc, "abort"}
        BY <2>3, ErrorsTyped DEF ControlTypeOK
      <3>3. ControlInv'
        BY <1>0, <2>3, <3>2, CountedControl
      <3>4. use' \in [Names -> SUBSET Bits]
        BY <1>0, <2>3, <3>1 DEF UsagesTypeOK
      <3>5. def' \in [Names -> Capsules \cup {NULL}]
        BY <1>0, <2>1, <2>3, NewDefinitionTyped DEF UsagesTypeOK
      <3>6. [cap |-> cap, use |-> e.use] \in [cap : Capsules, use : SUBSET Bits]
        BY <2>1, <3>1
      <3>7. merged' \in [Names -> Seq([cap : Capsules, use : SUBSET Bits])]
        BY <1>0, <2>3, <3>6, AppendTyped DEF UsagesTypeOK
      <3>8. UsagesTypeOK'
        BY <3>4, <3>5, <3>7 DEF UsagesTypeOK
      <3> QED
        BY <1>7, <3>3, <3>8 DEF capsule_read_usage, ControlInv
    <2> QED
      BY <1>7, <2>2, <2>3 DEF capsule_read_usage
  <1>8. CASE unit_entry_add_unit
    <2>1. pc = "units" /\ cap \in Capsules /\ C.units[item].counted \subseteq Shapes
      BY <1>8, CurrentContent, CurrentUnit DEF unit_entry_add_unit, AtItem, At
    <2> DEFINE new == [cap |-> cap, links |-> <<>>, counted |-> C.units[item].counted,
                       whole |-> FALSE]
    <2>2. new \in UnitObject
      BY <2>1 DEF UnitObject
    <2>3. UnitsTypeOK'
      BY <1>0, <1>8, <2>2 DEF UnitsTypeOK, unit_entry_add_unit
    <2>4. ControlInv'
      BY <1>0, <1>8, AdvanceControl DEF unit_entry_add_unit
    <2> QED
      BY <1>8, <2>3, <2>4 DEF unit_entry_add_unit, ControlInv
  <1>9. CASE capsule_read_unit_maps
    <2> DEFINE u == C.units[item]
               old == idmap[<<cap, u.shape, u.ext>>]
    <2>1. /\ pc = "units" /\ cap \in Capsules /\ u.shape \in Shapes /\ u.ext \in Nat
          /\ C.nids \in [Shapes -> 0 .. MaxLocal]
      BY <1>9, CurrentContent, CurrentUnit DEF capsule_read_unit_maps, AtItem, At
    <2>2. CASE pc' = "abort" /\ UNCHANGED <<errors, opened, cap, item, complete, idcount, idmap, units>>
      BY <1>9, <2>2 DEF capsule_read_unit_maps, ControlTypeOK, ReadingOpened, tableVars
    <2>3. CASE Throw /\ UNCHANGED <<idcount, idmap, units>>
      BY <1>0, <1>9, <2>3, ThrowControl DEF capsule_read_unit_maps, ControlInv, tableVars
    <2>4. CASE /\ u.ext < C.nids[u.shape] /\ LinkId(u) # IdMax
               /\ idcount' = [idcount EXCEPT ![u.shape] = IF old = IdMax THEN @ + 1 ELSE @]
               /\ idmap' = [idmap EXCEPT ![<<cap, u.shape, u.ext>>] = LinkId(u)]
               /\ units' = [units EXCEPT ![Len(units)].links =
                              Append(@, [shape |-> u.shape, ext |-> LinkId(u)])]
               /\ Advance
      <3>1. u.ext \in LocalIds
        BY <2>1, <2>4, CapsuleAssumption
      <3>2. idcount[u.shape] \in 0 .. IdMax /\ old \in 0 .. IdMax
        BY <1>0, <2>1, <3>1 DEF TablesTypeOK, UnitsTypeOK
      <3>3. LinkId(u) \in 0 .. IdMax /\ (old = IdMax => idcount[u.shape] # IdMax)
        BY <2>4, <3>2 DEF LinkId
      <3>4. idcount' \in [Shapes -> 0 .. IdMax]
        <4>1. old = IdMax => idcount[u.shape] + 1 \in 0 .. IdMax
          BY <3>2, <3>3, CapsuleAssumption
        <4> QED
          BY <1>0, <2>1, <2>4, <4>1 DEF TablesTypeOK
      <3>5. TablesTypeOK'
        BY <1>0, <1>9, <3>4 DEF TablesTypeOK, capsule_read_unit_maps
      <3>6. idmap' \in [Capsules \X Shapes \X LocalIds -> 0 .. IdMax]
        BY <1>0, <2>1, <2>4, <3>1, <3>3 DEF UnitsTypeOK
      <3>7. [shape |-> u.shape, ext |-> LinkId(u)] \in Link
        BY <2>1, <3>3 DEF Link
      <3>8. units' \in Seq(UnitObject)
        BY <1>0, <2>4, <3>7, UnitsExcept DEF UnitsTypeOK
      <3>9. UnitsTypeOK'
        BY <3>6, <3>8 DEF UnitsTypeOK
      <3>10. ControlInv'
        BY <1>0, <2>4, AdvanceControl
      <3> QED
        BY <1>9, <3>5, <3>9, <3>10 DEF capsule_read_unit_maps, ControlInv
    <2> QED
      BY <1>9, <2>2, <2>3, <2>4 DEF capsule_read_unit_maps
  <1>10. CASE unit_set_contents
    <2>1. units' \in Seq(UnitObject)
      BY <1>0, <1>10, UnitsExcept DEF UnitsTypeOK, unit_set_contents
    <2>2. UnitsTypeOK'
      BY <1>0, <1>10, <2>1 DEF UnitsTypeOK, unit_set_contents
    <2>3. ControlInv'
      BY <1>0, <1>10, AdvanceControl DEF unit_set_contents
    <2> QED
      BY <1>10, <2>2, <2>3 DEF unit_set_contents, ControlInv
  <1>11. CASE EndStage
    <2>1. pc' \in Stages /\ cap \in opened
      BY <1>11, CurrentContent DEF EndStage, NextStage
    <2> QED
      BY <1>11, <2>1 DEF EndStage, ControlTypeOK, ReadingOpened
  <1>12. CASE capsule_read_end
    <2>1. cap \in opened
      BY <1>12, CurrentContent DEF capsule_read_end, At
    <2> QED
      BY <1>12, <2>1 DEF capsule_read_end, ControlTypeOK, ReadingOpened
  <1>13. ASSUME NEW s \in Shapes, shape_entry_get_from_list(s) PROVE Typed'
    <2>1. Tail(list[s]) \in Seq(Names)
      BY <1>13 DEF shape_entry_get_from_list, TablesTypeOK
    <2>2. TablesTypeOK'
      BY <1>13, <2>1 DEF shape_entry_get_from_list, TablesTypeOK
    <2> QED
      BY <1>13, <2>2 DEF shape_entry_get_from_list, ControlTypeOK, ReadingOpened
  <1>14. CASE CallerStep
    BY <1>14 DEF CallerStep, ControlTypeOK, ReadingOpened
  <1>15. CASE UNCHANGED capsuleVars
    BY <1>15 DEF capsuleVars, ControlTypeOK, ReadingOpened, tableVars, usageVars
  <1> QED
    BY <1>1, <1>2, <1>3, <1>4, <1>5, <1>6, <1>7, <1>8, <1>9, <1>10, <1>11, <1>12,
       <1>13, <1>14, <1>15 DEF ReaderStep, ReadStep

LEMMA InitTyped == CapsuleInit => Typed
  <1> SUFFICES ASSUME CapsuleInit PROVE Typed
    OBVIOUS
  <1>1. ControlTypeOK /\ ReadingOpened
    BY DEF CapsuleInit, ControlTypeOK, ReadingOpened
  <1>2. TablesTypeOK
    BY CapsuleAssumption DEF CapsuleInit, TablesTypeOK
  <1>3. UsagesTypeOK
    BY DEF CapsuleInit, UsagesTypeOK
  <1>4. UnitsTypeOK
    BY CapsuleAssumption DEF CapsuleInit, UnitsTypeOK
  <1>5. shapes \subseteq Shapes
    BY CapsuleAssumption DEF CapsuleInit
  <1> QED
    BY <1>1, <1>2, <1>3, <1>4, <1>5 DEF Typed, CapsuleTypeOK, CapsuleInit

\* The type invariant of the reader: in particular no identifier count passes
\* UINT_MAX (shape-entry.c:68), for any number of names and any limit.
THEOREM CapsuleTypeInvariant == CapsuleSpec => []CapsuleTypeOK
  <1>1. CapsuleInit => Typed
    BY InitTyped
  <1>2. Typed /\ [CapsuleNext]_capsuleVars => Typed'
    BY NextTyped, ReaderSteps
  <1>3. Typed => CapsuleTypeOK
    BY DEF Typed
  <1> QED
    BY <1>1, <1>2, <1>3, PTL DEF CapsuleSpec
=============================================================================
