---------------------------- MODULE BuilderProofs ---------------------------
(***************************************************************************)
(* Proofs about the library builder and the extractor, for any libraries,  *)
(* input files, names and command lines.  Until definitions are suppressed *)
(* every step of the builder is a step of the reader as far as the         *)
(* reader's state goes; after that no capsule is read.                     *)
(***************************************************************************)
EXTENDS Extract, CapsuleUseProofs, FiniteSetTheorems

USE DEF Stages, Bits, LocalIds

BuildPhases == {"libs", "names", "open", "store", "check", "suppress", "write", "done"}

\* A place of the vector of capsules holds a capsule, or one without a name.
Places == Capsules \cup {NULL}

BuildTypeOK ==
  /\ bargs \in BuildArgs
  /\ phase \in BuildPhases
  /\ next \in Nat \ {0} /\ num_capsules \in Nat
  /\ included \in Seq(Places) /\ todo \in Seq(Places) /\ vector \in Seq(Places)
  /\ phase \in {"open", "store"} => todo # <<>>
  /\ pc \in Stages => phase = "store"

\* The table of names is finite, so the errors of a check can be counted.
BuildTyped == Typed /\ IsFiniteSet(direct) /\ BuildTypeOK

-----------------------------------------------------------------------------
\* What is known of the command line.
LEMMA BuildArgTyped ==
  ASSUME NEW a \in BuildArgs
  PROVE  /\ a.libs \in Seq(IncludedLibrary) /\ a.inputs \in Seq(Capsules)
         /\ \A j \in DOMAIN a.libs :
               /\ a.libs[j].major \in Nat /\ a.libs[j].caps \in Seq(Capsules)
               /\ a.libs[j].cut \in Nat /\ a.libs[j].cut <= Len(a.libs[j].caps)
  <1>1. a.libs \in Seq(IncludedLibrary) /\ a.inputs \in Seq(Capsules)
    BY BuilderAssumption DEF BuildArg
  <1>2. \A j \in DOMAIN a.libs : a.libs[j] \in IncludedLibrary
    BY <1>1
  <1> QED
    BY <1>1, <1>2, BuilderAssumption DEF IncludedLibrary

\* The caller of the reader reports errors, exits, or crashes.
LEMMA BuilderErrors ==
  ASSUME Typed, pc = "idle", UNCHANGED readerVars, NEW n \in Nat, SeriousErrors(n, "idle")
  PROVE  CallerStep
  <1>1. errors \in Nat
    BY DEF Typed, CapsuleTypeOK, ControlTypeOK
  <1>2. errors' \in Nat /\ errors <= errors' /\ pc' \in {"idle", "abort", "crash"}
    BY <1>1 DEF SeriousErrors
  <1> QED
    BY <1>2 DEF CallerStep, readerVars, fixedVars, versionVars

LEMMA BuilderExit ==
  ASSUME Typed, pc = "idle", pc' \in {"idle", "abort", "crash"}, errors' = errors,
         UNCHANGED readerVars
  PROVE  CallerStep
  <1>1. errors \in Nat
    BY DEF Typed, CapsuleTypeOK, ControlTypeOK
  <1> QED
    BY <1>1 DEF CallerStep, readerVars, fixedVars, versionVars

\* The capsules with the same name as another one can be counted (builder.c:88).
LEMMA NamesakesCounted ==
  ASSUME vector \in Seq(Places), NEW x
  PROVE  /\ IsFiniteSet({k \in DOMAIN vector : CapName[vector[k]] = x})
         /\ Cardinality({k \in DOMAIN vector : CapName[vector[k]] = x}) \in Nat
         /\ Cardinality({k \in DOMAIN vector : CapName[vector[k]] = x}) = 0 <=>
              \A k \in DOMAIN vector : CapName[vector[k]] # x
  <1> DEFINE S == {k \in DOMAIN vector : CapName[vector[k]] = x}
  <1>1. IsFiniteSet(1 .. Len(vector)) /\ S \subseteq 1 .. Len(vector)
    BY FS_Interval
  <1>2. IsFiniteSet(S)
    BY <1>1, FS_Subset
  <1>3. Cardinality(S) \in Nat /\ (Cardinality(S) = 0 <=> S = {})
    BY <1>2, FS_CardinalityType, FS_EmptySet
  <1> QED
    BY <1>2, <1>3

\* As far as the reader's state goes, the builder makes steps of the reader, and
\* one that suppresses definitions.
LEMMA BuilderSteps ==
  ASSUME BuildTyped, [BuilderNext]_builderVars
  PROVE  ReaderStep \/ builder_suppress
  <1>0. /\ Typed /\ bargs \in BuildArgs /\ next \in Nat \ {0} /\ IsFiniteSet(direct)
        /\ vector \in Seq(Places) /\ errors \in Nat
    BY DEF BuildTyped, BuildTypeOK, Typed, CapsuleTypeOK, ControlTypeOK
  <1>a. ASSUME CallerStep PROVE ReaderStep
    BY <1>a DEF ReaderStep
  <1>1. CASE builder_read_library
    <2>1. PICK lib : lib = bargs.libs[next]
      OBVIOUS
    <2>2. next \in DOMAIN bargs.libs
      <3>1. bargs.libs \in Seq(IncludedLibrary) /\ next <= Len(bargs.libs)
        BY <1>0, <1>1, BuildArgTyped DEF builder_read_library
      <3> QED
        BY <1>0, <3>1
    <2>3. lib.major \in Nat
      BY <1>0, <2>1, <2>2, BuildArgTyped
    <2>4. major' = major \/ (major = 0 /\ major' = lib.major /\ ~BadVersion(lib.major))
      BY <1>1, <2>1 DEF builder_read_library
    <2>5. major' = major \/ (major = 0 /\ major' \in Nat /\ major' >= 4)
      BY <2>3, <2>4 DEF BadVersion
    <2>6. pc = "idle" /\ (SeriousErrors(0, "idle") \/ SeriousErrors(1, "idle"))
      BY <1>1 DEF builder_read_library, In
    <2>7. errors' \in Nat /\ errors <= errors' /\ pc' \in {"idle", "abort", "crash"}
      BY <1>0, <2>6 DEF SeriousErrors
    <2>8. UNCHANGED <<fixedVars, opened, cap, item, tableVars, usageVars, shapes, idmap, units,
                      minor, complete>>
      BY <1>1 DEF builder_read_library
    <2> QED
      BY <1>a, <2>5, <2>6, <2>7, <2>8 DEF CallerStep
  <1>2. CASE EndLibraries \/ StoreCapsule \/ EndCapsules \/ BuilderEnd \/ UNCHANGED builderVars
    BY <1>2 DEF EndLibraries, StoreCapsule, EndCapsules, BuilderEnd, builderVars, ReaderStep
  <1>3. CASE CannotOpen
    BY <1>0, <1>a, <1>3, BuilderErrors DEF CannotOpen, In, SeriousThen
  <1>4. CASE CheckNames
    <2>1. pc = "idle" /\ UNCHANGED readerVars
      BY <1>4 DEF CheckNames, In
    <2>2. CASE pc' = "crash" /\ UNCHANGED errors
      BY <1>0, <1>a, <2>1, <2>2, BuilderExit
    <2>3. CASE SeriousErrors(Cardinality({k \in DOMAIN vector :
                                            CapName[vector[k]] = CapName[Head(todo)]}), "idle")
      BY <1>0, <1>a, <2>1, <2>3, BuilderErrors, NamesakesCounted
    <2> QED
      BY <1>4, <2>2, <2>3 DEF CheckNames
  <1>5. CASE ReadCapsule
    <2>1. Head(todo) \in Places
      <3>1. todo \in Seq(Places) /\ todo # <<>>
        BY <1>5 DEF ReadCapsule, In, BuildTyped, BuildTypeOK
      <3> QED
        BY <3>1
    <2>2. CASE Head(todo) = NULL
      BY <1>0, <1>a, <1>5, <2>2, BuilderErrors DEF ReadCapsule, In, SeriousThen
    <2>3. CASE Head(todo) # NULL
      <3>1. Head(todo) \in Capsules /\ Open(Head(todo))
        BY <1>5, <2>1, <2>3 DEF ReadCapsule, Places
      <3> QED
        BY <3>1 DEF ReaderStep
    <2> QED
      BY <2>2, <2>3
  <1>6. CASE builder_check_multi_defs
    <2>1. IsFiniteSet({n \in direct : NoSingleDefinition(n)})
      BY <1>0, FS_Subset
    <2>2. Cardinality({n \in direct : NoSingleDefinition(n)}) \in Nat
      BY <2>1, FS_CardinalityType
    <2> QED
      BY <1>0, <1>a, <1>6, <2>2, BuilderErrors DEF builder_check_multi_defs, In
  <1>7. CASE builder_write_library
    <2>1. pc = "idle" /\ pc' \in {"idle", "abort", "crash"} /\ errors' = errors /\ UNCHANGED readerVars
      BY <1>7 DEF builder_write_library, In
    <2> QED
      BY <1>0, <1>a, <2>1, BuilderExit
  <1>8. CASE ReadStep
    BY <1>8 DEF ReaderStep
  <1> QED
    BY <1>1, <1>2, <1>3, <1>4, <1>5, <1>6, <1>7, <1>8 DEF BuilderNext, BuilderStep, BuildStep

-----------------------------------------------------------------------------
\* The table of names grows by one name at a time.
LEMMA NextFinite ==
  ASSUME Typed, IsFiniteSet(direct), ReaderStep
  PROVE  IsFiniteSet(direct')
  <1>1. CASE capsule_read_external_names
    <2>1. direct' = direct \/ \E n : direct' = direct \cup {n}
      BY <1>1 DEF capsule_read_external_names, AddName, tableVars
    <2> QED
      BY <2>1, FS_AddElement
  <1>2. CASE direct' = direct
    BY <1>2
  <1> QED
    BY <1>1, <1>2, ListSteps DEF shape_entry_get_from_list

\* Suppressing definitions changes nothing else (builder.c:209).
LEMMA SuppressTyped == Typed /\ builder_suppress => Typed'
  <1> SUFFICES ASSUME Typed, builder_suppress PROVE Typed'
    OBVIOUS
  <1>1. UNCHANGED <<pc, errors, fixedVars, opened, cap, item, tableVars, use, merged, shapes, idmap,
                    units, versionVars, complete>>
    BY DEF builder_suppress
  <1>2. def' \in [Names -> Capsules \cup {NULL}]
    BY DEF builder_suppress, Typed, CapsuleTypeOK, UsagesTypeOK
  <1>3. UsagesTypeOK'
    BY <1>1, <1>2 DEF Typed, CapsuleTypeOK, UsagesTypeOK
  <1>4. ControlTypeOK' /\ ReadingOpened'
    BY <1>1 DEF Typed, CapsuleTypeOK, ControlTypeOK, ReadingOpened
  <1>5. TablesTypeOK' /\ UnitsTypeOK'
    BY <1>1, UnchangedTyped DEF Typed, CapsuleTypeOK
  <1> QED
    BY <1>1, <1>3, <1>4, <1>5 DEF Typed, CapsuleTypeOK, fixedVars, versionVars

LEMMA SeqConcat ==
  ASSUME NEW S, NEW q \in Seq(S), NEW r \in Seq(S)
  PROVE  q \o r \in Seq(S)
  OBVIOUS

\* Every step of the builder keeps the types of its variables (builder.c).
LEMMA NextBuildTypeOK ==
  ASSUME BuildTyped, [BuilderNext]_builderVars
  PROVE  BuildTypeOK'
  <1>0. /\ bargs \in BuildArgs /\ next \in Nat \ {0} /\ num_capsules \in Nat
        /\ included \in Seq(Places) /\ todo \in Seq(Places) /\ vector \in Seq(Places)
        /\ Capsules \subseteq Places
        /\ pc \in Stages => phase = "store"
        /\ phase \in BuildPhases /\ (phase \in {"open", "store"} => todo # <<>>)
    BY DEF BuildTyped, BuildTypeOK, Places
  <1> USE DEF BuildPhases
  <1>1. CASE builder_read_library
    <2>1. PICK lib : lib = bargs.libs[next]
      OBVIOUS
    <2>2. next \in DOMAIN bargs.libs
      <3>1. bargs.libs \in Seq(IncludedLibrary) /\ next <= Len(bargs.libs)
        BY <1>0, <1>1, BuildArgTyped DEF builder_read_library
      <3> QED
        BY <1>0, <3>1
    <2>3. lib.caps \in Seq(Capsules)
      BY <1>0, <2>1, <2>2, BuildArgTyped
    <2>4. Delivered(lib) \in Seq(Places)
      <3>1. \A k \in 1 .. Len(lib.caps) : lib.caps[k] \in Capsules
        BY <2>3
      <3>2. Delivered(lib) \in [1 .. Len(lib.caps) -> Places]
        BY <3>1 DEF Delivered, Places
      <3>3. Len(lib.caps) \in Nat
        BY <2>3
      <3> QED
        BY <3>2, <3>3
    <2>5. included' \in {included, included \o Delivered(lib)}
      BY <1>1, <2>1 DEF builder_read_library
    <2>6. included' \in Seq(Places)
      BY <1>0, <2>4, <2>5, SeqConcat
    <2>7. phase = "libs" /\ next' = next + 1 /\ UNCHANGED <<bargs, phase, num_capsules, todo, vector>>
      BY <1>1 DEF builder_read_library, In
    <2>8. pc' \notin Stages
      BY <1>1 DEF builder_read_library, SeriousErrors
    <2> QED
      BY <1>0, <2>6, <2>7, <2>8 DEF BuildTypeOK
  <1>2. CASE EndLibraries
    <2>1. bargs.inputs \in Seq(Places)
      <3>1. bargs.inputs \in Seq(Capsules)
        BY <1>0, BuildArgTyped
      <3> QED
        BY <1>0, <3>1
    <2>2. included \o bargs.inputs \in Seq(Places)
      BY <1>0, <2>1, SeqConcat
    <2>3. Len(included) + Len(bargs.inputs) \in Nat
      BY <1>0, <2>1
    <2>4. /\ phase' = "names" /\ num_capsules' = Len(included) + Len(bargs.inputs)
          /\ todo' = included \o bargs.inputs /\ pc' = "idle"
          /\ UNCHANGED <<bargs, next, included, vector>>
      BY <1>2 DEF EndLibraries, In, capsuleVars
    <2> QED
      BY <1>0, <2>2, <2>3, <2>4 DEF BuildTypeOK
  <1>3. CASE CannotOpen
    <2>1. Tail(todo) \in Seq(Places)
      BY <1>0, <1>3 DEF CannotOpen
    <2> QED
      BY <1>0, <1>3, <2>1 DEF CannotOpen, In, SeriousThen, SeriousErrors, BuildTypeOK
  <1>4. CASE CheckNames
    <2>1. /\ phase' = "open" /\ todo # <<>> /\ pc' \notin Stages
          /\ UNCHANGED <<bargs, next, included, num_capsules, todo, vector>>
      BY <1>4 DEF CheckNames, SeriousErrors
    <2> QED
      BY <1>0, <2>1 DEF BuildTypeOK
  <1>5. CASE ReadCapsule
    BY <1>0, <1>5 DEF ReadCapsule, In, BuildTypeOK
  <1>6. CASE StoreCapsule
    <2>1. todo # <<>> /\ pc' = "idle" /\ phase' = "names" /\ UNCHANGED <<bargs, next, included, num_capsules>>
          /\ vector' = Append(vector, Head(todo)) /\ todo' = Tail(todo)
      BY <1>0, <1>6 DEF StoreCapsule, In, capsuleVars
    <2>2. Head(todo) \in Places /\ Tail(todo) \in Seq(Places)
      BY <1>0, <2>1
    <2>3. Append(vector, Head(todo)) \in Seq(Places)
      BY <1>0, <2>2
    <2> QED
      BY <1>0, <2>1, <2>2, <2>3 DEF BuildTypeOK
  <1>7. CASE EndCapsules
    BY <1>0, <1>7 DEF EndCapsules, In, capsuleVars, BuildTypeOK
  <1>8. CASE builder_check_multi_defs
    BY <1>0, <1>8 DEF builder_check_multi_defs, In, SeriousErrors, BuildTypeOK
  <1>9. CASE builder_suppress \/ builder_write_library
    <2>1. /\ phase' \in {"write", "done"} /\ pc' \notin Stages
          /\ UNCHANGED <<bargs, next, included, num_capsules, todo, vector>>
      BY <1>9 DEF builder_suppress, builder_write_library, In
    <2> QED
      BY <1>0, <2>1 DEF BuildTypeOK
  <1>10. CASE ReadStep /\ UNCHANGED buildVars
    <2>1. pc \in Stages
      BY <1>10 DEF ReadStep, Malformed, capsule_read_header, capsule_read_unit_set_names,
         capsule_read_shapes, capsule_read_external_names, capsule_read_usage,
         unit_entry_add_unit, capsule_read_unit_maps, unit_set_contents, EndStage,
         capsule_read_end, AtItem, At
    <2> QED
      BY <1>0, <1>10, <2>1 DEF buildVars, BuildTypeOK
  <1>11. CASE BuilderEnd \/ UNCHANGED builderVars
    <2>1. UNCHANGED <<pc, buildVars>>
      BY <1>11 DEF BuilderEnd, builderVars, capsuleVars
    <2> QED
      BY <1>0, <2>1 DEF buildVars, BuildTypeOK
  <1> QED
    BY <1>1, <1>2, <1>3, <1>4, <1>5, <1>6, <1>7, <1>8, <1>9, <1>10, <1>11
    DEF BuilderNext, BuilderStep, BuildStep

LEMMA NextBuildTyped == BuildTyped /\ [BuilderNext]_builderVars => BuildTyped'
  <1> SUFFICES ASSUME BuildTyped, [BuilderNext]_builderVars PROVE BuildTyped'
    OBVIOUS
  <1>1. Typed /\ IsFiniteSet(direct)
    BY DEF BuildTyped
  <1>2. CASE ReaderStep
    BY <1>1, <1>2, NextTyped, NextFinite, NextBuildTypeOK DEF BuildTyped
  <1>3. CASE builder_suppress
    <2>1. direct' = direct
      BY <1>3 DEF builder_suppress, tableVars
    <2> QED
      BY <1>1, <1>3, <2>1, SuppressTyped, NextBuildTypeOK DEF BuildTyped
  <1> QED
    BY <1>2, <1>3, BuilderSteps

LEMMA InitBuildTyped == BuilderInit => BuildTyped
  <1> SUFFICES ASSUME BuilderInit PROVE BuildTyped
    OBVIOUS
  <1>1. Typed
    BY InitTyped DEF BuilderInit
  <1>2. IsFiniteSet(direct)
    BY FS_EmptySet DEF BuilderInit, CapsuleInit
  <1> QED
    BY <1>1, <1>2 DEF BuilderInit, CapsuleInit, BuildTyped, BuildTypeOK, BuildPhases

-----------------------------------------------------------------------------
\* Nothing is renamed when a library is built (builder.c:239).
LEMMA NotRenamed == Typed => \A n \in Names : indirect[n] = n
  BY BuilderAssumption DEF Typed, CapsuleTypeOK

\* A usage that is merged: from where, into what, and what becomes of the
\* definition (capsule.c:560-598).
LEMMA UsageMerged ==
  ASSUME Typed, capsule_read_usage, NEW e, e = C.externs[item]
  PROVE  /\ item \in DOMAIN C.externs /\ e.name \in Names /\ ShapeOf[e.name] \in Shapes
         /\ \/ UNCHANGED usageVars
            \/ /\ HasUsage(ShapeOf[e.name])
               /\ use' = [use EXCEPT ![e.name] = @ \cup e.use]
               /\ def' = [def EXCEPT ![e.name] = NewDefinition(@, use[e.name], e.use, cap)]
  <1>1. pc \in {"usage", "token", "tag"} /\ AtItem(pc)
    BY DEF capsule_read_usage
  <1>2. e.name \in Names /\ ShapeOf[e.name] \in Shapes
    BY <1>1, CurrentExtern
  <1>3. item \in DOMAIN C.externs
    <2>1. C.externs \in Seq(Extern) /\ item \in Nat \ {0}
      BY <1>1, CurrentContent DEF Typed, CapsuleTypeOK, ControlTypeOK
    <2>2. item <= Len(C.externs)
      BY <1>1 DEF AtItem, Items
    <2> QED
      BY <2>1, <2>2
  <1>4. indirect[e.name] = e.name
    BY <1>2, NotRenamed
  <1>5. \/ UNCHANGED usageVars
        \/ /\ HasUsage(ShapeOf[e.name])
           /\ use' = [use EXCEPT ![indirect[e.name]] = @ \cup e.use]
           /\ def' = [def EXCEPT ![indirect[e.name]] =
                        NewDefinition(@, use[indirect[e.name]], e.use, cap)]
    BY DEF capsule_read_usage
  <1> QED
    BY <1>2, <1>3, <1>4, <1>5

\* The linker information that is being read is what the header promised.
InfoRead ==
  /\ pc = "usage" => C.tld = "tld1"
  /\ pc \in {"token", "tag"} => C.tld \in {"tld0", "tld2"}

\* The usage that capsule c gives for its external name j has been merged.
IsMerged(c, j) == file[c].externs[j].use \subseteq use[file[c].externs[j].name]

\* The capsule gives a usage for its external name j.
Told(c, j) == Tells(c, file[c].externs[j].name)

OfShape(c, j, s) == ShapeOf[file[c].externs[j].name] = s

\* All usages that a capsule tells have been merged, of the current capsule as
\* far as it was read and of all that were read to the end.
MergedInv ==
  /\ pc = "usage" => \A j \in DOMAIN C.externs : j < item => IsMerged(cap, j)
  /\ pc = "token" =>
       \A j \in DOMAIN C.externs : j < item /\ OfShape(cap, j, Token) => IsMerged(cap, j)
  /\ pc = "tag" =>
       \A j \in DOMAIN C.externs :
          OfShape(cap, j, Token) \/ (j < item /\ OfShape(cap, j, Tag)) => IsMerged(cap, j)
  /\ pc \in {"units", "eof"} =>
       \A j \in DOMAIN C.externs : Told(cap, j) => IsMerged(cap, j)
  /\ \A c \in complete : \A j \in DOMAIN file[c].externs :
       Told(c, j) => IsMerged(c, j)

\* A definition is a capsule that was opened and that defines the name.
DefinesInv ==
  \A n \in Names : def[n] # NULL =>
     def[n] \in opened /\ Definer(def[n], n) /\ use[n] \cap {"DEFD", "MULT"} # {}

LEMMA ReaderKeeps == ReaderStep => file' = file /\ opened \subseteq opened'
  <1> SUFFICES ASSUME ReaderStep PROVE file' = file /\ opened \subseteq opened'
    OBVIOUS
  <1> USE DEF fixedVars, Throw, Advance
  <1>1. CASE Malformed \/ capsule_read_header \/ capsule_read_unit_set_names \/ capsule_read_shapes
    BY <1>1 DEF Malformed, capsule_read_header, capsule_read_unit_set_names, capsule_read_shapes
  <1>2. CASE capsule_read_external_names
    BY <1>2 DEF capsule_read_external_names
  <1>3. CASE capsule_read_usage
    BY <1>3 DEF capsule_read_usage
  <1>4. CASE unit_entry_add_unit \/ capsule_read_unit_maps \/ unit_set_contents
    BY <1>4 DEF unit_entry_add_unit, capsule_read_unit_maps, unit_set_contents
  <1>5. CASE EndStage \/ capsule_read_end
    BY <1>5 DEF EndStage, capsule_read_end
  <1>6. CASE (\E c \in Capsules : Open(c)) \/ (\E s \in Shapes : shape_entry_get_from_list(s))
    BY <1>6 DEF Open, shape_entry_get_from_list
  <1>7. CASE CallerStep \/ UNCHANGED capsuleVars
    BY <1>7 DEF CallerStep, capsuleVars
  <1> QED
    BY <1>1, <1>2, <1>3, <1>4, <1>5, <1>6, <1>7 DEF ReaderStep, ReadStep

\* The stages of linker information: which come next.
LEMMA NextInfoRead ==
  ASSUME InfoRead, ReaderStep
  PROVE  InfoRead'
  <1>1. CASE EndStage
    <2>1. UNCHANGED <<file, cap>> /\ pc' = NextStage
      BY <1>1 DEF EndStage, fixedVars
    <2> QED
      BY <2>1 DEF NextStage, InfoRead, C
  <1>2. CASE pc' \notin {"usage", "token", "tag"}
    BY <1>2 DEF InfoRead
  <1>3. CASE UNCHANGED <<pc, file, cap>>
    BY <1>3 DEF InfoRead, C
  <1> USE DEF fixedVars, Throw, Advance, SeriousThen, SeriousErrors
  <1>4. CASE Malformed \/ capsule_read_header \/ capsule_read_unit_set_names \/ capsule_read_shapes
    BY <1>2, <1>3, <1>4
    DEF Malformed, capsule_read_header, capsule_read_unit_set_names, capsule_read_shapes
  <1>5. CASE capsule_read_external_names
    BY <1>2, <1>3, <1>5 DEF capsule_read_external_names
  <1>6. CASE capsule_read_usage
    <2>1. pc' \in {"idle", "abort"} \/ UNCHANGED <<pc, file, cap>>
      BY <1>6 DEF capsule_read_usage
    <2> QED
      BY <1>2, <1>3, <2>1
  <1>7. CASE unit_entry_add_unit \/ capsule_read_unit_maps \/ unit_set_contents
    BY <1>2, <1>3, <1>7 DEF unit_entry_add_unit, capsule_read_unit_maps, unit_set_contents
  <1>8. CASE capsule_read_end
    BY <1>2, <1>8 DEF capsule_read_end
  <1>9. CASE (\E c \in Capsules : Open(c)) \/ (\E s \in Shapes : shape_entry_get_from_list(s))
    BY <1>2, <1>3, <1>9 DEF Open, shape_entry_get_from_list
  <1>10. CASE CallerStep \/ UNCHANGED capsuleVars
    BY <1>2, <1>3, <1>10 DEF CallerStep, capsuleVars
  <1> QED
    BY <1>1, <1>4, <1>5, <1>6, <1>7, <1>8, <1>9, <1>10 DEF ReaderStep, ReadStep

\* The reader makes a capsule the definition of a name only if it says so, and
\* only while it reads it (capsule.c:585).
LEMMA NextDefines ==
  ASSUME Typed, InfoRead, DefinesInv, ReaderStep
  PROVE  DefinesInv'
  <1>0. file' = file /\ opened \subseteq opened'
    BY ReaderKeeps
  <1>a. \A c, n : Definer(c, n)' <=> Definer(c, n)
    BY <1>0 DEF Definer, Tells
  <1>1. CASE UNCHANGED usageVars
    BY <1>0, <1>a, <1>1 DEF DefinesInv, usageVars
  <1>2. CASE capsule_read_usage /\ ~UNCHANGED usageVars
    <2>1. PICK e : e = C.externs[item]
      OBVIOUS
    <2>2. /\ item \in DOMAIN C.externs /\ e.name \in Names /\ HasUsage(ShapeOf[e.name])
          /\ use' = [use EXCEPT ![e.name] = @ \cup e.use]
          /\ def' = [def EXCEPT ![e.name] = NewDefinition(@, use[e.name], e.use, cap)]
      BY <1>2, <2>1, UsageMerged
    <2>3. cap \in opened
      BY <1>2, CurrentContent DEF capsule_read_usage
    <2>4. Tells(cap, e.name)
      BY <2>2 DEF HasUsage, Tells, InfoRead, C
    <2>5. e.use \cap {"DEFD", "MULT"} # {} => Definer(cap, e.name)
      BY <2>1, <2>2, <2>4 DEF Definer, C
    <2>6. use \in [Names -> SUBSET Bits] /\ def \in [Names -> Capsules \cup {NULL}]
      BY DEF Typed, CapsuleTypeOK, UsagesTypeOK
    <2>7. ASSUME NEW n \in Names, def'[n] # NULL
          PROVE  def'[n] \in opened' /\ Definer(def'[n], n) /\ use'[n] \cap {"DEFD", "MULT"} # {}
      <3>1. CASE n # e.name
        <4>1. def'[n] = def[n] /\ use'[n] = use[n]
          BY <2>2, <2>6, <3>1
        <4> QED
          BY <1>0, <2>7, <4>1 DEF DefinesInv
      <3>2. CASE n = e.name
        <4>1. def'[n] = NewDefinition(def[n], use[n], e.use, cap) /\ use'[n] = use[n] \cup e.use
          BY <2>2, <2>6, <3>2
        <4>2. \/ def'[n] = NULL
              \/ def'[n] = cap /\ e.use \cap {"DEFD", "MULT"} # {}
              \/ def'[n] = def[n]
          BY <4>1 DEF NewDefinition
        <4>3. CASE def'[n] = cap /\ e.use \cap {"DEFD", "MULT"} # {}
          BY <1>0, <2>3, <2>5, <3>2, <4>1, <4>3
        <4>4. CASE def'[n] = def[n]
          BY <1>0, <2>7, <4>1, <4>4 DEF DefinesInv
        <4> QED
          BY <2>7, <4>2, <4>3, <4>4
      <3> QED
        BY <3>1, <3>2
    <2> QED
      BY <1>a, <2>7 DEF DefinesInv
  <1> QED
    BY <1>1, <1>2, OnlyUsage

LEMMA SuppressDefines == DefinesInv /\ builder_suppress => DefinesInv'
  <1> SUFFICES ASSUME DefinesInv, builder_suppress PROVE DefinesInv'
    OBVIOUS
  <1>1. UNCHANGED <<file, opened, use>> /\ \A n \in Names : def'[n] \in {NULL, def[n]}
    BY DEF builder_suppress, fixedVars
  <1>2. \A c, n : Definer(c, n)' <=> Definer(c, n)
    BY <1>1 DEF Definer, Tells
  <1> QED
    BY <1>1, <1>2 DEF DefinesInv

\* Usages are never taken back.
LEMMA MergedKept ==
  ASSUME Typed, ReaderStep, NEW c \in Capsules, NEW j \in DOMAIN file[c].externs, IsMerged(c, j)
  PROVE  IsMerged(c, j)'
  <1>1. file[c].externs \in Seq(Extern)
    BY CapsuleAssumption DEF Typed, CapsuleTypeOK, Content
  <1>2. file[c].externs[j] \in Extern
    BY <1>1
  <1>3. file[c].externs[j].name \in Names
    BY <1>2 DEF Extern
  <1>4. file' = file
    BY ReaderKeeps
  <1> QED
    BY <1>3, <1>4, UsesGrow DEF IsMerged

\* What was merged of the capsule that is being read, stage by stage.
LEMMA MergedEndStage ==
  ASSUME Typed, InfoRead, MergedInv, EndStage
  PROVE  MergedInv'
  <1>1. UNCHANGED <<file, cap, complete, use>> /\ pc' = NextStage /\ item' = 1 /\ item > Len(Items)
    BY DEF EndStage, fixedVars, usageVars
  <1>2. pc \in {"shapes", "names", "usage", "token", "tag", "units"}
    BY DEF EndStage
  <1>3. C.externs \in Seq(Extern) /\ item \in Nat
    BY <1>2, CurrentContent DEF Typed, CapsuleTypeOK, ControlTypeOK
  <1>4. \A c, j : IsMerged(c, j)' <=> IsMerged(c, j)
    BY <1>1 DEF IsMerged
  <1>5. \A c, j, s : OfShape(c, j, s)' <=> OfShape(c, j, s)
    BY <1>1 DEF OfShape
  <1>6. \A c, j : Told(c, j)' <=> Told(c, j)
    BY <1>1 DEF Told, Tells
  <1>7. C' = C /\ \A j \in DOMAIN C.externs : ~(j < 1)
    BY <1>1, <1>3 DEF C
  <1>8. PICK k : k = cap
    OBVIOUS
  <1>9. \A c \in complete' : \A j \in DOMAIN file'[c].externs :
          Told(c, j)' => IsMerged(c, j)'
    BY <1>1, <1>4, <1>6 DEF MergedInv
  <1>10. pc \in {"usage", "token", "tag"} => \A j \in DOMAIN C.externs : j < item
    BY <1>1, <1>3 DEF Items
  <1>11. CASE pc' \in {"usage", "token"}
    BY <1>1, <1>7, <1>9, <1>11 DEF MergedInv
  <1>12. CASE pc' = "tag"
    <2>1. pc = "token"
      BY <1>1, <1>2, <1>12 DEF NextStage
    <2>2. \A j \in DOMAIN C.externs : OfShape(k, j, Token) => IsMerged(k, j)
      BY <1>8, <1>10, <2>1 DEF MergedInv
    <2> HIDE DEF IsMerged, OfShape, Told
    <2> QED
      BY <1>1, <1>4, <1>5, <1>7, <1>8, <1>9, <1>12, <2>2 DEF MergedInv
  <1>13. CASE pc' \in {"units", "eof"}
    <2>1. \A j \in DOMAIN C.externs : Told(k, j) => IsMerged(k, j)
      <3>1. CASE pc = "names"
        <4>1. C.tld \notin {"tld1", "tld0", "tld2"}
          BY <1>1, <1>13, <3>1 DEF NextStage
        <4> QED
          BY <1>8, <4>1 DEF Told, Tells, C
      <3>2. CASE pc = "usage"
        BY <1>8, <1>10, <3>2 DEF MergedInv
      <3>3. CASE pc = "tag"
        <4>1. C.tld \in {"tld0", "tld2"}
          BY <3>3 DEF InfoRead
        <4>2. \A j \in DOMAIN C.externs :
                OfShape(k, j, Token) \/ OfShape(k, j, Tag) => IsMerged(k, j)
          BY <1>8, <1>10, <3>3 DEF MergedInv
        <4> QED
          BY <1>8, <4>1, <4>2 DEF Told, Tells, C, OfShape
      <3>4. CASE pc = "units"
        BY <1>8, <3>4 DEF MergedInv
      <3>5. pc \in {"names", "usage", "tag", "units"}
        BY <1>1, <1>2, <1>13 DEF NextStage
      <3> QED
        BY <3>1, <3>2, <3>3, <3>4, <3>5
    <2> HIDE DEF IsMerged, OfShape, Told
    <2> QED
      BY <1>1, <1>4, <1>6, <1>7, <1>8, <1>9, <1>13, <2>1 DEF MergedInv
  <1>14. CASE pc' \notin {"usage", "token", "tag", "units", "eof"}
    BY <1>9, <1>14 DEF MergedInv
  <1> QED
    BY <1>11, <1>12, <1>13, <1>14

LEMMA MergedUsage ==
  ASSUME Typed, InfoRead, MergedInv, capsule_read_usage
  PROVE  MergedInv'
  <1>0. PICK e, k, i : e = C.externs[item] /\ k = cap /\ i = item
    OBVIOUS
  <1>1. /\ i \in DOMAIN C.externs /\ e.name \in Names
        /\ \/ UNCHANGED usageVars
           \/ HasUsage(ShapeOf[e.name]) /\ use' = [use EXCEPT ![e.name] = @ \cup e.use]
    BY <1>0, UsageMerged
  <1>2. /\ pc \in {"usage", "token", "tag"} /\ file' = file /\ cap' = k /\ complete' = complete
        /\ pc' \in {"idle", "abort"} \/ (pc' = pc /\ item' = i + 1)
        /\ pc' = pc => ~HasUsage(ShapeOf[e.name]) \/ use' = [use EXCEPT ![e.name] = @ \cup e.use]
    <2>1. pc \in {"usage", "token", "tag"} /\ file' = file
      BY DEF capsule_read_usage, fixedVars
    <2>2. /\ cap' = k /\ complete' = complete
          /\ pc' \in {"idle", "abort"} \/ (pc' = pc /\ item' = i + 1)
      BY <1>0 DEF capsule_read_usage, Throw, Advance, SeriousThen, SeriousErrors
    <2>3. \/ pc' \in {"idle", "abort"} \/ ~HasUsage(ShapeOf[e.name])
          \/ use' = [use EXCEPT ![indirect[e.name]] = @ \cup e.use]
      BY <1>0 DEF capsule_read_usage, Throw, SeriousThen, SeriousErrors
    <2> QED
      BY <1>1, <2>1, <2>2, <2>3, NotRenamed
  <1>3. k \in Capsules /\ complete \subseteq Capsules /\ C = file[k] /\ C' = file[k]
        /\ i \in Nat /\ C.externs \in Seq(Extern)
    BY <1>0, <1>2, CurrentContent DEF Typed, CapsuleTypeOK, ControlTypeOK, C
  <1>r. ReaderStep
    BY DEF ReaderStep, ReadStep
  <1>4. \A c \in Capsules : \A j \in DOMAIN file[c].externs : IsMerged(c, j) => IsMerged(c, j)'
    BY <1>r, MergedKept
  <1>5. \A c, j, s : OfShape(c, j, s)' <=> OfShape(c, j, s)
    BY <1>2 DEF OfShape
  <1>6. \A c, j : Told(c, j)' <=> Told(c, j)
    BY <1>2 DEF Told, Tells
  <1>7. pc' = pc /\ HasUsage(ShapeOf[e.name]) => IsMerged(k, i)'
    <2>1. use \in [Names -> SUBSET Bits]
      BY DEF Typed, CapsuleTypeOK, UsagesTypeOK
    <2> QED
      BY <1>0, <1>1, <1>2, <1>3, <2>1 DEF IsMerged
  <1>8. \A j \in DOMAIN C.externs : j < i + 1 => j < i \/ j = i
    BY <1>3
  <1>9. \A s : OfShape(k, i, s) <=> ShapeOf[e.name] = s
    BY <1>0, <1>3 DEF OfShape
  <1>10. \A c \in complete' : \A j \in DOMAIN file'[c].externs :
          Told(c, j)' => IsMerged(c, j)'
    BY <1>2, <1>3, <1>4, <1>6 DEF MergedInv
  <1> HIDE DEF IsMerged, OfShape, Told
  <1>11. CASE pc' \in {"idle", "abort"}
    BY <1>10, <1>11 DEF MergedInv
  <1>12. CASE pc' = pc /\ item' = i + 1 /\ pc = "usage"
    <2>1. HasUsage(ShapeOf[e.name])
      BY <1>12 DEF HasUsage
    <2>2. \A j \in DOMAIN C.externs : j < i => IsMerged(k, j)
      BY <1>0, <1>12 DEF MergedInv
    <2>3. \A j \in DOMAIN C.externs : j < i + 1 => IsMerged(k, j)'
      BY <1>3, <1>4, <1>7, <1>8, <1>12, <2>1, <2>2
    <2> QED
      BY <1>2, <1>3, <1>10, <1>12, <2>3 DEF MergedInv
  <1>13. CASE pc' = pc /\ item' = i + 1 /\ pc = "token"
    <2>1. ShapeOf[e.name] = Token => HasUsage(ShapeOf[e.name])
      BY <1>13 DEF HasUsage
    <2>2. \A j \in DOMAIN C.externs : j < i /\ OfShape(k, j, Token) => IsMerged(k, j)
      BY <1>0, <1>13 DEF MergedInv
    <2>3. \A j \in DOMAIN C.externs : j < i + 1 /\ OfShape(k, j, Token) => IsMerged(k, j)'
      BY <1>3, <1>4, <1>7, <1>8, <1>9, <1>13, <2>1, <2>2
    <2> QED
      BY <1>2, <1>3, <1>5, <1>10, <1>13, <2>3 DEF MergedInv
  <1>14. CASE pc' = pc /\ item' = i + 1 /\ pc = "tag"
    <2>1. ShapeOf[e.name] = Tag => HasUsage(ShapeOf[e.name])
      BY <1>14 DEF HasUsage
    <2>2. \A j \in DOMAIN C.externs :
             OfShape(k, j, Token) \/ (j < i /\ OfShape(k, j, Tag)) => IsMerged(k, j)
      BY <1>0, <1>14 DEF MergedInv
    <2>3. \A j \in DOMAIN C.externs :
             OfShape(k, j, Token) \/ (j < i + 1 /\ OfShape(k, j, Tag)) => IsMerged(k, j)'
      BY <1>3, <1>4, <1>7, <1>8, <1>9, <1>14, <2>1, <2>2
    <2> QED
      BY <1>2, <1>3, <1>5, <1>10, <1>14, <2>3 DEF MergedInv
  <1> QED
    BY <1>2, <1>11, <1>12, <1>13, <1>14

\* The other steps merge nothing.
LEMMA MergedSame ==
  ASSUME Typed, MergedInv, ReaderStep, UNCHANGED complete, pc' \notin {"usage", "token", "tag"},
         pc' \in {"units", "eof"} => pc \in {"units", "eof"} /\ cap' = cap
  PROVE  MergedInv'
  <1>1. file' = file /\ complete \subseteq Capsules
    BY ReaderKeeps DEF Typed, CapsuleTypeOK, ControlTypeOK
  <1>2. \A c \in Capsules : \A j \in DOMAIN file[c].externs : IsMerged(c, j) => IsMerged(c, j)'
    BY MergedKept
  <1>3. \A c, j : Told(c, j)' <=> Told(c, j)
    BY <1>1 DEF Told, Tells
  <1>4. \A c \in complete' : \A j \in DOMAIN file'[c].externs : Told(c, j)' => IsMerged(c, j)'
    BY <1>1, <1>2, <1>3 DEF MergedInv
  <1>5. PICK k : k = cap
    OBVIOUS
  <1>6. ASSUME pc' \in {"units", "eof"}
        PROVE  \A j \in DOMAIN C'.externs : Told(k, j)' => IsMerged(k, j)'
    <2>1. pc \in {"units", "eof"} /\ C = file[k] /\ C' = file[k]
      BY <1>1, <1>5, <1>6 DEF C
    <2>2. k \in Capsules
      BY <1>5, <2>1, CurrentContent
    <2>3. \A j \in DOMAIN C.externs : Told(k, j) => IsMerged(k, j)
      BY <1>5, <2>1 DEF MergedInv
    <2> QED
      BY <1>2, <1>3, <2>1, <2>2, <2>3
  <1> HIDE DEF IsMerged, Told
  <1> QED
    BY <1>4, <1>5, <1>6 DEF MergedInv

LEMMA NextMerged ==
  ASSUME Typed, InfoRead, MergedInv, ReaderStep
  PROVE  MergedInv'
  <1>a. CASE /\ complete' = complete /\ pc' \notin {"usage", "token", "tag"}
             /\ pc' \in {"units", "eof"} => pc \in {"units", "eof"} /\ cap' = cap
    BY <1>a, MergedSame
  <1> USE DEF Throw, Advance, SeriousThen, SeriousErrors, At, AtItem
  <1>1. CASE EndStage
    BY <1>1, MergedEndStage
  <1>2. CASE capsule_read_usage
    BY <1>2, MergedUsage
  <1>3. CASE Malformed \/ capsule_read_header \/ capsule_read_unit_set_names \/ capsule_read_shapes
    BY <1>a, <1>3
    DEF Malformed, capsule_read_header, capsule_read_unit_set_names, capsule_read_shapes
  <1>4. CASE capsule_read_external_names
    BY <1>a, <1>4 DEF capsule_read_external_names
  <1>5. CASE unit_entry_add_unit \/ capsule_read_unit_maps \/ unit_set_contents
    BY <1>a, <1>5 DEF unit_entry_add_unit, capsule_read_unit_maps, unit_set_contents
  <1>6. CASE capsule_read_end
    <2>1. PICK k : k = cap
      OBVIOUS
    <2>2. /\ pc = "eof" /\ pc' = "idle" /\ complete' = complete \cup {k} /\ C = file[k]
          /\ UNCHANGED <<file, use>>
      BY <1>6, <2>1 DEF capsule_read_end, fixedVars, usageVars, C
    <2>3. \A j \in DOMAIN C.externs : Told(k, j) => IsMerged(k, j)
      BY <2>1, <2>2 DEF MergedInv
    <2>4. \A c, j : (Told(c, j)' <=> Told(c, j)) /\ (IsMerged(c, j)' <=> IsMerged(c, j))
      BY <2>2 DEF Told, Tells, IsMerged
    <2> HIDE DEF IsMerged, Told
    <2>5. \A c \in complete' : \A j \in DOMAIN file'[c].externs : Told(c, j)' => IsMerged(c, j)'
      BY <2>2, <2>3, <2>4 DEF MergedInv
    <2> QED
      BY <2>2, <2>5 DEF MergedInv
  <1>7. CASE (\E c \in Capsules : Open(c)) \/ (\E s \in Shapes : shape_entry_get_from_list(s))
             \/ CallerStep
    BY <1>a, <1>7 DEF Open, shape_entry_get_from_list, CallerStep
  <1>8. CASE UNCHANGED capsuleVars
    <2>1. UNCHANGED <<file, cap, pc, item, use, complete>>
      BY <1>8 DEF capsuleVars
    <2>2. \A c, j : (Told(c, j)' <=> Told(c, j)) /\ (IsMerged(c, j)' <=> IsMerged(c, j))
      BY <2>1 DEF Told, Tells, IsMerged
    <2> QED
      BY <2>1, <2>2 DEF MergedInv, C, IsMerged, Told, Tells, OfShape
  <1> QED
    BY <1>1, <1>2, <1>3, <1>4, <1>5, <1>6, <1>7, <1>8 DEF ReaderStep, ReadStep

\* What the builder needs of the reader; before definitions are suppressed, they
\* are those that the reader chose.
BuildReads ==
  /\ BuildTyped /\ IdInv /\ AgreeInv /\ LegalUses /\ AllRead /\ InfoRead /\ MergedInv /\ DefinesInv
  /\ phase \notin {"write", "done"} => UseInv

LEMMA BuildReadsSuppress ==
  ASSUME BuildReads, builder_suppress
  PROVE  IdInv' /\ AgreeInv' /\ LegalUses' /\ AllRead' /\ InfoRead' /\ MergedInv'
  <1>1. UNCHANGED <<pc, errors, file, opened, cap, item, use, complete>> /\ pc = "idle"
    BY DEF builder_suppress, In, fixedVars
  <1>2. LegalUses' /\ AllRead' /\ InfoRead'
    BY <1>1 DEF BuildReads, LegalUses, AllRead, Clean, InfoRead
  <1>3. \A c, j : (Told(c, j)' <=> Told(c, j)) /\ (IsMerged(c, j)' <=> IsMerged(c, j))
    BY <1>1 DEF Told, Tells, IsMerged
  <1>4. MergedInv'
    BY <1>1, <1>3 DEF MergedInv, BuildReads
  <1>5. UNCHANGED idVars
    BY DEF builder_suppress, fixedVars, tableVars, idVars
  <1>6. IdInv'
    BY <1>5, UnchangedIds DEF BuildReads
  <1>7. \A c, j : Agrees(c, j)' <=> Agrees(c, j)
    BY <1>5 DEF Agrees, idVars
  <1>8. AgreeInv'
    BY <1>1, <1>7 DEF AgreeInv, BuildReads
  <1> QED
    BY <1>2, <1>4, <1>6, <1>8

\* No capsule is read after definitions were suppressed (builder.c:262-275).
LEMMA PhasesEnd ==
  ASSUME BuildTypeOK, [BuilderNext]_builderVars, phase \in {"write", "done"}
  PROVE  phase' \in {"write", "done"} /\ use' = use
  <1>1. CASE builder_write_library \/ BuilderEnd \/ UNCHANGED builderVars
    BY <1>1 DEF builder_write_library, BuilderEnd, builderVars, buildVars, capsuleVars, readerVars,
                usageVars
  <1>2. CASE ReadStep
    BY <1>2 DEF BuildTypeOK, ReadStep, Malformed, capsule_read_header, capsule_read_unit_set_names,
       capsule_read_shapes, capsule_read_external_names, capsule_read_usage, unit_entry_add_unit,
       capsule_read_unit_maps, unit_set_contents, EndStage, capsule_read_end, AtItem, At
  <1> QED
    BY <1>1, <1>2 DEF BuilderNext, BuilderStep, BuildStep, builder_read_library, EndLibraries,
       CannotOpen, CheckNames, ReadCapsule, StoreCapsule, EndCapsules, builder_check_multi_defs,
       builder_suppress, In

LEMMA NextBuildReads ==
  ASSUME BuildReads, [BuilderNext]_builderVars
  PROVE  BuildReads'
  <1>0. /\ BuildTyped /\ Typed /\ IdInv /\ AgreeInv /\ LegalUses /\ AllRead /\ InfoRead /\ MergedInv
        /\ DefinesInv /\ BuildTyped'
    BY NextBuildTyped DEF BuildReads, BuildTyped
  <1>1. CASE builder_suppress
    <2>1. phase' = "write"
      BY <1>1 DEF builder_suppress
    <2> QED
      BY <1>0, <1>1, <2>1, BuildReadsSuppress, SuppressDefines DEF BuildReads
  <1>2. CASE ReaderStep
    <2>1. phase' \notin {"write", "done"} => UseInv'
      BY <1>0, <1>2, PhasesEnd, NextUses DEF BuildReads, BuildTyped
    <2>2. LegalUses'
      <3>1. CASE phase \in {"write", "done"}
        BY <1>0, <3>1, PhasesEnd DEF LegalUses, BuildTyped
      <3>2. CASE phase \notin {"write", "done"}
        BY <1>0, <1>2, <3>2, NextUses DEF BuildReads, UseInv
      <3> QED
        BY <3>1, <3>2
    <2> QED
      BY <1>0, <1>2, <2>1, <2>2, NextIds, NextAgree, NextAllRead, NextInfoRead, NextMerged,
         NextDefines
      DEF BuildReads
  <1> QED
    BY <1>0, <1>1, <1>2, BuilderSteps

LEMMA InitBuildReads == BuilderInit => BuildReads
  <1> SUFFICES ASSUME BuilderInit PROVE BuildReads
    OBVIOUS
  <1>1. BuildTyped /\ UseInv /\ AllRead /\ IdInv /\ AgreeInv
    BY InitBuildTyped, InitUses, InitClean, InitIds, InitAgree DEF BuilderInit, CleanInv
  <1>2. pc = "idle" /\ complete = {} /\ \A n \in Names : def[n] = NULL
    BY DEF BuilderInit, CapsuleInit
  <1> QED
    BY <1>1, <1>2 DEF BuildReads, UseInv, InfoRead, MergedInv, DefinesInv

-----------------------------------------------------------------------------
\* A capsule that was opened has its place in the vector, or gets it next.
PlacedInv ==
  \A c \in opened : \/ \E k \in DOMAIN vector : vector[k] = c
                    \/ phase = "store" /\ c = Head(todo)

\* The library that was written is the state that the builder came to.
LibraryInv ==
  library # NULL =>
     /\ phase = "done" /\ pc = "idle" /\ major >= 4 /\ \A k \in DOMAIN vector : vector[k] # NULL
     /\ library = [major |-> major, minor |-> minor, caps |-> vector, whole |-> complete,
                   index |-> IndexOf]

LEMMA ReadStepReads == ReadStep => pc \in Stages /\ opened' = opened
  <1> SUFFICES ASSUME ReadStep PROVE pc \in Stages /\ opened' = opened
    OBVIOUS
  <1> USE DEF Throw, Advance, AtItem, At
  <1>1. CASE Malformed \/ capsule_read_header \/ capsule_read_unit_set_names \/ capsule_read_shapes
    BY <1>1 DEF Malformed, capsule_read_header, capsule_read_unit_set_names, capsule_read_shapes
  <1>2. CASE capsule_read_external_names
    BY <1>2 DEF capsule_read_external_names
  <1>3. CASE capsule_read_usage
    BY <1>3 DEF capsule_read_usage
  <1>4. CASE unit_entry_add_unit \/ capsule_read_unit_maps \/ unit_set_contents
    BY <1>4 DEF unit_entry_add_unit, capsule_read_unit_maps, unit_set_contents
  <1>5. CASE EndStage \/ capsule_read_end
    BY <1>5 DEF EndStage, capsule_read_end
  <1> QED
    BY <1>1, <1>2, <1>3, <1>4, <1>5 DEF ReadStep

\* A step that opens nothing and leaves the vector alone.
LEMMA PlacedSame ==
  ASSUME PlacedInv, UNCHANGED <<opened, vector>>,
         phase = "store" => phase' = "store" /\ todo' = todo
  PROVE  PlacedInv'
  BY DEF PlacedInv

\* A capsule takes its place even when it was abandoned (builder.c:144).
LEMMA NextPlaced ==
  ASSUME BuildTyped, PlacedInv, [BuilderNext]_builderVars
  PROVE  PlacedInv'
  <1>1. CASE ReadStep /\ UNCHANGED buildVars
    BY <1>1, ReadStepReads, PlacedSame DEF buildVars
  <1>2. CASE ReadCapsule
    <2>1. phase' = "store" /\ phase = "open" /\ UNCHANGED <<todo, vector>>
      BY <1>2 DEF ReadCapsule, In
    <2>2. opened' \subseteq opened \cup {Head(todo)}
      BY <1>2 DEF ReadCapsule, readerVars, Open
    <2> QED
      BY <2>1, <2>2 DEF PlacedInv
  <1>3. CASE StoreCapsule
    <2>1. PICK c, q : c = Head(todo) /\ q = vector
      OBVIOUS
    <2>2. vector' = Append(q, c) /\ opened' = opened
      BY <1>3, <2>1 DEF StoreCapsule, capsuleVars
    <2>3. q \in Seq(Places)
      BY <2>1 DEF BuildTyped, BuildTypeOK
    <2>4. /\ DOMAIN Append(q, c) = 1 .. Len(q) + 1 /\ DOMAIN q = 1 .. Len(q) /\ Len(q) \in Nat
          /\ Append(q, c)[Len(q) + 1] = c /\ \A k \in 1 .. Len(q) : Append(q, c)[k] = q[k]
      BY <2>3
    <2>5. ASSUME NEW x \in opened
          PROVE  \E k \in 1 .. Len(q) + 1 : Append(q, c)[k] = x
      <3>1. CASE x = c
        BY <2>4, <3>1
      <3>2. CASE \E k \in DOMAIN q : q[k] = x
        <4>1. PICK k \in 1 .. Len(q) : q[k] = x
          BY <2>4, <3>2
        <4>2. k \in 1 .. Len(q) + 1 /\ Append(q, c)[k] = x
          BY <2>4, <4>1
        <4> QED
          BY <4>2
      <3> QED
        BY <2>1, <3>1, <3>2 DEF PlacedInv
    <2> QED
      BY <2>2, <2>4, <2>5 DEF PlacedInv
  <1>4. CASE builder_read_library \/ EndLibraries \/ CannotOpen \/ CheckNames \/ EndCapsules
    <2>1. phase # "store" /\ UNCHANGED <<opened, vector>>
      BY <1>4 DEF builder_read_library, EndLibraries, CannotOpen, CheckNames, EndCapsules, In,
                  readerVars, capsuleVars
    <2> QED
      BY <2>1, PlacedSame
  <1>5. CASE builder_check_multi_defs \/ builder_suppress \/ builder_write_library
    <2>1. phase # "store" /\ UNCHANGED <<opened, vector>>
      BY <1>5 DEF builder_check_multi_defs, builder_suppress, builder_write_library, In, readerVars
    <2> QED
      BY <2>1, PlacedSame
  <1>6. CASE BuilderEnd \/ UNCHANGED builderVars
    BY <1>6, PlacedSame DEF BuilderEnd, builderVars, capsuleVars, buildVars
  <1> QED
    BY <1>1, <1>2, <1>3, <1>4, <1>5, <1>6 DEF BuilderNext, BuilderStep, BuildStep

\* A library is written once, at the end.
LEMMA NextLibrary ==
  ASSUME BuildTyped, LibraryInv, [BuilderNext]_builderVars
  PROVE  LibraryInv'
  <1>1. CASE builder_write_library
    <2>1. library = NULL
      BY <1>1 DEF builder_write_library, In, LibraryInv
    <2>2. CASE library' = library
      BY <2>1, <2>2 DEF LibraryInv
    <2>3. CASE /\ ~(major < 4) /\ \A k \in DOMAIN vector : vector[k] # NULL
               /\ library' = [major |-> major, minor |-> minor, caps |-> vector,
                              whole |-> complete, index |-> IndexOf]
               /\ UNCHANGED pc
      <3>1. phase' = "done" /\ pc' = "idle" /\ UNCHANGED <<readerVars, vector>>
        BY <1>1, <2>3 DEF builder_write_library, In
      <3>2. UNCHANGED <<major, minor, complete, use, def, direct, vector>>
        BY <3>1 DEF readerVars, versionVars, usageVars, tableVars
      <3>3. IndexOf' = IndexOf
        BY <3>2 DEF IndexOf, PositionOf
      <3>4. major \in Nat
        BY DEF BuildTyped, Typed, CapsuleTypeOK
      <3> QED
        BY <2>3, <3>1, <3>2, <3>3, <3>4 DEF LibraryInv
    <2> QED
      BY <1>1, <2>2, <2>3 DEF builder_write_library
  <1>2. CASE UNCHANGED builderVars
    <2>1. UNCHANGED <<pc, major, minor, complete, use, def, direct, vector, phase, library>>
      BY <1>2 DEF builderVars, capsuleVars, buildVars
    <2>2. IndexOf' = IndexOf
      BY <2>1 DEF IndexOf, PositionOf
    <2> QED
      BY <2>1, <2>2 DEF LibraryInv
  <1>3. CASE phase # "done" /\ library' = library
    BY <1>3 DEF LibraryInv
  <1>4. CASE ReadStep /\ UNCHANGED buildVars
    BY <1>3, <1>4, ReadStepReads DEF buildVars, BuildTyped, BuildTypeOK
  <1>5. CASE builder_read_library \/ EndLibraries \/ CannotOpen \/ CheckNames \/ EndCapsules
             \/ ReadCapsule \/ StoreCapsule \/ builder_check_multi_defs \/ builder_suppress
    BY <1>3, <1>5 DEF builder_read_library, EndLibraries, CannotOpen, CheckNames, EndCapsules,
       ReadCapsule, StoreCapsule, builder_check_multi_defs, builder_suppress, In
  <1> QED
    BY <1>1, <1>2, <1>4, <1>5 DEF BuilderNext, BuilderStep, BuildStep, BuilderEnd

\* All that is known of the state of the builder, whatever errors it met.
BuildInv == BuildReads /\ PlacedInv /\ LibraryInv

LEMMA NextBuild == BuildInv /\ [BuilderNext]_builderVars => BuildInv'
  BY NextBuildReads, NextPlaced, NextLibrary DEF BuildInv, BuildReads

LEMMA InitBuild == BuilderInit => BuildInv
  <1>1. BuilderInit => PlacedInv /\ LibraryInv
    BY DEF BuilderInit, CapsuleInit, PlacedInv, LibraryInv
  <1> QED
    BY <1>1, InitBuildReads DEF BuildInv

\* The entries of the index that was written, and the places they lead to.
LEMMA IndexEntries ==
  ASSUME BuildInv, library # NULL
  PROVE  /\ library.caps = vector /\ library.whole = complete /\ library.major = major
         /\ \A e \in library.index :
               /\ e.name \in direct /\ e.use = use[e.name] /\ def[e.name] # NULL
               /\ e.index \in DOMAIN vector /\ vector[e.index] = def[e.name]
               /\ e = [name |-> e.name, use |-> use[e.name], index |-> PositionOf(def[e.name])]
         /\ \A n \in direct : def[n] # NULL => \E e \in library.index : e.name = n
  <1>1. /\ library.caps = vector /\ library.whole = complete /\ library.index = IndexOf
        /\ library.major = major /\ phase = "done"
    BY DEF BuildInv, LibraryInv
  <1>2. direct \subseteq Names /\ DefinesInv
    BY DEF BuildInv, BuildReads, BuildTyped, Typed, CapsuleTypeOK, TablesTypeOK
  <1>3. ASSUME NEW n \in direct, def[n] # NULL
        PROVE  PositionOf(def[n]) \in DOMAIN vector /\ vector[PositionOf(def[n])] = def[n]
    <2>1. def[n] \in opened
      BY <1>2, <1>3 DEF DefinesInv
    <2>2. \E k \in DOMAIN vector : vector[k] = def[n]
      BY <1>1, <2>1 DEF BuildInv, PlacedInv
    <2> QED
      BY <2>2 DEF PositionOf
  <1>4. ASSUME NEW e \in IndexOf
        PROVE  /\ e.name \in direct /\ e.use = use[e.name] /\ def[e.name] # NULL
               /\ e.index = PositionOf(def[e.name])
               /\ e = [name |-> e.name, use |-> use[e.name], index |-> PositionOf(def[e.name])]
    BY <1>4 DEF IndexOf
  <1>5. ASSUME NEW n \in direct, def[n] # NULL
        PROVE  \E e \in IndexOf : e.name = n
    <2>1. [name |-> n, use |-> use[n], index |-> PositionOf(def[n])] \in IndexOf
      BY <1>5 DEF IndexOf
    <2> QED
      BY <2>1
  <1> QED
    BY <1>1, <1>3, <1>4, <1>5

\* The index is read back without an error (library.c:81, name-entry.c:333).
THEOREM IndexIsReadBackInvariant == BuilderSpec => []IndexIsReadBack
  <1>1. BuildInv => IndexIsReadBack
    <2> SUFFICES ASSUME BuildInv, library # NULL
                 PROVE  /\ \A e \in library.index :
                              AcceptedAlone(e) /\ library.caps[e.index] = def[e.name]
                        /\ \A d, e \in library.index : d.name = e.name => d = e
                        /\ {e.name : e \in library.index} = {n \in direct : def[n] # NULL}
      BY DEF IndexIsReadBack
    <2>1. /\ direct \subseteq Names /\ DefinesInv /\ LegalUses /\ use \in [Names -> SUBSET Bits]
      BY DEF BuildInv, BuildReads, BuildTyped, Typed, CapsuleTypeOK, TablesTypeOK, UsagesTypeOK
    <2>2. ASSUME NEW e \in library.index
          PROVE  AcceptedAlone(e) /\ library.caps[e.index] = def[e.name]
      <3>1. e.name \in Names /\ e.use = use[e.name] /\ library.caps[e.index] = def[e.name]
            /\ def[e.name] # NULL
        BY <2>1, IndexEntries
      <3>2. use[e.name] \cap {"DEFD", "MULT"} # {} /\ use[e.name] \in SUBSET Bits
        BY <2>1, <3>1 DEF DefinesInv
      <3>3. ~IllegalUse(e.use, ShapeOf[e.name] = Tag, ShapeOf[e.name] = Token)
        BY <2>1, <3>1, <3>2 DEF IllegalUse, LegalUses
      <3>4. NewDefinition(NULL, {}, e.use, library.caps[e.index]) = library.caps[e.index]
        BY <3>1, <3>2 DEF NewDefinition
      <3> QED
        BY <3>1, <3>3, <3>4 DEF AcceptedAlone
    <2>3. \A d, e \in library.index : d.name = e.name => d = e
      BY IndexEntries
    <2>4. {e.name : e \in library.index} = {n \in direct : def[n] # NULL}
      BY IndexEntries
    <2> QED
      BY <2>2, <2>3, <2>4
  <1> QED
    BY <1>1, InitBuild, NextBuild, PTL DEF BuilderSpec

-----------------------------------------------------------------------------
\* The capsules of the libraries and the input files, in order.
All == included \o bargs.inputs

\* The vector and what is still to be read make up all capsules.
InOrder ==
  /\ Len(vector) + Len(todo) = Len(All)
  /\ \A k \in 1 .. Len(vector) : vector[k] = All[k]
  /\ \A k \in 1 .. Len(todo) : todo[k] = All[Len(vector) + k]

OrderInv ==
  Clean => /\ phase = "libs" => vector = <<>> /\ todo = <<>>
           /\ phase # "libs" => InOrder
           /\ phase \in {"check", "suppress", "write", "done"} => todo = <<>>

\* Every capsule of the vector was opened, and the current one.
OpenedInv ==
  Clean => /\ \A k \in DOMAIN vector : vector[k] \in opened
           /\ phase = "store" => Head(todo) \in opened

\* The names of the capsules differ, and that of the current one from the others.
NamesInv ==
  Clean => /\ \A j, k \in DOMAIN vector : CapName[vector[j]] = CapName[vector[k]] => j = k
           /\ phase \in {"open", "store"} =>
                \A k \in DOMAIN vector : CapName[vector[k]] # CapName[Head(todo)]

CleanBuild == OrderInv /\ OpenedInv /\ NamesInv

\* Errors are not forgotten, and nothing goes on after a crash.
LEMMA CleanBefore ==
  ASSUME BuildTyped, [BuilderNext]_builderVars, Clean'
  PROVE  Clean
  <1>1. errors' = 0 => errors = 0
    BY BuilderSteps, ErrorsGrow DEF BuildTyped, builder_suppress
  <1>2. CASE UNCHANGED builderVars
    BY <1>2 DEF builderVars, capsuleVars, Clean
  <1>3. CASE ReadStep
    BY <1>1, <1>3, ReadStepReads DEF Clean
  <1>4. CASE BuildStep
    <2>1. pc = "idle"
      BY <1>4 DEF BuildStep, builder_read_library, EndLibraries, CannotOpen, CheckNames, ReadCapsule,
         StoreCapsule, EndCapsules, builder_check_multi_defs, builder_suppress,
         builder_write_library, In
    <2> QED
      BY <1>1, <2>1 DEF Clean
  <1> QED
    BY <1>2, <1>3, <1>4 DEF BuilderNext, BuilderStep, BuilderEnd

\* The capsule that was read takes the next place.
LEMMA StoreInOrder ==
  ASSUME BuildTyped, InOrder, todo # <<>>, vector' = Append(vector, Head(todo)), todo' = Tail(todo),
         UNCHANGED <<included, bargs>>
  PROVE  InOrder'
  <1>1. PICK q, t, a : q = vector /\ t = todo /\ a = All
    OBVIOUS
  <1>2. q \in Seq(Places) /\ t \in Seq(Places) /\ t # <<>>
    BY <1>1 DEF BuildTyped, BuildTypeOK
  <1>3. /\ Len(q) \in Nat /\ Len(t) \in Nat \ {0} /\ Len(q) + Len(t) = Len(a)
        /\ \A k \in 1 .. Len(q) : q[k] = a[k]
        /\ \A k \in 1 .. Len(t) : t[k] = a[Len(q) + k]
    BY <1>1, <1>2 DEF InOrder
  <1>4. /\ vector' = Append(q, Head(t)) /\ todo' = Tail(t) /\ All' = a
    BY <1>1 DEF All
  <1>5. /\ Len(Append(q, Head(t))) = Len(q) + 1 /\ Len(Tail(t)) = Len(t) - 1
        /\ \A k \in 1 .. Len(q) : Append(q, Head(t))[k] = q[k]
        /\ Append(q, Head(t))[Len(q) + 1] = t[1]
        /\ \A k \in 1 .. Len(t) - 1 : Tail(t)[k] = t[k + 1]
    BY <1>2
  <1> HIDE DEF All
  <1>6. Len(vector') + Len(todo') = Len(All')
    <2>1. Len(vector') = Len(q) + 1 /\ Len(todo') = Len(t) - 1 /\ Len(All') = Len(a)
      BY <1>4, <1>5
    <2>2. (Len(q) + 1) + (Len(t) - 1) = Len(q) + Len(t)
      BY <1>3
    <2> QED
      BY <1>3, <2>1, <2>2
  <1>7. \A k \in 1 .. Len(vector') : vector'[k] = All'[k]
    <2>1. t[1] = a[Len(q) + 1]
      BY <1>3
    <2>2. \A k \in 1 .. Len(q) + 1 : k \in 1 .. Len(q) \/ k = Len(q) + 1
      BY <1>3
    <2> QED
      BY <1>3, <1>4, <1>5, <2>1, <2>2
  <1>8. \A k \in 1 .. Len(todo') : todo'[k] = All'[Len(vector') + k]
    <2>1. ASSUME NEW k \in 1 .. Len(t) - 1 PROVE Tail(t)[k] = a[(Len(q) + 1) + k]
      <3>1. k + 1 \in 1 .. Len(t) /\ Len(q) + (k + 1) = (Len(q) + 1) + k
        BY <1>3
      <3> QED
        BY <1>3, <1>5, <3>1
    <2> QED
      BY <1>4, <1>5, <2>1
  <1> QED
    BY <1>6, <1>7, <1>8 DEF InOrder

\* The capsules are read in order, and as long as there is no error all of them
\* have different names (builder.c:88-160).
LEMMA NextCleanBuild ==
  ASSUME BuildTyped, CleanBuild, [BuilderNext]_builderVars
  PROVE  CleanBuild'
  <1> SUFFICES ASSUME Clean' PROVE CleanBuild'
    BY DEF CleanBuild, OrderInv, OpenedInv, NamesInv
  <1>0. /\ Clean /\ errors \in Nat /\ errors' = 0
        /\ bargs \in BuildArgs /\ todo \in Seq(Places) /\ vector \in Seq(Places)
    BY CleanBefore DEF BuildTyped, BuildTypeOK, Typed, CapsuleTypeOK, ControlTypeOK, Clean
  <1>1. CASE /\ UNCHANGED <<bargs, included, vector, todo>> /\ opened \subseteq opened'
             /\ phase' = phase
    <2>1. InOrder' <=> InOrder
      BY <1>1 DEF InOrder, All
    <2> QED
      BY <1>0, <1>1, <2>1 DEF CleanBuild, OrderInv, OpenedInv, NamesInv
  <1>2. CASE ReadStep /\ UNCHANGED buildVars
    BY <1>1, <1>2, ReadStepReads DEF buildVars
  <1>3. CASE UNCHANGED builderVars
    BY <1>1, <1>3 DEF builderVars, buildVars, capsuleVars
  <1>4. CASE builder_read_library
    <2>1. phase = "libs" /\ phase' = "libs" /\ UNCHANGED <<bargs, vector, todo>> /\ opened' = opened
      BY <1>4 DEF builder_read_library, In
    <2> QED
      BY <1>0, <2>1 DEF CleanBuild, OrderInv, OpenedInv, NamesInv
  <1>5. CASE EndLibraries
    <2>1. /\ phase = "libs" /\ phase' = "names" /\ vector' = vector /\ todo' = All
          /\ UNCHANGED <<bargs, included, opened>>
      BY <1>5 DEF EndLibraries, In, All, capsuleVars
    <2>2. vector = <<>>
      BY <1>0, <2>1 DEF CleanBuild, OrderInv
    <2>3. All' = All
      BY <2>1 DEF All
    <2>4. Len(All) \in Nat
      <3>1. todo' \in Seq(Places)
        BY NextBuildTypeOK DEF BuildTypeOK
      <3> QED
        BY <2>1, <3>1
    <2> HIDE DEF All
    <2>5. InOrder'
      BY <2>1, <2>2, <2>3, <2>4 DEF InOrder
    <2> QED
      BY <2>1, <2>2, <2>5 DEF CleanBuild, OrderInv, OpenedInv, NamesInv
  <1>6. CASE CannotOpen
    BY <1>0, <1>6 DEF CannotOpen, SeriousThen, SeriousErrors
  <1>7. CASE CheckNames
    <2> DEFINE S == {k \in DOMAIN vector : CapName[vector[k]] = CapName[Head(todo)]}
    <2>1. /\ phase = "names" /\ phase' = "open" /\ UNCHANGED <<bargs, included, vector, todo, opened>>
          /\ pc' = "crash" \/ SeriousErrors(Cardinality(S), "idle")
      BY <1>7 DEF CheckNames, In, readerVars
    <2>2. Cardinality(S) \in Nat /\ errors' = errors + Cardinality(S)
      BY <1>0, <2>1, NamesakesCounted DEF SeriousErrors, Clean
    <2>3. Cardinality(S) = 0
      BY <1>0, <2>2
    <2>4. \A k \in DOMAIN vector : CapName[vector[k]] # CapName[Head(todo)]
      BY <1>0, <2>3, NamesakesCounted
    <2>5. InOrder' <=> InOrder
      BY <2>1 DEF InOrder, All
    <2> QED
      BY <1>0, <2>1, <2>4, <2>5 DEF CleanBuild, OrderInv, OpenedInv, NamesInv
  <1>8. CASE ReadCapsule
    <2>1. phase = "open" /\ phase' = "store" /\ UNCHANGED <<bargs, included, vector, todo>>
      BY <1>8 DEF ReadCapsule, In
    <2>2. opened' = opened \cup {Head(todo)}
      BY <1>0, <1>8 DEF ReadCapsule, Open, SeriousThen, SeriousErrors
    <2>3. InOrder' <=> InOrder
      BY <2>1 DEF InOrder, All
    <2> QED
      BY <1>0, <2>1, <2>2, <2>3 DEF CleanBuild, OrderInv, OpenedInv, NamesInv
  <1>9. CASE StoreCapsule
    <2>1. PICK c, q : c = Head(todo) /\ q = vector
      OBVIOUS
    <2>2. /\ phase = "store" /\ phase' = "names" /\ vector' = Append(q, c) /\ todo' = Tail(todo)
          /\ UNCHANGED <<bargs, included, opened>> /\ todo # <<>>
      BY <1>9, <2>1 DEF StoreCapsule, In, capsuleVars, BuildTyped, BuildTypeOK
    <2>3. InOrder'
      BY <1>0, <2>1, <2>2, StoreInOrder DEF CleanBuild, OrderInv
    <2>4. /\ DOMAIN Append(q, c) = 1 .. Len(q) + 1 /\ DOMAIN q = 1 .. Len(q) /\ Len(q) \in Nat
          /\ Append(q, c)[Len(q) + 1] = c /\ \A k \in 1 .. Len(q) : Append(q, c)[k] = q[k]
      BY <1>0, <2>1
    <2>5. \A k \in 1 .. Len(q) + 1 : k \in 1 .. Len(q) \/ k = Len(q) + 1
      BY <2>4
    <2>6. /\ \A k \in DOMAIN q : q[k] \in opened
          /\ c \in opened
          /\ \A j, k \in DOMAIN q : CapName[q[j]] = CapName[q[k]] => j = k
          /\ \A k \in DOMAIN q : CapName[q[k]] # CapName[c]
      BY <1>0, <2>1, <2>2 DEF CleanBuild, OpenedInv, NamesInv
    <2>7. \A k \in DOMAIN vector' : vector'[k] \in opened'
      BY <2>2, <2>4, <2>5, <2>6
    <2>8. \A j, k \in DOMAIN vector' : CapName[vector'[j]] = CapName[vector'[k]] => j = k
      BY <2>2, <2>4, <2>5, <2>6
    <2> QED
      BY <2>2, <2>3, <2>7, <2>8 DEF CleanBuild, OrderInv, OpenedInv, NamesInv
  <1>10. CASE EndCapsules
    <2>1. /\ phase = "names" /\ phase' = "check" /\ todo = <<>>
          /\ UNCHANGED <<bargs, included, vector, todo, opened>>
      BY <1>10 DEF EndCapsules, In, capsuleVars
    <2>2. InOrder' <=> InOrder
      BY <2>1 DEF InOrder, All
    <2> QED
      BY <1>0, <2>1, <2>2 DEF CleanBuild, OrderInv, OpenedInv, NamesInv
  <1>11. CASE builder_check_multi_defs \/ builder_suppress \/ builder_write_library
    <2>1. /\ phase \in {"check", "suppress", "write"} /\ phase' \in {"suppress", "write", "done"}
          /\ UNCHANGED <<bargs, included, vector, todo, opened>>
      BY <1>11 DEF builder_check_multi_defs, builder_suppress, builder_write_library, In, readerVars
    <2>2. InOrder' <=> InOrder
      BY <2>1 DEF InOrder, All
    <2> QED
      BY <1>0, <2>1, <2>2 DEF CleanBuild, OrderInv, OpenedInv, NamesInv
  <1> QED
    BY <1>2, <1>3, <1>4, <1>5, <1>6, <1>7, <1>8, <1>9, <1>10, <1>11
    DEF BuilderNext, BuilderStep, BuildStep, BuilderEnd

LEMMA InitCleanBuild == BuilderInit => CleanBuild
  BY DEF BuilderInit, CapsuleInit, CleanBuild, OrderInv, OpenedInv, NamesInv

\* What a clean build has put into the library.
LEMMA CleanCaps ==
  ASSUME BuildInv, CleanBuild, library # NULL, errors = 0
  PROVE  /\ vector = included \o bargs.inputs
         /\ \A k \in DOMAIN vector : vector[k] \in complete /\ vector[k] \in Capsules
         /\ \A j, k \in DOMAIN vector : CapName[vector[j]] = CapName[vector[k]] => j = k
  <1>1. phase = "done" /\ pc = "idle" /\ Clean
    BY DEF BuildInv, LibraryInv, Clean
  <1>2. InOrder /\ todo = <<>> /\ \A k \in DOMAIN vector : vector[k] \in opened
    BY <1>1 DEF CleanBuild, OrderInv, OpenedInv
  <1>3. opened \subseteq complete /\ complete \subseteq Capsules
    BY <1>1 DEF BuildInv, BuildReads, AllRead, BuildTyped, Typed, CapsuleTypeOK, ControlTypeOK
  <1>4. vector \in Seq(Places) /\ All \in Seq(Places)
    <2>1. /\ vector \in Seq(Places) /\ included \in Seq(Places) /\ bargs.inputs \in Seq(Capsules)
          /\ Capsules \subseteq Places
      BY BuildArgTyped DEF BuildInv, BuildReads, BuildTyped, BuildTypeOK, Places
    <2>2. bargs.inputs \in Seq(Places)
      BY <2>1
    <2> QED
      BY <2>1, <2>2, SeqConcat DEF All
  <1>5. vector = All
    <2> HIDE DEF All
    <2>1. Len(vector) = Len(All) /\ \A k \in 1 .. Len(vector) : vector[k] = All[k]
      BY <1>2, <1>4 DEF InOrder
    <2> QED
      BY <1>4, <2>1
  <1> QED
    BY <1>1, <1>2, <1>3, <1>5 DEF All, CleanBuild, NamesInv

\* A build without errors is complete (builder.c:88-160).
THEOREM CleanLibraryIsWholeInvariant == BuilderSpec => []CleanLibraryIsWhole
  <1>1. BuildInv /\ CleanBuild => CleanLibraryIsWhole
    <2> SUFFICES ASSUME BuildInv, CleanBuild, library # NULL, errors = 0
                 PROVE  /\ library.caps = included \o bargs.inputs
                        /\ \A k \in DOMAIN library.caps : HasContents(k)
                        /\ \A j, k \in DOMAIN library.caps :
                              CapName[library.caps[j]] = CapName[library.caps[k]] => j = k
      BY DEF CleanLibraryIsWhole
    <2>1. library.caps = vector /\ library.whole = complete
      BY IndexEntries
    <2> QED
      BY <2>1, CleanCaps DEF HasContents
  <1>2. BuilderInit => BuildInv /\ CleanBuild
    BY InitBuild, InitCleanBuild
  <1>3. BuildInv /\ CleanBuild /\ [BuilderNext]_builderVars => (BuildInv /\ CleanBuild)'
    BY NextBuild, NextCleanBuild DEF BuildInv, BuildReads
  <1> QED
    BY <1>1, <1>2, <1>3, PTL DEF BuilderSpec

\* The index of a library leads to capsules that define the name; they are empty
\* only after an error (builder.c:91, capsule.c:1048, name-entry.c:333).
THEOREM IndexLeadsToDefinitionInvariant == BuilderSpec => []IndexLeadsToDefinition
  <1>1. BuildInv /\ CleanBuild => IndexLeadsToDefinition
    <2> SUFFICES ASSUME BuildInv, CleanBuild, library # NULL, NEW e \in library.index
                 PROVE  /\ e.index \in DOMAIN library.caps
                        /\ Definer(library.caps[e.index], e.name)
                        /\ errors = 0 => HasContents(e.index)
      BY DEF IndexLeadsToDefinition
    <2>1. e.name \in Names /\ DefinesInv
      BY IndexEntries DEF BuildInv, BuildReads, BuildTyped, Typed, CapsuleTypeOK, TablesTypeOK
    <2>2. e.index \in DOMAIN library.caps /\ Definer(library.caps[e.index], e.name)
      BY <2>1, IndexEntries DEF DefinesInv
    <2>3. ASSUME errors = 0 PROVE HasContents(e.index)
      BY <2>3, IndexEntries, CleanCaps DEF HasContents
    <2> QED
      BY <2>2, <2>3
  <1>2. BuilderInit => BuildInv /\ CleanBuild
    BY InitBuild, InitCleanBuild
  <1>3. BuildInv /\ CleanBuild /\ [BuilderNext]_builderVars => (BuildInv /\ CleanBuild)'
    BY NextBuild, NextCleanBuild DEF BuildInv, BuildReads
  <1> QED
    BY <1>1, <1>2, <1>3, PTL DEF BuilderSpec

-----------------------------------------------------------------------------
\* A build without errors has a single definition for every name that is defined,
\* and of these only the suppressed ones are lost.
DefsInv ==
  /\ phase \in {"write", "done"} => \A n \in direct : def[n] # NULL => ~Suppressed(n)
  /\ errors = 0 /\ phase = "suppress" => \A n \in direct : ~NoSingleDefinition(n)
  /\ errors = 0 /\ phase \in {"write", "done"} =>
       \A n \in direct : use[n] \cap {"DEFD", "MULT"} # {} /\ def[n] = NULL => Suppressed(n)

\* Names without a single definition are errors, then definitions are suppressed
\* (builder.c:171-230).
LEMMA NextDefs ==
  ASSUME BuildReads, DefsInv, [BuilderNext]_builderVars
  PROVE  DefsInv'
  <1>0. /\ BuildTyped /\ IsFiniteSet(direct) /\ errors \in Nat /\ direct \subseteq Names
        /\ pc \in Stages => phase = "store"
    BY DEF BuildReads, BuildTyped, BuildTypeOK, Typed, CapsuleTypeOK, ControlTypeOK, TablesTypeOK
  <1>1. CASE phase' \notin {"suppress", "write", "done"}
    BY <1>1 DEF DefsInv
  <1>2. CASE builder_check_multi_defs
    <2> DEFINE S == {n \in direct : NoSingleDefinition(n)}
    <2>1. /\ phase' = "suppress" /\ errors' = errors + Cardinality(S)
          /\ UNCHANGED <<direct, use, def>>
      BY <1>2 DEF builder_check_multi_defs, SeriousErrors, readerVars, tableVars, usageVars
    <2>2. IsFiniteSet(S)
      BY <1>0, FS_Subset
    <2>3. Cardinality(S) \in Nat /\ (Cardinality(S) = 0 => S = {})
      BY <2>2, FS_CardinalityType, FS_EmptySet
    <2>4. errors' = 0 => S = {}
      BY <1>0, <2>1, <2>3
    <2>5. \A n : NoSingleDefinition(n)' <=> NoSingleDefinition(n)
      BY <2>1 DEF NoSingleDefinition
    <2> QED
      BY <2>1, <2>4, <2>5 DEF DefsInv
  <1>3. CASE builder_suppress
    <2>1. /\ phase = "suppress" /\ phase' = "write" /\ UNCHANGED <<errors, direct, use, bargs>>
          /\ \A n \in Names : def'[n] = IF n \in direct /\ Suppressed(n) THEN NULL ELSE def[n]
      BY <1>3 DEF builder_suppress, In, tableVars
    <2>2. \A n : Suppressed(n)' <=> Suppressed(n)
      BY <2>1 DEF Suppressed
    <2>3. UseInv
      BY <2>1 DEF BuildReads
    <2>4. ASSUME errors = 0, NEW n \in direct, use[n] \cap {"DEFD", "MULT"} # {} PROVE def[n] # NULL
      BY <1>0, <2>1, <2>3, <2>4 DEF DefsInv, NoSingleDefinition, UseInv, DefdHasDefinition
    <2> HIDE DEF Suppressed
    <2> QED
      BY <1>0, <2>1, <2>2, <2>4 DEF DefsInv
  <1>4. CASE phase \in {"write", "done"} /\ phase' \in {"write", "done"}
             /\ UNCHANGED <<direct, use, def, bargs, errors>>
    <2>1. \A n : Suppressed(n)' <=> Suppressed(n)
      BY <1>4 DEF Suppressed
    <2> HIDE DEF Suppressed
    <2> QED
      BY <1>4, <2>1 DEF DefsInv
  <1>5. CASE builder_write_library
    BY <1>4, <1>5 DEF builder_write_library, In, readerVars, tableVars, usageVars
  <1>6. CASE UNCHANGED builderVars
    <2>1. UNCHANGED <<direct, use, def, bargs, errors, phase>>
      BY <1>6 DEF builderVars, capsuleVars, buildVars
    <2>2. \A n : (Suppressed(n)' <=> Suppressed(n)) /\ (NoSingleDefinition(n)' <=> NoSingleDefinition(n))
      BY <2>1 DEF Suppressed, NoSingleDefinition
    <2> HIDE DEF Suppressed
    <2> QED
      BY <2>1, <2>2 DEF DefsInv
  <1>7. CASE ReadStep /\ UNCHANGED buildVars
    BY <1>0, <1>1, <1>7, ReadStepReads DEF buildVars
  <1>8. CASE builder_read_library \/ EndLibraries \/ CannotOpen \/ CheckNames \/ EndCapsules
             \/ ReadCapsule \/ StoreCapsule
    BY <1>1, <1>8 DEF builder_read_library, EndLibraries, CannotOpen, CheckNames, EndCapsules,
       ReadCapsule, StoreCapsule, In
  <1> QED
    BY <1>2, <1>3, <1>5, <1>6, <1>7, <1>8 DEF BuilderNext, BuilderStep, BuildStep, BuilderEnd

LEMMA InitDefs == BuilderInit => DefsInv
  BY DEF BuilderInit, DefsInv

\* A name that a capsule of the library defines is in the table, and the table
\* knows that it is defined (capsule.c:472, capsule.c:598).
LEMMA DefinersKnown ==
  ASSUME BuildReads, NEW c \in complete, NEW n \in Names, Definer(c, n)
  PROVE  n \in direct /\ use[n] \cap {"DEFD", "MULT"} # {}
  <1>1. PICK j \in DOMAIN file[c].externs :
          /\ file[c].externs[j].name = n /\ Tells(c, n)
          /\ file[c].externs[j].use \cap {"DEFD", "MULT"} # {}
    BY DEF Definer
  <1>2. indirect[n] = n
    BY NotRenamed DEF BuildReads, BuildTyped
  <1>3. Agrees(c, j) /\ (Told(c, j) => IsMerged(c, j))
    BY DEF BuildReads, AgreeInv, MergedInv
  <1>4. n \in direct
    BY <1>1, <1>2, <1>3 DEF Agrees
  <1>5. file[c].externs[j].use \subseteq use[n]
    BY <1>1, <1>3 DEF Told, IsMerged
  <1> QED
    BY <1>1, <1>4, <1>5

\* The index of a clean build holds exactly the names that its capsules define,
\* but for the suppressed ones (builder.c:171-230).
THEOREM CleanIndexIsExactInvariant == BuilderSpec => []CleanIndexIsExact
  <1>1. BuildInv /\ CleanBuild /\ DefsInv => CleanIndexIsExact
    <2> SUFFICES ASSUME BuildInv, CleanBuild, DefsInv, library # NULL, errors = 0, NEW n
                 PROVE  (\E e \in library.index : e.name = n) <=>
                          /\ n \in Names /\ ~Suppressed(n)
                          /\ \E k \in DOMAIN library.caps : Definer(library.caps[k], n)
      BY DEF CleanIndexIsExact
    <2>1. library.caps = vector /\ phase = "done"
      BY IndexEntries DEF BuildInv, LibraryInv
    <2>2. direct \subseteq Names /\ DefinesInv /\ BuildReads
      BY DEF BuildInv, BuildReads, BuildTyped, Typed, CapsuleTypeOK, TablesTypeOK
    <2>3. ASSUME NEW e \in library.index, e.name = n
          PROVE  /\ n \in Names /\ ~Suppressed(n)
                 /\ \E k \in DOMAIN library.caps : Definer(library.caps[k], n)
      <3>1. n \in direct /\ def[n] # NULL /\ e.index \in DOMAIN vector /\ vector[e.index] = def[n]
        BY <2>3, IndexEntries
      <3>2. Definer(def[n], n)
        BY <2>2, <3>1 DEF DefinesInv
      <3>3. ~Suppressed(n)
        BY <2>1, <3>1 DEF DefsInv
      <3> QED
        BY <2>1, <2>2, <3>1, <3>2, <3>3
    <2>4. ASSUME n \in Names, ~Suppressed(n), NEW k \in DOMAIN vector, Definer(vector[k], n)
          PROVE  \E e \in library.index : e.name = n
      <3>1. vector[k] \in complete
        BY CleanCaps
      <3>2. n \in direct /\ use[n] \cap {"DEFD", "MULT"} # {}
        BY <2>2, <2>4, <3>1, DefinersKnown
      <3>3. def[n] # NULL
        BY <2>1, <2>4, <3>2 DEF DefsInv
      <3> QED
        BY <3>2, <3>3, IndexEntries
    <2> QED
      BY <2>1, <2>3, <2>4
  <1> DEFINE Inv == BuildInv /\ CleanBuild /\ DefsInv
  <1>2. BuilderInit => Inv
    BY InitBuild, InitCleanBuild, InitDefs
  <1>3. Inv /\ [BuilderNext]_builderVars => Inv'
    BY NextBuild, NextCleanBuild, NextDefs DEF BuildInv, BuildReads
  <1>4. Inv => CleanIndexIsExact
    BY <1>1
  <1> QED
    BY <1>2, <1>3, <1>4, PTL DEF BuilderSpec

-----------------------------------------------------------------------------
\* The extractor leaves what the builder made alone, and the builder has ended
\* when the extractor starts.
LEMMA ExtractSteps ==
  ASSUME [ExtractNext]_extractAllVars
  PROVE  /\ [BuilderNext]_builderVars /\ xarg' = xarg
         /\ library # NULL => UNCHANGED builderVars
  BY DEF ExtractNext, BuilderNext, library_read, library_extract_all, MatchCapsule, NextFile,
         EndExtract, ExtractEnd, extractAllVars, extractVars

\* What the extractor starts from.
ExtractTypeOK ==
  /\ xarg \in ExtractArgs
  /\ stage \in {"wait", "all", "named", "done", "fatal"}
  /\ fi \in Nat \ {0} /\ ci \in Nat \ {0}
  /\ disk \in [FileNames -> Capsules \cup {"empty", NULL}]
  /\ stage = "wait" => \A f \in FileNames : disk[f] = NULL
  /\ stage # "wait" => library # NULL
  /\ (stage = "all" => xarg.all) /\ (stage = "named" => ~xarg.all)

\* The capsules of a library have file names, with and without directories.
LEMMA CapsuleAt ==
  ASSUME BuildInv, library # NULL, xarg \in ExtractArgs, NEW k \in DOMAIN library.caps
  PROVE  /\ library.caps[k] \in Capsules /\ Target(library.caps[k]) \in FileNames
         /\ ContentsOf(library.caps[k]) \in Capsules \cup {"empty", NULL}
  <1>1. library.caps = vector /\ vector[k] # NULL /\ vector \in Seq(Places)
    BY IndexEntries DEF BuildInv, LibraryInv, BuildReads, BuildTyped, BuildTypeOK
  <1>2. library.caps[k] \in Capsules
    BY <1>1 DEF Places
  <1>3. BaseName \in [FileNames -> FileNames] /\ CapName \in [Capsules -> FileNames]
    BY ExtractAssumption
  <1> HIDE DEF FileNames
  <1> QED
    BY <1>2, <1>3 DEF Target, ContentsOf

\* The contents of a capsule are written to its file.
Writes(c) == disk' = [disk EXCEPT ![Target(c)] = ContentsOf(c)]

\* The vector of capsules of a library.
LEMMA LibraryVector ==
  ASSUME BuildInv, library # NULL
  PROVE  DOMAIN library.caps = 1 .. Len(library.caps) /\ Len(library.caps) \in Nat
  <1>1. library.caps = vector /\ vector \in Seq(Places)
    BY IndexEntries DEF BuildInv, BuildReads, BuildTyped, BuildTypeOK
  <1> QED
    BY <1>1

\* What may be written: a capsule of the library that was asked for.
LEMMA DiskSteps ==
  ASSUME BuildInv, ExtractTypeOK, [ExtractNext]_extractAllVars
  PROVE  \/ disk' = disk
         \/ /\ stage # "wait" /\ ci \in DOMAIN library.caps
            /\ Wanted(library.caps[ci]) /\ Writes(library.caps[ci])
  <1>1. CASE library_extract_all /\ disk' # disk
    <2>1. xarg.all /\ stage # "wait" /\ ci <= Len(library.caps) /\ Writes(library.caps[ci])
      BY <1>1 DEF library_extract_all, library_extract_1, Writes, ExtractTypeOK
    <2>2. ci \in DOMAIN library.caps
      BY <2>1, LibraryVector DEF ExtractTypeOK
    <2> QED
      BY <2>1, <2>2 DEF Wanted
  <1>2. CASE MatchCapsule /\ disk' # disk
    <2>1. /\ fi <= Len(xarg.files) /\ stage # "wait" /\ ci <= Len(library.caps)
          /\ Matches(xarg.files[fi], library.caps[ci]) /\ Writes(library.caps[ci])
      BY <1>2 DEF MatchCapsule, library_extract_1, Writes
    <2>2. ci \in DOMAIN library.caps
      BY <2>1, LibraryVector DEF ExtractTypeOK
    <2>3. xarg.files \in Seq(FileNames)
      BY ExtractAssumption DEF ExtractTypeOK, ExtractArg
    <2>4. fi \in DOMAIN xarg.files
      BY <2>1, <2>3 DEF ExtractTypeOK
    <2> QED
      BY <2>1, <2>2, <2>4 DEF Wanted, Matches
  <1> QED
    BY <1>1, <1>2 DEF ExtractNext, library_read, NextFile, EndExtract, ExtractEnd, extractAllVars,
                      extractVars

LEMMA NextExtractTypeOK ==
  ASSUME BuildInv, ExtractTypeOK, [ExtractNext]_extractAllVars
  PROVE  ExtractTypeOK'
  <1>1. xarg' = xarg /\ (library # NULL => library' = library)
    BY ExtractSteps DEF builderVars, buildVars
  <1>2. /\ stage' \in {"wait", "all", "named", "done", "fatal"}
        /\ fi' \in Nat \ {0} /\ ci' \in Nat \ {0}
        /\ stage' # "wait" => library # NULL
        /\ stage' = "wait" => disk' = disk /\ stage = "wait"
        /\ (stage' = "all" => xarg.all) /\ (stage' = "named" => ~xarg.all)
    <2> USE DEF ExtractTypeOK
    <2>1. CASE library_read
      BY <2>1, ExtractAssumption DEF library_read, ExtractArg
    <2>2. CASE library_extract_all
      BY <2>2 DEF library_extract_all, library_extract_1
    <2>3. CASE MatchCapsule
      BY <2>3 DEF MatchCapsule, library_extract_1
    <2>4. CASE NextFile \/ EndExtract
      BY <2>4 DEF NextFile, EndExtract
    <2>5. CASE UNCHANGED extractVars
      BY <2>5 DEF extractVars
    <2> QED
      BY <2>1, <2>2, <2>3, <2>4, <2>5 DEF ExtractNext, ExtractEnd, extractAllVars
  <1>3. disk' \in [FileNames -> Capsules \cup {"empty", NULL}]
    <2>1. CASE disk' = disk
      BY <2>1 DEF ExtractTypeOK
    <2>2. CASE stage # "wait" /\ ci \in DOMAIN library.caps /\ Writes(library.caps[ci])
      <3>1. /\ Target(library.caps[ci]) \in FileNames
            /\ ContentsOf(library.caps[ci]) \in Capsules \cup {"empty", NULL}
        BY <2>2, CapsuleAt DEF ExtractTypeOK
      <3> HIDE DEF FileNames
      <3> QED
        BY <2>2, <3>1 DEF Writes, ExtractTypeOK
    <2> QED
      BY <2>1, <2>2, DiskSteps
  <1> QED
    BY <1>1, <1>2, <1>3 DEF ExtractTypeOK

\* All that is known when capsules are extracted.
ExtractInv == BuildInv /\ CleanBuild /\ ExtractTypeOK

LEMMA InitExtract == ExtractInit => ExtractInv
  <1>1. ExtractInit => ExtractTypeOK
    BY DEF ExtractInit, BuilderInit, ExtractTypeOK
  <1> QED
    BY <1>1, InitBuild, InitCleanBuild DEF ExtractInit, ExtractInv

LEMMA NextExtract == ExtractInv /\ [ExtractNext]_extractAllVars => ExtractInv'
  <1> SUFFICES ASSUME ExtractInv, [ExtractNext]_extractAllVars PROVE ExtractInv'
    OBVIOUS
  <1>1. BuildInv /\ CleanBuild /\ ExtractTypeOK /\ BuildTyped
    BY DEF ExtractInv, BuildInv, BuildReads
  <1> QED
    BY <1>1, ExtractSteps, NextBuild, NextCleanBuild, NextExtractTypeOK DEF ExtractInv

\* What the user asks for is not affected by what is done.
LEMMA SameLibrary ==
  ASSUME ExtractInv, [ExtractNext]_extractAllVars, library # NULL
  PROVE  /\ library' = library /\ xarg' = xarg
         /\ \A c : /\ (Wanted(c)' <=> Wanted(c)) /\ Target(c)' = Target(c)
                   /\ ContentsOf(c)' = ContentsOf(c)
         /\ \A f, c : Matches(f, c)' <=> Matches(f, c)
  <1>1. library' = library /\ xarg' = xarg
    BY ExtractSteps DEF builderVars, buildVars
  <1> QED
    BY <1>1 DEF Wanted, Target, ContentsOf, Matches

\* Only capsules that were asked for are extracted, each to its own file and as
\* the library holds it (extract.c:60-84, library.c:196-260).
THEOREM ExtractedWasAskedForInvariant == ExtractSpec => []ExtractedWasAskedFor
  <1>1. ExtractInit => ExtractedWasAskedFor
    BY DEF ExtractInit, ExtractedWasAskedFor
  <1>2. ASSUME ExtractInv, ExtractedWasAskedFor, [ExtractNext]_extractAllVars
        PROVE  ExtractedWasAskedFor'
    <2>1. BuildInv /\ ExtractTypeOK /\ ExtractTypeOK'
      BY <1>2, NextExtract DEF ExtractInv
    <2>2. CASE stage' = "wait"
      BY <2>1, <2>2 DEF ExtractTypeOK, ExtractedWasAskedFor
    <2>3. CASE stage' # "wait" /\ disk' = disk
      <3>1. library # NULL \/ \A f \in FileNames : disk[f] = NULL
        BY <2>1 DEF ExtractTypeOK
      <3>2. CASE library # NULL
        BY <1>2, <2>3, <3>2, SameLibrary DEF ExtractedWasAskedFor
      <3> QED
        BY <2>3, <3>1, <3>2 DEF ExtractedWasAskedFor
    <2>4. CASE /\ stage # "wait" /\ ci \in DOMAIN library.caps
               /\ Wanted(library.caps[ci]) /\ Writes(library.caps[ci])
      <3>1. library # NULL /\ disk \in [FileNames -> Capsules \cup {"empty", NULL}]
        BY <2>1, <2>4 DEF ExtractTypeOK
      <3>2. PICK c, k : k = ci /\ c = library.caps[ci]
        OBVIOUS
      <3>3. \A f \in FileNames : disk'[f] = IF f = Target(c) THEN ContentsOf(c) ELSE disk[f]
        BY <2>4, <3>1, <3>2 DEF Writes
      <3>4. ASSUME NEW f \in FileNames, disk'[f] # NULL
            PROVE  \E j \in DOMAIN library.caps :
                      /\ Wanted(library.caps[j]) /\ disk'[f] = ContentsOf(library.caps[j])
                      /\ f = Target(library.caps[j])
        <4>1. CASE f = Target(c)
          BY <2>4, <3>2, <3>3, <4>1
        <4>2. CASE f # Target(c)
          BY <1>2, <3>3, <3>4, <4>2 DEF ExtractedWasAskedFor
        <4> QED
          BY <4>1, <4>2
      <3> QED
        BY <1>2, <3>1, <3>4, SameLibrary DEF ExtractedWasAskedFor
    <2> QED
      BY <1>2, <2>1, <2>2, <2>3, <2>4, DiskSteps
  <1> QED
    BY <1>1, <1>2, InitExtract, NextExtract, PTL DEF ExtractSpec

-----------------------------------------------------------------------------
\* The file of a capsule holds it, or another one that goes to the same file.
Stored(k) ==
  \E j \in DOMAIN library.caps :
     /\ Target(library.caps[j]) = Target(library.caps[k])
     /\ disk[Target(library.caps[k])] = ContentsOf(library.caps[j])

\* Everything that was asked for and that the loops have passed is stored.
StoredInv ==
  /\ stage = "wait" => fi = 1 /\ ci = 1
  /\ stage = "all" => \A k \in DOMAIN library.caps : k < ci => Stored(k)
  /\ stage = "named" =>
       \A f \in DOMAIN xarg.files, k \in DOMAIN library.caps :
          Matches(xarg.files[f], library.caps[k]) /\ (f < fi \/ (f = fi /\ k < ci)) => Stored(k)
  /\ stage = "done" => \A k \in DOMAIN library.caps : Wanted(library.caps[k]) => Stored(k)

\* A capsule that is extracted is stored, and what was stored stays stored.
LEMMA StoredGrows ==
  ASSUME ExtractInv, [ExtractNext]_extractAllVars, library # NULL, NEW k \in DOMAIN library.caps
  PROVE  /\ Stored(k) => Stored(k)'
         /\ ci = k /\ Writes(library.caps[k]) => Stored(k)'
  <1>1. BuildInv /\ ExtractTypeOK
    BY DEF ExtractInv
  <1>2. PICK x, g : x = library.caps /\ g = Target(x[k])
    OBVIOUS
  <1>3. Stored(k)' <=> \E j \in DOMAIN x : Target(x[j]) = g /\ disk'[g] = ContentsOf(x[j])
    BY <1>2, SameLibrary DEF Stored
  <1>4. g \in FileNames /\ disk \in [FileNames -> Capsules \cup {"empty", NULL}]
    BY <1>1, <1>2, CapsuleAt DEF ExtractTypeOK
  <1>5. ASSUME NEW i \in DOMAIN x, Writes(x[i])
        PROVE  disk'[g] = IF Target(x[i]) = g THEN ContentsOf(x[i]) ELSE disk[g]
    BY <1>4, <1>5 DEF Writes
  <1>6. ASSUME Stored(k) PROVE Stored(k)'
    <2>1. PICK j \in DOMAIN x : Target(x[j]) = g /\ disk[g] = ContentsOf(x[j])
      BY <1>2, <1>6 DEF Stored
    <2>2. CASE disk' = disk
      BY <1>3, <2>1, <2>2
    <2>3. CASE ci \in DOMAIN x /\ Writes(x[ci])
      <3>1. PICK i : i = ci
        OBVIOUS
      <3> QED
        BY <1>3, <1>5, <2>1, <2>3, <3>1
    <2> QED
      BY <1>1, <1>2, <2>2, <2>3, DiskSteps
  <1>7. ASSUME Writes(x[k]) PROVE Stored(k)'
    BY <1>2, <1>3, <1>5, <1>7
  <1> QED
    BY <1>2, <1>6, <1>7

\* The index of a library that was written is accepted by the extractor.
LEMMA IndexAccepted ==
  ASSUME BuildInv, library # NULL
  PROVE  ~(library.major < 4) /\ ~(\E e \in library.index : IllegalUse(e.use, FALSE, FALSE))
  <1>1. library.major = major /\ major >= 4 /\ major \in Nat
    BY IndexEntries DEF BuildInv, LibraryInv, BuildReads, BuildTyped, Typed, CapsuleTypeOK
  <1>2. direct \subseteq Names /\ use \in [Names -> SUBSET Bits]
    BY DEF BuildInv, BuildReads, BuildTyped, Typed, CapsuleTypeOK, TablesTypeOK, UsagesTypeOK
  <1>3. \A e \in library.index : e.use \in SUBSET Bits
    BY <1>2, IndexEntries
  <1>4. \A e \in library.index : ~IllegalUse(e.use, FALSE, FALSE)
    BY <1>3 DEF IllegalUse
  <1>5. ~(library.major < 4)
    BY <1>1
  <1> QED
    BY <1>4, <1>5

LEMMA NextStored ==
  ASSUME ExtractInv, StoredInv, [ExtractNext]_extractAllVars
  PROVE  StoredInv'
  <1>0. BuildInv /\ ExtractTypeOK
    BY DEF ExtractInv
  <1>1. ci \in Nat \ {0} /\ fi \in Nat \ {0} /\ xarg.files \in Seq(FileNames)
    BY <1>0, ExtractAssumption DEF ExtractTypeOK, ExtractArg
  <1>2. /\ DOMAIN xarg.files = 1 .. Len(xarg.files) /\ Len(xarg.files) \in Nat
    BY <1>1
  <1>3. library # NULL => /\ DOMAIN library.caps = 1 .. Len(library.caps)
                          /\ Len(library.caps) \in Nat
    BY <1>0, LibraryVector
  <1>4. CASE library_read
    <2>1. library # NULL /\ stage' \in {"all", "named"} /\ UNCHANGED <<ci, fi, xarg, library>>
      BY <1>0, <1>4, IndexAccepted DEF library_read, builderVars, buildVars
    <2>2. ci = 1 /\ fi = 1
      BY <1>4 DEF StoredInv, library_read
    <2> QED
      BY <1>2, <1>3, <2>1, <2>2 DEF StoredInv
  <1>5. CASE library_extract_all
    <2>1. stage = "all" /\ library # NULL /\ UNCHANGED <<fi, xarg, library>> /\ xarg.all
      BY <1>0, <1>5 DEF library_extract_all, ExtractTypeOK, builderVars, buildVars
    <2>2. CASE ci <= Len(library.caps) /\ library_extract_1(library.caps[ci], "all") /\ ci' = ci + 1
      <3>1. PICK i : i = ci
        OBVIOUS
      <3>2. i \in DOMAIN library.caps
        BY <1>1, <1>3, <2>1, <2>2, <3>1
      <3>3. stage' = "fatal" \/ (stage' = "all" /\ Writes(library.caps[i]))
        BY <2>2, <3>1 DEF library_extract_1, Writes
      <3>4. CASE stage' = "fatal"
        BY <3>4 DEF StoredInv
      <3>5. CASE stage' = "all" /\ Writes(library.caps[i])
        <4>1. ASSUME NEW k \in DOMAIN library.caps, k < i + 1 PROVE Stored(k)'
          <5>1. k < i \/ k = i
            BY <1>1, <1>3, <2>1, <3>1, <4>1
          <5> QED
            BY <2>1, <3>1, <3>2, <3>5, <5>1, StoredGrows DEF StoredInv
        <4> QED
          BY <2>1, <2>2, <3>1, <3>5, <4>1 DEF StoredInv
      <3> QED
        BY <3>3, <3>4, <3>5
    <2>3. CASE ci > Len(library.caps) /\ stage' = "done"
      <3>1. ASSUME NEW k \in DOMAIN library.caps PROVE Stored(k)'
        <4>1. k < ci
          BY <1>1, <1>3, <2>1, <2>3
        <4> QED
          BY <2>1, <4>1, StoredGrows DEF StoredInv
      <3> QED
        BY <2>1, <2>3, <3>1 DEF StoredInv
    <2> QED
      BY <1>5, <2>2, <2>3 DEF library_extract_all
  <1>6. CASE MatchCapsule
    <2>1. /\ stage = "named" /\ library # NULL /\ UNCHANGED <<fi, xarg, library>> /\ ci' = ci + 1
          /\ ci <= Len(library.caps)
      BY <1>0, <1>6 DEF MatchCapsule, ExtractTypeOK, builderVars, buildVars
    <2>2. PICK i, f : i = ci /\ f = xarg.files[fi]
      OBVIOUS
    <2>3. i \in DOMAIN library.caps
      BY <1>1, <1>3, <2>1, <2>2
    <2>4. \/ stage' = "fatal"
          \/ stage' = "named" /\ (Matches(f, library.caps[i]) => Writes(library.caps[i]))
      BY <1>6, <2>1, <2>2 DEF MatchCapsule, library_extract_1, Writes
    <2>5. CASE stage' = "fatal"
      BY <2>5 DEF StoredInv
    <2>6. CASE stage' = "named" /\ (Matches(f, library.caps[i]) => Writes(library.caps[i]))
      <3>1. ASSUME NEW g \in DOMAIN xarg.files, NEW k \in DOMAIN library.caps,
                   Matches(xarg.files[g], library.caps[k]), g < fi \/ (g = fi /\ k < i + 1)
            PROVE  Stored(k)'
        <4>1. g < fi \/ (g = fi /\ k < i) \/ (g = fi /\ k = i)
          BY <1>1, <1>3, <2>1, <2>2, <3>1
        <4>2. CASE g < fi \/ (g = fi /\ k < ci)
          BY <2>1, <3>1, <4>2, StoredGrows DEF StoredInv
        <4>3. CASE g = fi /\ k = i
          BY <2>1, <2>2, <2>6, <3>1, <4>3, StoredGrows
        <4> QED
          BY <2>2, <4>1, <4>2, <4>3
      <3> QED
        BY <2>1, <2>2, <2>6, <3>1, SameLibrary DEF StoredInv
    <2> QED
      BY <2>4, <2>5, <2>6
  <1>7. CASE NextFile
    <2>1. /\ stage = "named" /\ library # NULL /\ UNCHANGED <<stage, xarg, library>>
          /\ ci > Len(library.caps) /\ fi' = fi + 1 /\ ci' = 1
      BY <1>0, <1>7 DEF NextFile, ExtractTypeOK, builderVars, buildVars
    <2>2. ASSUME NEW g \in DOMAIN xarg.files, NEW k \in DOMAIN library.caps,
                 Matches(xarg.files[g], library.caps[k]), g < fi + 1 \/ (g = fi + 1 /\ k < 1)
          PROVE  Stored(k)'
      <3>1. g < fi \/ (g = fi /\ k < ci)
        BY <1>1, <1>2, <1>3, <2>1, <2>2
      <3> QED
        BY <2>1, <2>2, <3>1, StoredGrows DEF StoredInv
    <2> QED
      BY <2>1, <2>2, SameLibrary DEF StoredInv
  <1>8. CASE EndExtract
    <2>1. /\ stage = "named" /\ library # NULL /\ UNCHANGED <<xarg, library>>
          /\ fi > Len(xarg.files) /\ stage' = "done" /\ ~xarg.all
      BY <1>0, <1>8 DEF EndExtract, ExtractTypeOK, builderVars, buildVars
    <2>2. ASSUME NEW k \in DOMAIN library.caps, Wanted(library.caps[k]) PROVE Stored(k)'
      <3>1. PICK g \in DOMAIN xarg.files : Matches(xarg.files[g], library.caps[k])
        BY <2>1, <2>2 DEF Wanted, Matches
      <3>2. g < fi
        BY <1>1, <1>2, <2>1
      <3> QED
        BY <2>1, <3>1, <3>2, StoredGrows DEF StoredInv
    <2> QED
      BY <2>1, <2>2, SameLibrary DEF StoredInv
  <1>9. CASE UNCHANGED extractVars
    <2>1. UNCHANGED <<xarg, stage, fi, ci, disk>>
      BY <1>9 DEF extractVars
    <2>2. CASE library = NULL
      <3>1. stage = "wait"
        BY <1>0, <2>2 DEF ExtractTypeOK
      <3> QED
        BY <2>1, <3>1 DEF StoredInv
    <2>3. CASE library # NULL
      BY <2>1, <2>3, SameLibrary, StoredGrows DEF StoredInv
    <2> QED
      BY <2>2, <2>3
  <1> QED
    BY <1>4, <1>5, <1>6, <1>7, <1>8, <1>9 DEF ExtractNext, ExtractEnd, extractAllVars

\* After a clean build every capsule that was asked for comes back, from its own
\* file, or the file has another capsule with the same last component, when the
\* directories were dropped (library.c:196-260).
THEOREM RoundTripInvariant == ExtractSpec => []RoundTrip
  <1>1. ExtractInit => StoredInv
    BY DEF ExtractInit, StoredInv
  <1>2. ExtractInv /\ StoredInv => RoundTrip
    <2> SUFFICES ASSUME ExtractInv, StoredInv, stage = "done", errors = 0,
                        NEW k \in DOMAIN library.caps, Wanted(library.caps[k])
                 PROVE  \/ disk[Target(library.caps[k])] = library.caps[k]
                        \/ /\ xarg.use_basename
                           /\ \E j \in DOMAIN library.caps :
                                 j # k /\ disk[Target(library.caps[k])] = library.caps[j]
      BY DEF RoundTrip
    <2>1. library # NULL /\ BuildInv /\ CleanBuild
      BY DEF ExtractInv, ExtractTypeOK
    <2>2. /\ \A j \in DOMAIN library.caps : ContentsOf(library.caps[j]) = library.caps[j]
          /\ \A i, j \in DOMAIN library.caps :
                CapName[library.caps[i]] = CapName[library.caps[j]] => i = j
      BY <2>1, CleanCaps, IndexEntries DEF ContentsOf
    <2>3. PICK j \in DOMAIN library.caps :
             /\ Target(library.caps[j]) = Target(library.caps[k])
             /\ disk[Target(library.caps[k])] = library.caps[j]
      BY <2>2 DEF StoredInv, Stored
    <2>4. ~xarg.use_basename => j = k
      BY <2>2, <2>3 DEF Target
    <2> QED
      BY <2>3, <2>4
  <1> QED
    BY <1>1, <1>2, InitExtract, NextExtract, NextStored, PTL DEF ExtractSpec
=============================================================================
