---------------------------- MODULE LinkerProofs ----------------------------
(***************************************************************************)
(* Proofs about the linker, for any number of capsules, names, shapes and  *)
(* libraries, any command line and any capsule files.  Every step of the   *)
(* linker is a step of the reader as far as the reader's state goes, so    *)
(* all that was proved of the reader holds here; the rest are invariants   *)
(* of linker_main.                                                         *)
(***************************************************************************)
EXTENDS LinkerLinkage, CapsuleUseProofs, FiniteSetTheorems

USE DEF Stages, Bits, LocalIds

Phases ==
  {"read", "libs", "index", "suppress", "resolve", "pass", "shape", "name", "load", "hide_all",
   "hide", "keep", "write", "exit"}

\* Everything that was proved of the reader.
ReaderInv ==
  /\ Typed /\ IdInv /\ AgreeInv /\ ListedOnce /\ ShapeInv /\ UseInv /\ VersionInv /\ CleanInv

IndexTypeOK ==
  /\ lshapes \subseteq Shapes
  /\ token_known \in BOOLEAN /\ tag_known \in BOOLEAN
  /\ ldirect \subseteq Names
  /\ luse \in [Names -> SUBSET Bits]
  /\ ldef \in [Names -> LibCaps(args) \cup {NULL}]
  /\ lmerged \in [Names -> Seq(Usage)]

PassTypeOK ==
  /\ known \subseteq Shapes /\ visited \subseteq Shapes
  /\ phase \in {"shape", "name", "load"} => cur \in Shapes
  /\ phase \in {"name", "load"} => name \in direct
  /\ did_define \in BOOLEAN
  /\ skipped \subseteq Names

LinkerTypeOK ==
  /\ args \in Args
  /\ phase \in Phases
  /\ next \in Nat \ {0} /\ entry \in Nat \ {0}
  /\ phase = "index" => next <= Len(args.libs)
  /\ IndexTypeOK /\ PassTypeOK
  /\ hidden \subseteq Names
  /\ pc \in Stages => phase \in {"read", "load"}

LinkerInv == ReaderInv /\ LinkerTypeOK

-----------------------------------------------------------------------------
\* Every invariant of the reader is kept by its steps, in whatever program.
LEMMA NextReader == ReaderInv /\ ReaderStep => ReaderInv'
  BY NextTyped, NextIds, NextAgree, NextListed, NextShapes, NextUses, NextVersions, NextClean
  DEF ReaderInv

LEMMA InitReader == CapsuleInit => ReaderInv
  <1>1. CapsuleInit => VersionInv
    BY DEF CapsuleInit, VersionInv
  <1> QED
    BY <1>1, InitTyped, InitIds, InitAgree, InitListed, InitShapes, InitUses, InitClean
    DEF ReaderInv

\* What is known of the command line.
LEMMA ArgTyped ==
  ASSUME NEW a \in Args
  PROVE  /\ a.inputs \in Seq(Capsules) /\ a.missing \in SUBSET Capsules
         /\ a.libs \in Seq(Library)
         /\ a.suppresses \in Seq(Control) /\ a.hides \in Seq(Control) /\ a.keeps \in Seq(Control)
         /\ a.suppress_mult \in BOOLEAN /\ a.hide_defd \in BOOLEAN /\ a.writable \in BOOLEAN
         /\ a.inputs # <<>> /\ InputCaps(a) \cap LibCaps(a) = {}
  BY LinkerAssumption DEF Arg

\* The controls of the lists to hide and to keep.
LEMMA ControlTyped ==
  ASSUME NEW a \in Args, NEW q \in {a.hides, a.keeps}, NEW j \in DOMAIN q
  PROVE  /\ q[j].shape \in Shapes /\ q[j].all \in BOOLEAN /\ q[j].names \subseteq Names
         /\ IsFiniteSet(q[j].names)
         /\ \A n \in q[j].names : ShapeOf[n] = q[j].shape
  <1>1. q \in Seq(Control)
    BY ArgTyped
  <1>2. q[j] \in Control
    BY <1>1
  <1>3. IsFiniteSet(q[j].names) /\ \A n \in q[j].names : ShapeOf[n] = q[j].shape
    BY LinkerAssumption
  <1> QED
    BY <1>2, <1>3 DEF Control

\* The library that is being read, and the entry of its index.
LEMMA LibraryTyped ==
  ASSUME NEW a \in Args, NEW j \in DOMAIN a.libs
  PROVE  /\ a.libs[j].major \in Nat /\ a.libs[j].index \in Seq(IndexEntry)
         /\ \A k \in DOMAIN a.libs[j].index :
               /\ a.libs[j].index[k].name \in Names
               /\ a.libs[j].index[k].cap \in Capsules
               /\ a.libs[j].index[k].cap \in LibCaps(a)
  <1>1. a.libs[j] \in Library
    BY ArgTyped
  <1>2. a.libs[j].major \in Nat /\ a.libs[j].index \in Seq(IndexEntry)
    BY <1>1 DEF Library
  <1>3. ASSUME NEW k \in DOMAIN a.libs[j].index
        PROVE  a.libs[j].index[k] \in IndexEntry /\ a.libs[j].index[k].cap \in LibCaps(a)
    BY <1>2, <1>3 DEF LibCaps
  <1> QED
    BY <1>2, <1>3 DEF IndexEntry

\* The nil pointer of a name in a cycle, or errors that are counted: the reader is
\* left alone.
LEMMA CallerErrors ==
  ASSUME Typed, pc = "idle", UNCHANGED readerVars, NEW n \in Nat,
         SeriousErrors(n, "idle") \/ SeriousErrors(n, "crash")
  PROVE  CallerStep
  <1>1. errors \in Nat
    BY DEF Typed, CapsuleTypeOK, ControlTypeOK
  <1>2. errors' \in Nat /\ errors <= errors' /\ pc' \in {"idle", "abort", "crash"}
    BY <1>1 DEF SeriousErrors
  <1> QED
    BY <1>2 DEF CallerStep, readerVars, fixedVars, versionVars

LEMMA CallerExit ==
  ASSUME Typed, pc = "idle", pc' \in {"idle", "abort", "crash"}, errors' = errors,
         UNCHANGED readerVars
  PROVE  CallerStep
  <1>1. errors \in Nat
    BY DEF Typed, CapsuleTypeOK, ControlTypeOK
  <1> QED
    BY <1>1 DEF CallerStep, readerVars, fixedVars, versionVars

\* Report counts at most one error for each name of a control (linker.c:262).
LEMMA ReportSteps ==
  ASSUME NEW bad, IsFiniteSet(bad), NEW cyclic, Report(bad, cyclic)
  PROVE  \E n \in Nat : SeriousErrors(n, "idle") \/ SeriousErrors(n, "crash")
  <1>1. Cardinality(bad) \in Nat
    BY FS_CardinalityType
  <1>2. \A k \in 0 .. Cardinality(bad) : k \in Nat
    BY <1>1
  <1> QED
    BY <1>1, <1>2 DEF Report

\* As far as the reader's state goes, the linker only makes steps of the reader.
LEMMA LinkerSteps == Typed /\ LinkerTypeOK /\ [LinkerNext]_vars => ReaderStep
  <1> SUFFICES ASSUME Typed, LinkerTypeOK, [LinkerNext]_vars PROVE ReaderStep
    OBVIOUS
  <1>0. args \in Args /\ next \in Nat \ {0}
    BY DEF LinkerTypeOK
  <1>a. ASSUME CallerStep \/ Quiet PROVE ReaderStep
    BY <1>a DEF ReaderStep, Quiet
  <1>1. CASE ReadStep
    BY <1>1 DEF ReaderStep
  <1>2. CASE OpenInput
    <2>1. args.inputs \in Seq(Capsules) /\ next \in 1 .. Len(args.inputs)
      BY <1>0, <1>2, ArgTyped DEF OpenInput
    <2>2. args.inputs[next] \in Capsules
      BY <2>1
    <2>3. CASE SeriousThen("idle") /\ UNCHANGED readerVars
      BY <1>a, <1>2, <2>3, CallerErrors DEF OpenInput, In, SeriousThen
    <2> QED
      BY <1>2, <2>2, <2>3 DEF OpenInput, ReaderStep
  <1>3. CASE EndInputs \/ EndIndex \/ EndLibraries \/ StartPass \/ EndShape \/ LeaveName
             \/ lib_capsule_loaded \/ EndPass \/ shape_entry_hide_all_defd \/ EndHide \/ EndKeep
    BY <1>a, <1>3 DEF EndInputs, EndIndex, EndLibraries, StartPass, EndShape, LeaveName,
       lib_capsule_loaded, EndPass, shape_entry_hide_all_defd, EndHide, EndKeep
  <1>4. CASE library_read_header
    <2> DEFINE lib == args.libs[next]
    <2>1. CASE SeriousThen("idle") /\ UNCHANGED readerVars
      BY <1>a, <1>4, <2>1, CallerErrors DEF library_read_header, In, SeriousThen
    <2>2. CASE ~BadVersion(lib.major) /\ capsule_set_major_version(lib.major)
      <3>1. args.libs \in Seq(Library) /\ next \in 1 .. Len(args.libs)
        BY <1>0, <1>4, ArgTyped DEF library_read_header
      <3>2. lib.major \in Nat
        BY <1>0, <3>1, LibraryTyped
      <3>3. errors \in Nat
        BY DEF Typed, CapsuleTypeOK, ControlTypeOK
      <3>4. CallerStep
        BY <2>2, <3>2, <3>3 DEF capsule_set_major_version, CallerStep
      <3> QED
        BY <1>a, <3>4
    <2> QED
      BY <1>a, <1>4, <2>1, <2>2 DEF library_read_header
  <1>5. CASE MalformedIndex
    BY <1>a, <1>5, CallerErrors DEF MalformedIndex, ThrowIndex, In, SeriousThen
  <1>6. CASE library_check_index_entry
    <2>1. pc = "idle" /\ UNCHANGED readerVars
      BY <1>6 DEF library_check_index_entry, In
    <2>2. \/ pc' = "crash" /\ errors' = errors
          \/ SeriousErrors(0, "idle") \/ SeriousErrors(1, "idle")
      BY <1>6 DEF library_check_index_entry, ThrowIndex, SeriousThen
    <2> QED
      BY <1>a, <2>1, <2>2, CallerErrors, CallerExit
  <1>7. CASE linker_suppress \/ linker_write_capsule
    <2>1. pc = "idle" /\ pc' \in {"idle", "abort", "crash"} /\ errors' = errors /\ UNCHANGED readerVars
      BY <1>7 DEF linker_suppress, linker_write_capsule, In
    <2> QED
      BY <1>a, <2>1, CallerExit
  <1>8. ASSUME NEW s \in Shapes, VisitShape(s) PROVE ReaderStep
    BY <1>a, <1>8 DEF VisitShape
  <1>9. CASE TakeName
    <2>1. cur \in Shapes /\ shape_entry_get_from_list(cur)
      BY <1>9 DEF TakeName, In, LinkerTypeOK, PassTypeOK
    <2> QED
      BY <2>1 DEF ReaderStep
  <1>10. CASE LoadCapsule
    <2>1. name \in Names /\ ldef[name] # NULL /\ Open(ldef[name])
      BY <1>10 DEF LoadCapsule, In, Supplied, LinkerTypeOK, PassTypeOK, Typed, CapsuleTypeOK,
                   TablesTypeOK
    <2>2. LibCaps(args) \subseteq Capsules
      BY <1>0, LibraryTyped DEF LibCaps
    <2>3. ldef[name] \in Capsules
      BY <2>1, <2>2 DEF LinkerTypeOK, IndexTypeOK
    <2> QED
      BY <2>1, <2>3 DEF ReaderStep
  <1>11. CASE linker_hide
    <2> DEFINE c == args.hides[next]
               bad == {m \in c.names : indirect[m] # NULL /\ indirect[m] \notin Defined}
    <2>1. pc = "idle" /\ UNCHANGED readerVars /\ next \in DOMAIN args.hides
      <3>1. args.hides \in Seq(Control)
        BY <1>0, ArgTyped
      <3> QED
        BY <1>0, <1>11, <3>1 DEF linker_hide, In
    <2>2. IsFiniteSet(c.names) /\ bad \subseteq c.names
      BY <1>0, <2>1, ControlTyped
    <2>3. IsFiniteSet(bad)
      BY <2>2, FS_Subset
    <2>4. SeriousErrors(1, "idle") \/ Report(bad, Cyclic(c.names))
      BY <1>11 DEF linker_hide, SeriousThen
    <2> QED
      BY <1>a, <2>1, <2>3, <2>4, ReportSteps, CallerErrors
  <1>12. CASE linker_keep
    <2> DEFINE c == args.keeps[next]
               bad == {m \in c.names : indirect[m] # NULL /\ indirect[m] \notin direct}
    <2>1. pc = "idle" /\ UNCHANGED readerVars /\ next \in DOMAIN args.keeps
      <3>1. args.keeps \in Seq(Control)
        BY <1>0, ArgTyped
      <3> QED
        BY <1>0, <1>12, <3>1 DEF linker_keep, In
    <2>2. IsFiniteSet(c.names) /\ bad \subseteq c.names
      BY <1>0, <2>1, ControlTyped
    <2>3. IsFiniteSet(bad)
      BY <2>2, FS_Subset
    <2>4. SeriousErrors(1, "idle") \/ Report(bad, Cyclic(c.names))
      BY <1>12 DEF linker_keep, SeriousThen
    <2> QED
      BY <1>a, <2>1, <2>3, <2>4, ReportSteps, CallerErrors
  <1>13. CASE Terminated \/ UNCHANGED vars
    BY <1>13 DEF Terminated, vars, ReaderStep
  <1> QED
    BY <1>1, <1>2, <1>3, <1>4, <1>5, <1>6, <1>7, <1>8, <1>9, <1>10, <1>11, <1>12, <1>13
    DEF LinkerNext, LinkerStep

-----------------------------------------------------------------------------
\* The parts of the linker's state that a step leaves alone.
LEMMA LinkerSame ==
  /\ IndexTypeOK /\ UNCHANGED <<args, indexVars>> => IndexTypeOK'
  /\ /\ PassTypeOK /\ UNCHANGED passVars /\ direct \subseteq direct'
     /\ phase' = phase \/ phase' \notin {"shape", "name", "load"}
     => PassTypeOK'
  BY DEF IndexTypeOK, PassTypeOK, indexVars, passVars

\* Every step of the linker keeps the types of its variables (linker.c, library.c).
LEMMA NextLinkerTyped ==
  ASSUME Typed, ListedOnce, LinkerTypeOK, [LinkerNext]_vars
  PROVE  LinkerTypeOK'
  <1>0. /\ args \in Args /\ next \in Nat \ {0} /\ entry \in Nat \ {0} /\ IndexTypeOK /\ PassTypeOK
        /\ direct \subseteq Names /\ hidden \subseteq Names /\ shapes \subseteq Shapes
    BY DEF LinkerTypeOK, Typed, CapsuleTypeOK, TablesTypeOK
  <1>a. direct \subseteq direct'
    BY LinkerSteps, NamesKept
  <1> USE DEF Phases
  <1>1. CASE ReadStep /\ UNCHANGED linkerVars
    <2>1. pc \in Stages
      BY <1>1 DEF ReadStep, Malformed, capsule_read_header, capsule_read_unit_set_names,
         capsule_read_shapes, capsule_read_external_names, capsule_read_usage,
         unit_entry_add_unit, capsule_read_unit_maps, unit_set_contents, EndStage,
         capsule_read_end, AtItem, At
    <2> QED
      BY <1>0, <1>a, <1>1, <2>1, LinkerSame DEF LinkerTypeOK, linkerVars, outVars
  <1>2. CASE OpenInput
    BY <1>0, <1>a, <1>2, LinkerSame DEF OpenInput, LinkerTypeOK, In, outVars
  <1>3. CASE EndInputs \/ EndLibraries \/ EndHide \/ EndKeep
    BY <1>0, <1>a, <1>3, LinkerSame
    DEF EndInputs, EndLibraries, EndHide, EndKeep, LinkerTypeOK, In, outVars, Quiet, capsuleVars
  <1>4. CASE library_read_header
    <2>1. /\ UNCHANGED <<args, passVars, outVars, lshapes, ldirect, luse, ldef, lmerged>>
          /\ pc = "idle" /\ phase = "libs" /\ next <= Len(args.libs)
          /\ \/ phase' = "libs" /\ next' = next + 1 /\ UNCHANGED <<entry, indexVars>>
             \/ phase' = "index" /\ next' = next /\ entry' = 1 /\ pc' = "idle"
                /\ token_known' \in BOOLEAN /\ tag_known' \in BOOLEAN
      <3>1. /\ UNCHANGED <<args, passVars, outVars>>
            /\ pc = "idle" /\ phase = "libs" /\ next <= Len(args.libs)
        BY <1>4 DEF library_read_header, In
      <3>2. \/ next' = next + 1 /\ UNCHANGED <<phase, entry, indexVars>>
            \/ /\ phase' = "index" /\ entry' = 1 /\ pc' = pc
               /\ token_known' = (Token \in lshapes) /\ tag_known' = (Tag \in lshapes)
               /\ UNCHANGED <<next, lshapes, ldirect, luse, ldef, lmerged>>
        BY <1>4 DEF library_read_header, Quiet, capsuleVars, capsule_set_major_version
      <3>3. CASE next' = next + 1 /\ UNCHANGED <<phase, entry, indexVars>>
        BY <3>1, <3>3 DEF indexVars
      <3>4. CASE /\ phase' = "index" /\ entry' = 1 /\ pc' = pc
                 /\ token_known' = (Token \in lshapes) /\ tag_known' = (Tag \in lshapes)
                 /\ UNCHANGED <<next, lshapes, ldirect, luse, ldef, lmerged>>
        <4>1. token_known' \in BOOLEAN /\ tag_known' \in BOOLEAN
          BY <3>4, SMT
        <4> QED
          BY <3>1, <3>4, <4>1
      <3> QED
        BY <3>2, <3>3, <3>4
    <2>2. pc' \notin Stages
      BY <1>4 DEF library_read_header, In, Quiet, capsuleVars, capsule_set_major_version,
                  SeriousThen, SeriousErrors
    <2>3. IndexTypeOK'
      BY <1>0, <2>1 DEF IndexTypeOK, indexVars
    <2>4. PassTypeOK'
      BY <1>0, <1>a, <2>1, LinkerSame
    <2> QED
      BY <1>0, <2>1, <2>2, <2>3, <2>4 DEF LinkerTypeOK, outVars
  <1>5. CASE MalformedIndex
    BY <1>0, <1>a, <1>5, LinkerSame
    DEF MalformedIndex, ThrowIndex, SeriousThen, SeriousErrors, LinkerTypeOK, In, outVars
  <1>6. CASE library_check_index_entry
    <2> DEFINE lib == args.libs[next]
               e == lib.index[entry]
               n == indirect[e.name]
    <2>1. args.libs \in Seq(Library) /\ next \in DOMAIN args.libs /\ phase = "index" /\ pc = "idle"
      <3>1. phase = "index" /\ pc = "idle" /\ args.libs \in Seq(Library)
        BY <1>0, <1>6, ArgTyped DEF library_check_index_entry, In
      <3> QED
        BY <1>0, <3>1 DEF LinkerTypeOK
    <2>2. lib.index \in Seq(IndexEntry) /\ entry \in DOMAIN lib.index
      <3>1. lib.index \in Seq(IndexEntry)
        BY <1>0, <2>1, LibraryTyped
      <3>2. entry <= Len(lib.index)
        BY <1>6 DEF library_check_index_entry
      <3> QED
        BY <1>0, <3>1, <3>2
    <2>3. e.name \in Names /\ e.cap \in Capsules /\ e.cap \in LibCaps(args)
      BY <1>0, <2>1, <2>2, LibraryTyped
    <2>4. n \in Names \cup {NULL} /\ ShapeOf[e.name] \in Shapes
      BY <2>3, CapsuleAssumption DEF Typed, CapsuleTypeOK
    <2>5. /\ UNCHANGED <<args, token_known, tag_known, passVars, outVars>>
          /\ lshapes' = lshapes \cup {ShapeOf[e.name]}
          /\ ldirect' = ldirect \/ (n # NULL /\ ldirect' = ldirect \cup {n})
          /\ \/ phase' = "index" /\ next' = next
             \/ phase' = "libs" /\ next' = next + 1
          /\ entry' \in {entry, entry + 1}
          /\ \/ UNCHANGED <<luse, ldef, lmerged>>
             \/ /\ ~IllegalUse(e.use, tag_known /\ ShapeOf[e.name] = Tag,
                               token_known /\ ShapeOf[e.name] = Token)
                /\ ldef' = [ldef EXCEPT ![n] = NewDefinition(@, luse[n], e.use, e.cap)]
                /\ luse' = [luse EXCEPT ![n] = @ \cup e.use]
                /\ lmerged' = [lmerged EXCEPT ![n] = Append(@, [cap |-> e.cap, use |-> e.use])]
      BY <1>6, <2>1 DEF library_check_index_entry, ThrowIndex
    <2>6. pc' \in {"idle", "abort", "crash"}
      BY <1>6 DEF library_check_index_entry, ThrowIndex, SeriousThen, SeriousErrors
    <2> HIDE DEF n, e
    <2>7. luse' \in [Names -> SUBSET Bits] /\ lmerged' \in [Names -> Seq(Usage)]
      <3>1. CASE UNCHANGED <<luse, lmerged>>
        BY <1>0, <3>1 DEF IndexTypeOK
      <3>2. CASE /\ ~IllegalUse(e.use, tag_known /\ ShapeOf[e.name] = Tag,
                                token_known /\ ShapeOf[e.name] = Token)
                 /\ luse' = [luse EXCEPT ![n] = @ \cup e.use]
                 /\ lmerged' = [lmerged EXCEPT ![n] = Append(@, [cap |-> e.cap, use |-> e.use])]
        <4>1. e.use \in SUBSET Bits
          BY <3>2 DEF IllegalUse
        <4>2. [cap |-> e.cap, use |-> e.use] \in Usage
          BY <2>3, <4>1 DEF Usage
        <4>3. luse' \in [Names -> SUBSET Bits]
          BY <1>0, <3>2, <4>1 DEF IndexTypeOK
        <4> QED
          BY <1>0, <3>2, <4>2, <4>3, AppendTyped DEF IndexTypeOK
      <3> QED
        BY <2>5, <3>1, <3>2
    <2>8. ldef' \in [Names -> LibCaps(args) \cup {NULL}]
      <3>1. CASE UNCHANGED ldef
        BY <1>0, <3>1 DEF IndexTypeOK
      <3>2. CASE ldef' = [ldef EXCEPT ![n] = NewDefinition(@, luse[n], e.use, e.cap)]
        <4>1. \A old, u : \A d \in LibCaps(args) \cup {NULL} :
                 NewDefinition(d, old, u, e.cap) \in LibCaps(args) \cup {NULL}
          BY <2>3 DEF NewDefinition
        <4> QED
          BY <1>0, <3>2, <4>1 DEF IndexTypeOK
      <3> QED
        BY <2>5, <3>1, <3>2
    <2>9. IndexTypeOK'
      BY <1>0, <2>4, <2>5, <2>7, <2>8 DEF IndexTypeOK
    <2>10. PassTypeOK'
      BY <1>0, <1>a, <2>1, <2>5, LinkerSame
    <2> QED
      BY <1>0, <2>1, <2>5, <2>6, <2>9, <2>10 DEF LinkerTypeOK, outVars
  <1>7. CASE EndIndex
    BY <1>0, <1>a, <1>7, LinkerSame DEF EndIndex, LinkerTypeOK, In, outVars, Quiet, capsuleVars
  <1>8. CASE linker_suppress
    <2>1. PassTypeOK'
      BY <1>0, <1>a, <1>8, LinkerSame DEF linker_suppress
    <2>2. /\ UNCHANGED <<args, lshapes, token_known, tag_known, ldirect, luse, lmerged>>
          /\ \A n \in Names : ldef'[n] \in {ldef[n], NULL}
          /\ ldef' = [n \in Names |-> ldef'[n]]
      BY <1>8 DEF linker_suppress
    <2>3. IndexTypeOK'
      BY <1>0, <2>2 DEF IndexTypeOK
    <2> QED
      BY <1>8, <2>1, <2>3 DEF linker_suppress, LinkerTypeOK, outVars
  <1>9. CASE StartPass
    BY <1>0, <1>a, <1>9, LinkerSame
    DEF StartPass, LinkerTypeOK, In, PassTypeOK, outVars, Quiet, capsuleVars
  <1>10. ASSUME NEW s \in Shapes, VisitShape(s) PROVE LinkerTypeOK'
    BY <1>0, <1>a, <1>10, LinkerSame
    DEF VisitShape, LinkerTypeOK, In, PassTypeOK, outVars, Quiet, capsuleVars
  <1>11. CASE TakeName
    <2>1. cur \in Shapes /\ list[cur] # <<>> /\ list[cur] \in Seq(Names)
      BY <1>11 DEF TakeName, In, LinkerTypeOK, PassTypeOK, shape_entry_get_from_list, Typed,
                   CapsuleTypeOK, TablesTypeOK
    <2>2. 1 \in DOMAIN list[cur] /\ Head(list[cur]) = list[cur][1]
      BY <2>1
    <2>3. Head(list[cur]) \in direct
      BY <2>1, <2>2 DEF ListedOnce
    <2>4. /\ pc' = "idle" /\ phase' = "name" /\ name' = Head(list[cur])
          /\ UNCHANGED <<args, next, entry, indexVars, known, visited, cur, did_define, loaded,
                         skipped, outVars>>
      BY <1>11 DEF TakeName, In, shape_entry_get_from_list
    <2>5. PassTypeOK'
      BY <1>0, <1>a, <2>1, <2>3, <2>4 DEF PassTypeOK
    <2> QED
      BY <1>0, <2>4, <2>5, LinkerSame DEF LinkerTypeOK, outVars
  <1>12. CASE EndShape \/ EndPass \/ shape_entry_hide_all_defd
    BY <1>0, <1>a, <1>12, LinkerSame
    DEF EndShape, EndPass, shape_entry_hide_all_defd, LinkerTypeOK, In, outVars, Quiet,
        capsuleVars, Defined
  <1>13. CASE LeaveName
    <2>1. /\ phase = "name" /\ pc' = "idle" /\ phase' = "shape" /\ skipped' \in {skipped, skipped \cup {name}}
          /\ UNCHANGED <<args, next, entry, indexVars, known, visited, cur, name, did_define,
                         loaded, outVars>>
      BY <1>13 DEF LeaveName, In, Quiet, capsuleVars
    <2>2. PassTypeOK'
      BY <1>0, <1>a, <2>1 DEF PassTypeOK
    <2> QED
      BY <1>0, <2>1, <2>2, LinkerSame DEF LinkerTypeOK, outVars
  <1>14. CASE LoadCapsule
    <2>1. /\ phase = "name" /\ phase' = "load"
          /\ UNCHANGED <<args, next, entry, indexVars, passVars, outVars>>
      BY <1>14 DEF LoadCapsule, In
    <2>2. PassTypeOK'
      BY <1>0, <1>a, <2>1 DEF PassTypeOK, passVars
    <2> QED
      BY <1>0, <2>1, <2>2, LinkerSame DEF LinkerTypeOK, outVars
  <1>15. CASE lib_capsule_loaded
    <2>1. /\ phase = "load" /\ pc' = "idle" /\ phase' = "shape" /\ loaded' = loaded \cup {ldef[name]}
          /\ did_define' = TRUE
          /\ UNCHANGED <<args, next, entry, indexVars, known, visited, cur, name, skipped, outVars>>
      BY <1>15 DEF lib_capsule_loaded, In, Quiet, capsuleVars
    <2>2. PassTypeOK'
      BY <1>0, <1>a, <2>1 DEF PassTypeOK
    <2> QED
      BY <1>0, <2>1, <2>2, LinkerSame DEF LinkerTypeOK, outVars
  <1>16. CASE linker_hide \/ linker_keep
    <2>1. /\ phase' = phase /\ next' = next + 1 /\ phase \in {"hide", "keep"}
          /\ UNCHANGED <<args, entry, indexVars, passVars>>
      BY <1>16 DEF linker_hide, linker_keep, In
    <2>2. hidden' \subseteq Names
      BY <1>0, <1>16 DEF linker_hide, linker_keep, Selected, Defined
    <2>3. pc' \in {"idle", "abort", "crash"}
      BY <1>16 DEF linker_hide, linker_keep, Report, SeriousThen, SeriousErrors
    <2> QED
      BY <1>0, <1>a, <2>1, <2>2, <2>3, LinkerSame DEF LinkerTypeOK
  <1>17. CASE linker_write_capsule
    <2>1. /\ phase' \in {phase, "exit"} /\ pc' \in {"idle", "abort", "crash"}
          /\ UNCHANGED <<args, next, entry, indexVars, passVars, hidden>> /\ phase = "write"
      BY <1>17 DEF linker_write_capsule, In
    <2> QED
      BY <1>0, <1>a, <2>1, LinkerSame DEF LinkerTypeOK
  <1>18. CASE Terminated \/ UNCHANGED vars
    <2>1. UNCHANGED <<pc, direct, args, phase, next, entry, indexVars, passVars, outVars>>
      BY <1>18 DEF Terminated, vars, linkerVars, capsuleVars
    <2> QED
      BY <1>0, <1>a, <2>1, LinkerSame DEF LinkerTypeOK, outVars
  <1> QED
    BY <1>1, <1>2, <1>3, <1>4, <1>5, <1>6, <1>7, <1>8, <1>9, <1>10, <1>11, <1>12, <1>13, <1>14,
       <1>15, <1>16, <1>17, <1>18
    DEF LinkerNext, LinkerStep

LEMMA InitLinkerTyped == LinkerInit => LinkerTypeOK
  <1> SUFFICES ASSUME LinkerInit PROVE LinkerTypeOK
    OBVIOUS
  <1>1. shapes \subseteq Shapes
    BY CapsuleAssumption DEF LinkerInit, CapsuleInit
  <1>2. IndexTypeOK
    <2>1. lshapes \subseteq Shapes /\ ldirect \subseteq Names
      BY <1>1 DEF LinkerInit
    <2>2. token_known \in BOOLEAN /\ tag_known \in BOOLEAN
      BY DEF LinkerInit
    <2>3. luse \in [Names -> SUBSET Bits] /\ ldef \in [Names -> LibCaps(args) \cup {NULL}]
      BY DEF LinkerInit
    <2>4. lmerged \in [Names -> Seq(Usage)]
      BY DEF LinkerInit
    <2> QED
      BY <2>1, <2>2, <2>3, <2>4 DEF IndexTypeOK
  <1>3. PassTypeOK
    BY DEF LinkerInit, PassTypeOK
  <1> QED
    BY <1>2, <1>3 DEF LinkerInit, CapsuleInit, LinkerTypeOK, Phases

\* The linker keeps all invariants of the reader and the types of its variables.
LEMMA NextLinker == LinkerInv /\ [LinkerNext]_vars => LinkerInv'
  <1> SUFFICES ASSUME LinkerInv, [LinkerNext]_vars PROVE LinkerInv'
    OBVIOUS
  <1>1. Typed /\ ListedOnce /\ LinkerTypeOK /\ ReaderInv
    BY DEF LinkerInv, ReaderInv
  <1>2. ReaderStep
    BY <1>1, LinkerSteps
  <1> QED
    BY <1>1, <1>2, NextReader, NextLinkerTyped DEF LinkerInv

LEMMA InitLinker == LinkerInit => LinkerInv
  BY InitLinkerTyped, InitReader DEF LinkerInit, LinkerInv

\* The reader works in the linker as it does alone: identifiers are distinct and
\* captured by no one, definitions are chosen, usages are legal and versions
\* agree, with the capsules of libraries that are read on demand as well as with
\* the input files (linker.c, name-entry.c:389).
THEOREM LinkerReads == LinkerSpec => [](LinkerTypeOK /\ ReaderInv)
  <1>1. LinkerInv => LinkerTypeOK /\ ReaderInv
    BY DEF LinkerInv
  <1> QED
    BY <1>1, InitLinker, NextLinker, PTL DEF LinkerSpec

-----------------------------------------------------------------------------
\* The steps of the reader happen while a capsule is being read.
LEMMA ReadStepReads == ReadStep => pc \in Stages /\ UNCHANGED <<file, indirect, opened>>
  <1> SUFFICES ASSUME ReadStep PROVE pc \in Stages /\ UNCHANGED <<file, indirect, opened>>
    OBVIOUS
  <1> USE DEF fixedVars, Throw, Advance, AtItem, At
  <1>1. CASE Malformed \/ capsule_read_header \/ capsule_read_unit_set_names \/ capsule_read_shapes
    BY <1>1 DEF Malformed, capsule_read_header, capsule_read_unit_set_names, capsule_read_shapes
  <1>2. CASE capsule_read_external_names
    BY <1>2 DEF capsule_read_external_names
  <1>3. CASE capsule_read_usage
    BY <1>3 DEF capsule_read_usage
  <1>4. CASE unit_entry_add_unit \/ capsule_read_unit_maps \/ unit_set_contents
    BY <1>4 DEF unit_entry_add_unit, capsule_read_unit_maps, unit_set_contents
  <1>5. CASE EndStage \/ capsule_read_end
    BY <1>5 DEF EndStage, capsule_read_end
  <1> QED
    BY <1>1, <1>2, <1>3, <1>4, <1>5 DEF ReadStep

\* A capsule of a library has been opened if and only if it is loaded or about to
\* be, and no input file is a capsule of a library.
LoadInv ==
  /\ loaded \subseteq opened
  /\ phase = "load" => ldef[name] \in opened
  /\ opened \subseteq InputCaps(args) \cup loaded \cup (IF phase = "load" THEN {ldef[name]} ELSE {})

\* The steps that open no capsule and load none.
LEMMA LoadSame ==
  ASSUME LoadInv, UNCHANGED <<opened, args, loaded>>,
         (phase # "load" /\ phase' # "load") \/ UNCHANGED <<phase, ldef, name>>
  PROVE  LoadInv'
  BY DEF LoadInv, InputCaps

\* Only the input files and the capsules that define needed names are opened, and
\* the latter count as loaded even if reading them failed (name-entry.c:389).
LEMMA NextLoads ==
  ASSUME LinkerInv, LoadInv, [LinkerNext]_vars
  PROVE  LoadInv'
  <1>1. CASE ReadStep /\ UNCHANGED linkerVars
    BY <1>1, ReadStepReads, LoadSame DEF linkerVars, indexVars, passVars
  <1>2. CASE OpenInput
    <2>1. args \in Args /\ next \in Nat \ {0} /\ next <= Len(args.inputs) /\ phase = "read"
      BY <1>2 DEF OpenInput, In, LinkerInv, LinkerTypeOK
    <2>2. args.inputs \in Seq(Capsules)
      BY <2>1, ArgTyped
    <2>3. args.inputs[next] \in InputCaps(args)
      BY <2>1, <2>2 DEF InputCaps
    <2>4. opened' \subseteq opened \cup {args.inputs[next]} /\ opened \subseteq opened'
      BY <1>2 DEF OpenInput, Open, readerVars
    <2>5. UNCHANGED <<args, phase, loaded>>
      BY <1>2 DEF OpenInput, passVars
    <2> QED
      BY <2>1, <2>3, <2>4, <2>5 DEF LoadInv
  <1>3. CASE EndInputs \/ EndLibraries \/ EndIndex \/ StartPass \/ EndShape \/ LeaveName \/ EndPass
             \/ shape_entry_hide_all_defd \/ EndHide \/ EndKeep
    <2>1. UNCHANGED <<opened, args, loaded>> /\ phase # "load" /\ phase' # "load"
      BY <1>3 DEF EndInputs, EndLibraries, EndIndex, StartPass, EndShape, LeaveName, EndPass,
         shape_entry_hide_all_defd, EndHide, EndKeep, In, Quiet, capsuleVars, passVars
    <2> QED
      BY <2>1, LoadSame
  <1>4. CASE library_read_header
    <2>1. UNCHANGED <<opened, args, loaded>> /\ phase # "load" /\ phase' # "load"
      BY <1>4 DEF library_read_header, capsule_set_major_version, In, Quiet, capsuleVars, passVars,
                  readerVars
    <2> QED
      BY <2>1, LoadSame
  <1>5. CASE MalformedIndex \/ library_check_index_entry
    <2>1. UNCHANGED <<opened, args, loaded>> /\ phase # "load" /\ phase' # "load"
      BY <1>5 DEF MalformedIndex, library_check_index_entry, ThrowIndex, In, passVars, readerVars
    <2> QED
      BY <2>1, LoadSame
  <1>6. CASE linker_suppress \/ linker_hide \/ linker_keep \/ linker_write_capsule
    <2>1. UNCHANGED <<opened, args, loaded>> /\ phase # "load" /\ phase' # "load"
      BY <1>6 DEF linker_suppress, linker_hide, linker_keep, linker_write_capsule, In, passVars,
                  readerVars
    <2> QED
      BY <2>1, LoadSame
  <1>7. ASSUME NEW s \in Shapes, VisitShape(s) PROVE LoadInv'
    BY <1>7, LoadSame DEF VisitShape, In, Quiet, capsuleVars
  <1>8. CASE TakeName
    BY <1>8, LoadSame DEF TakeName, In, shape_entry_get_from_list
  <1>9. CASE LoadCapsule
    <2>1. /\ opened' = opened \cup {ldef[name]} /\ phase = "name" /\ phase' = "load"
          /\ UNCHANGED <<args, loaded, ldef, name>>
      BY <1>9 DEF LoadCapsule, In, Open, indexVars, passVars
    <2> QED
      BY <2>1 DEF LoadInv
  <1>10. CASE lib_capsule_loaded
    <2>1. /\ opened' = opened /\ phase = "load" /\ phase' = "shape"
          /\ loaded' = loaded \cup {ldef[name]} /\ UNCHANGED args
      BY <1>10 DEF lib_capsule_loaded, In, Quiet, capsuleVars
    <2> QED
      BY <2>1 DEF LoadInv
  <1>11. CASE Terminated \/ UNCHANGED vars
    BY <1>11, LoadSame DEF Terminated, vars, linkerVars, capsuleVars, indexVars, passVars
  <1> QED
    BY <1>1, <1>2, <1>3, <1>4, <1>5, <1>6, <1>7, <1>8, <1>9, <1>10, <1>11 DEF LinkerNext, LinkerStep

LEMMA InitLoads == LinkerInit => LoadInv
  BY DEF LinkerInit, CapsuleInit, LoadInv

\* A capsule of a library is opened at most once (name-entry.c:389).
THEOREM LoadsOnceInvariant == LinkerSpec => []LoadsOnce
  <1>1. LinkerInv /\ LoadInv => LoadsOnce
    <2> SUFFICES ASSUME LinkerInv, LoadInv, phase = "name", Supplied(name), ldef[name] \in opened
                 PROVE  FALSE
      BY DEF LoadsOnce
    <2>1. ldef[name] \in InputCaps(args)
      BY DEF LoadInv, Supplied
    <2>2. name \in Names /\ args \in Args
      BY DEF LinkerInv, ReaderInv, LinkerTypeOK, PassTypeOK, Typed, CapsuleTypeOK, TablesTypeOK
    <2>3. ldef[name] \in LibCaps(args)
      BY <2>2 DEF LinkerInv, LinkerTypeOK, IndexTypeOK, Supplied
    <2> QED
      BY <2>1, <2>2, <2>3, ArgTyped
  <1>2. LinkerInit => LinkerInv /\ LoadInv
    BY InitLinker, InitLoads
  <1>3. LinkerInv /\ LoadInv /\ [LinkerNext]_vars => (LinkerInv /\ LoadInv)'
    BY NextLinker, NextLoads
  <1> QED
    BY <1>1, <1>2, <1>3, PTL DEF LinkerSpec

-----------------------------------------------------------------------------
\* Until definitions are suppressed, the index is what its entries amount to.
IndexInv ==
  phase \in {"read", "libs", "index", "suppress"} =>
     \A n \in Names : ldef[n] = ChosenDefinition(lmerged[n]) /\ luse[n] = AllUses(lmerged[n])

\* The index changes in two places only: where an entry is merged, and where
\* definitions are suppressed.
LEMMA IndexSteps ==
  ASSUME LinkerInv, [LinkerNext]_vars
  PROVE  \/ library_check_index_entry
         \/ phase' = "resolve"
         \/ UNCHANGED <<luse, ldef, lmerged>> /\ (phase' \in {"read", "libs", "index", "suppress"} =>
                                                  phase \in {"read", "libs", "index", "suppress"})
  <1> USE DEF indexVars
  <1>1. CASE UNCHANGED linkerVars
    BY <1>1 DEF linkerVars
  <1>2. CASE OpenInput \/ EndInputs \/ EndLibraries \/ EndIndex \/ MalformedIndex
    BY <1>2 DEF OpenInput, EndInputs, EndLibraries, EndIndex, MalformedIndex, ThrowIndex, In
  <1>3. CASE library_read_header
    <2>1. phase = "libs" /\ UNCHANGED <<luse, ldef, lmerged>>
      BY <1>3 DEF library_read_header, In
    <2> QED
      BY <2>1
  <1>4. CASE linker_suppress
    BY <1>4 DEF linker_suppress
  <1>5. CASE StartPass \/ TakeName \/ EndShape \/ LeaveName \/ LoadCapsule \/ lib_capsule_loaded
             \/ EndPass \/ (\E s \in Shapes : VisitShape(s))
    <2>1. UNCHANGED indexVars /\ phase' \notin {"read", "libs", "index", "suppress"}
      BY <1>5 DEF StartPass, TakeName, EndShape, LeaveName, LoadCapsule, lib_capsule_loaded, EndPass,
                  VisitShape
    <2> QED
      BY <2>1
  <1>6. CASE shape_entry_hide_all_defd \/ linker_hide \/ EndHide \/ linker_keep \/ EndKeep
             \/ linker_write_capsule
    <2>1. UNCHANGED indexVars /\ phase' \notin {"read", "libs", "index", "suppress"}
      BY <1>6 DEF shape_entry_hide_all_defd, linker_hide, EndHide, linker_keep, EndKeep,
                  linker_write_capsule, In
    <2> QED
      BY <2>1
  <1>7. CASE Terminated \/ UNCHANGED vars
    BY <1>1, <1>7 DEF Terminated, vars
  <1> QED
    BY <1>1, <1>2, <1>3, <1>4, <1>5, <1>6, <1>7 DEF LinkerNext, LinkerStep

\* Merging one more entry changes the index as library_check_index_entry does
\* (library.c:86).
LEMMA NextIndex ==
  ASSUME LinkerInv, IndexInv, [LinkerNext]_vars
  PROVE  IndexInv'
  <1>1. CASE library_check_index_entry
    <2> DEFINE lib == args.libs[next]
               e == lib.index[entry]
               n == indirect[e.name]
               r == [cap |-> e.cap, use |-> e.use]
    <2>1. phase = "index" /\ args \in Args /\ IndexTypeOK /\ IndexTypeOK'
      BY <1>1, NextLinker DEF library_check_index_entry, In, LinkerInv, LinkerTypeOK
    <2>2. CASE UNCHANGED <<luse, ldef, lmerged>>
      BY <2>1, <2>2 DEF IndexInv
    <2>3. CASE /\ ~IllegalUse(e.use, tag_known /\ ShapeOf[e.name] = Tag,
                              token_known /\ ShapeOf[e.name] = Token)
               /\ ldef' = [ldef EXCEPT ![n] = NewDefinition(@, luse[n], e.use, e.cap)]
               /\ luse' = [luse EXCEPT ![n] = @ \cup e.use]
               /\ lmerged' = [lmerged EXCEPT ![n] = Append(@, [cap |-> e.cap, use |-> e.use])]
      <3>1. next \in DOMAIN args.libs /\ entry \in DOMAIN lib.index
        <4>1. args.libs \in Seq(Library) /\ next \in Nat \ {0} /\ entry \in Nat \ {0}
              /\ next <= Len(args.libs)
          BY <2>1, ArgTyped DEF LinkerInv, LinkerTypeOK
        <4>2. next \in DOMAIN args.libs
          BY <4>1
        <4>3. lib.index \in Seq(IndexEntry)
          BY <2>1, <4>2, LibraryTyped
        <4>4. entry <= Len(lib.index)
          BY <1>1 DEF library_check_index_entry
        <4> QED
          BY <4>1, <4>2, <4>3, <4>4
      <3>2. e.cap \in Capsules
        BY <2>1, <3>1, LibraryTyped
      <3>3. e.use \in SUBSET Bits
        BY <2>3 DEF IllegalUse
      <3>4. r \in Usage /\ r.use = e.use /\ r.cap = e.cap
        BY <3>2, <3>3 DEF Usage
      <3>5. lmerged' = [lmerged EXCEPT ![n] = Append(@, r)]
        BY <2>3
      <3> HIDE DEF r, n, e
      <3>6. ASSUME NEW m \in Names
            PROVE  /\ ldef[m] = ChosenDefinition(lmerged[m]) /\ luse[m] = AllUses(lmerged[m])
                   /\ lmerged[m] \in Seq(Usage)
        BY <2>1 DEF IndexInv, IndexTypeOK
      <3>7. ASSUME NEW m \in Names
            PROVE  ldef'[m] = ChosenDefinition(lmerged'[m]) /\ luse'[m] = AllUses(lmerged'[m])
        <4>1. CASE m # n
          <5>1. ldef'[m] = ldef[m] /\ luse'[m] = luse[m] /\ lmerged'[m] = lmerged[m]
            BY <2>1, <2>3, <3>5, <4>1 DEF IndexTypeOK
          <5> QED
            BY <3>6, <5>1
        <4>2. CASE m = n
          <5>1. /\ ldef'[m] = NewDefinition(ldef[m], luse[m], e.use, e.cap)
                /\ luse'[m] = luse[m] \cup e.use /\ lmerged'[m] = Append(lmerged[m], r)
            BY <2>1, <2>3, <3>5, <4>2 DEF IndexTypeOK
          <5> QED
            BY <3>4, <3>6, <5>1, ChosenAppend
        <4> QED
          BY <4>1, <4>2
      <3> QED
        BY <3>7 DEF IndexInv
    <2> QED
      BY <1>1, <2>2, <2>3 DEF library_check_index_entry, ThrowIndex
  <1>2. CASE phase' = "resolve"
    BY <1>2 DEF IndexInv
  <1>3. CASE UNCHANGED <<luse, ldef, lmerged>> /\ (phase' \in {"read", "libs", "index", "suppress"} =>
                                                  phase \in {"read", "libs", "index", "suppress"})
    BY <1>3 DEF IndexInv
  <1> QED
    BY <1>1, <1>2, <1>3, IndexSteps

LEMMA InitIndex == LinkerInit => IndexInv
  <1> SUFFICES ASSUME LinkerInit PROVE IndexInv
    OBVIOUS
  <1>1. \A n \in Names : luse[n] = {} /\ ldef[n] = NULL /\ lmerged[n] = <<>>
    BY DEF LinkerInit
  <1>2. ChosenDefinition(<<>>) = NULL
    <2>1. Unique(<<>>) = {} /\ \A j : Multiple(<<>>) # {j}
      BY DEF Unique, Multiple
    <2> QED
      BY <2>1, Chosen
  <1>3. AllUses(<<>>) = {}
    BY DEF AllUses
  <1> QED
    BY <1>1, <1>2, <1>3 DEF IndexInv

\* The index of any number of libraries leads from a name to the definition that
\* all its entries amount to (library.c:86).
THEOREM IndexIsChosenInvariant == LinkerSpec => []IndexIsChosen
  <1>1. IndexInv => IndexIsChosen
    BY DEF IndexInv, IndexIsChosen, AllUses
  <1>2. LinkerInit => LinkerInv /\ IndexInv
    BY InitLinker, InitIndex
  <1>3. LinkerInv /\ IndexInv /\ [LinkerNext]_vars => (LinkerInv /\ IndexInv)'
    BY NextLinker, NextIndex
  <1> QED
    BY <1>1, <1>2, <1>3, PTL DEF LinkerSpec

-----------------------------------------------------------------------------
\* A control applies to a name.
Applies(c, n) ==
  \/ c.all /\ c.shape = ShapeOf[n]
  \/ \E m \in c.names : indirect[m] = n

\* One of the controls before position k applies to a name.
AppliedBefore(controls, k, n) == \E j \in DOMAIN controls : j < k /\ Applies(controls[j], n)

\* The names that are hidden, as the lists to hide and to keep are gone through.
HideInv ==
  /\ phase = "hide_all" => next = 1
  /\ phase = "hide" =>
       hidden = {n \in Defined : args.hide_defd \/ AppliedBefore(args.hides, next, n)}
  /\ phase = "keep" =>
       hidden = {n \in Defined : /\ args.hide_defd \/ Asked(args.hides, n)
                                 /\ ~AppliedBefore(args.keeps, next, n)}
  /\ phase \in {"write", "exit"} =>
       hidden = {n \in Defined : (args.hide_defd \/ Asked(args.hides, n)) /\ ~Asked(args.keeps, n)}

\* What is written is the state that the linker has come to.
OutInv ==
  out # NULL =>
     /\ phase = "exit" /\ pc = "idle"
     /\ out = [names |-> direct \ hidden, shapes |-> NonEmpty, limits |-> idcount, units |-> units]

\* A control of a shape that is not in the table applies to no name, since the
\* names it lists have that shape, and renaming keeps shapes (linker.c:268).
LEMMA NothingToSelect ==
  ASSUME LinkerInv, NEW q \in {args.hides, args.keeps}, NEW j \in DOMAIN q, q[j].shape \notin shapes,
         NEW n \in direct
  PROVE  ~Applies(q[j], n)
  <1>1. args \in Args /\ n \in Names /\ indirect \in Indirects /\ ShapeOf[n] \in shapes
    BY DEF LinkerInv, LinkerTypeOK, ReaderInv, Typed, CapsuleTypeOK, TablesTypeOK, ShapeInv, NamesShaped
  <1>2. q[j].names \subseteq Names /\ \A m \in q[j].names : ShapeOf[m] = q[j].shape
    BY <1>1, ControlTyped
  <1>3. \A m \in Names : indirect[m] # NULL => ShapeOf[indirect[m]] = ShapeOf[m]
    BY <1>1, CapsuleAssumption
  <1>4. n # NULL
    BY <1>1, CapsuleAssumption
  <1> QED
    BY <1>1, <1>2, <1>3, <1>4 DEF Applies

\* One more control has been gone through.
LEMMA AppliedNext ==
  ASSUME NEW S, NEW q \in Seq(S), NEW k \in Nat \ {0}, k <= Len(q), NEW n
  PROVE  AppliedBefore(q, k + 1, n) <=> AppliedBefore(q, k, n) \/ Applies(q[k], n)
  <1>1. k \in DOMAIN q /\ DOMAIN q \subseteq Nat
    OBVIOUS
  <1>2. \A j \in DOMAIN q : j < k + 1 <=> j < k \/ j = k
    BY <1>1
  <1> QED
    BY <1>1, <1>2 DEF AppliedBefore

LEMMA AppliedAll ==
  ASSUME NEW S, NEW q \in Seq(S), NEW k \in Nat, NEW n
  PROVE  /\ ~AppliedBefore(q, 1, n)
         /\ k > Len(q) => (AppliedBefore(q, k, n) <=> Asked(q, n))
  <1>1. \A j \in DOMAIN q : ~(j < 1) /\ (k > Len(q) => j < k)
    OBVIOUS
  <1> QED
    BY <1>1 DEF AppliedBefore, Applies, Asked

\* Before the names are hidden there is nothing to show.
LEMMA HideEarly ==
  ASSUME HideInv, OutInv, phase \notin {"hide", "keep", "write", "exit"},
         phase' \notin {"hide", "keep", "write", "exit"}, out' = out,
         phase' = "hide_all" => next' = 1
  PROVE  HideInv' /\ OutInv'
  BY DEF HideInv, OutInv

\* While the names are hidden and kept nothing is read.
LEMMA HideFrame ==
  ASSUME UNCHANGED <<readerVars, args>>
  PROVE  /\ \A q, k, n : AppliedBefore(q, k, n)' <=> AppliedBefore(q, k, n)
         /\ \A q, n : Asked(q, n)' <=> Asked(q, n)
         /\ Defined' = Defined /\ NonEmpty' = NonEmpty
         /\ UNCHANGED <<direct, idcount, units>>
  BY DEF readerVars, tableVars, usageVars, AppliedBefore, Applies, Asked, Defined, NonEmpty

LEMMA QuietReader == Quiet => UNCHANGED readerVars /\ pc' = pc
  BY DEF Quiet, capsuleVars, readerVars, tableVars, usageVars, versionVars

\* Hiding and keeping: the invariant goes through the lists one control at a time
\* (linker.c:262-320).
LEMMA NextHides ==
  ASSUME LinkerInv, HideInv, OutInv, [LinkerNext]_vars
  PROVE  HideInv' /\ OutInv'
  <1>0. /\ args \in Args /\ next \in Nat \ {0} /\ direct \subseteq Names
        /\ pc \in Stages => phase \in {"read", "load"}
    BY DEF LinkerInv, LinkerTypeOK, ReaderInv, Typed, CapsuleTypeOK, TablesTypeOK
  <1>a. PICK H, K, k : H = args.hides /\ K = args.keeps /\ k = next
    OBVIOUS
  <1>b. H \in Seq(Control) /\ K \in Seq(Control)
    BY <1>0, <1>a, ArgTyped
  <1>1. CASE ReadStep /\ UNCHANGED linkerVars
    <2>1. phase \in {"read", "load"} /\ phase' = phase /\ out' = out
      BY <1>0, <1>1, ReadStepReads DEF linkerVars, outVars
    <2> QED
      BY <2>1, HideEarly
  <1>2. CASE OpenInput \/ EndInputs \/ library_read_header \/ MalformedIndex
             \/ library_check_index_entry \/ EndIndex \/ EndLibraries \/ linker_suppress
    <2>1. /\ phase \notin {"hide", "keep", "write", "exit"}
          /\ phase' \notin {"hide", "keep", "write", "exit"} /\ out' = out
          /\ phase' = "hide_all" => next' = 1
      BY <1>2 DEF OpenInput, EndInputs, library_read_header, MalformedIndex,
         library_check_index_entry, EndIndex, EndLibraries, linker_suppress, In, ThrowIndex, outVars
    <2> QED
      BY <2>1, HideEarly
  <1>3. CASE StartPass \/ (\E s \in Shapes : VisitShape(s)) \/ TakeName \/ EndShape \/ LeaveName
             \/ LoadCapsule \/ lib_capsule_loaded \/ EndPass
    <2>1. /\ phase \notin {"hide", "keep", "write", "exit"}
          /\ phase' \notin {"hide", "keep", "write", "exit"} /\ out' = out
          /\ phase' = "hide_all" => next' = 1
      BY <1>3 DEF StartPass, VisitShape, TakeName, EndShape, LeaveName, LoadCapsule,
         lib_capsule_loaded, EndPass, In, outVars
    <2> QED
      BY <2>1, HideEarly
  <1>4. CASE shape_entry_hide_all_defd
    <2>1. /\ phase = "hide_all" /\ phase' = "hide" /\ UNCHANGED <<readerVars, args, out, next>>
          /\ hidden' = IF args.hide_defd THEN Defined ELSE {}
      BY <1>4, QuietReader DEF shape_entry_hide_all_defd, In
    <2>2. next' = 1 /\ out = NULL
      BY <2>1 DEF HideInv, OutInv
    <2>3. \A n : ~AppliedBefore(H, 1, n)'
      BY <1>0, <1>b, <2>1, AppliedAll, HideFrame
    <2>4. HideInv'
      BY <1>a, <2>1, <2>2, <2>3, HideFrame DEF HideInv
    <2> QED
      BY <2>1, <2>2, <2>4 DEF OutInv
  <1>5. CASE linker_hide
    <2>1. /\ phase = "hide" /\ phase' = "hide" /\ next' = k + 1 /\ k <= Len(H)
          /\ UNCHANGED <<readerVars, args, out>>
      BY <1>5, <1>a DEF linker_hide, In
    <2>2. hidden' = {n \in Defined : n \in hidden \/ Applies(H[k], n)}
      <3>1. hidden \subseteq Defined
        BY <2>1 DEF HideInv
      <3>2. CASE H[k].shape \notin shapes /\ hidden' = hidden
        <4>1. \A n \in direct : ~Applies(H[k], n)
          BY <1>0, <1>a, <1>b, <2>1, <3>2, NothingToSelect
        <4> QED
          BY <3>1, <3>2, <4>1 DEF Defined
      <3>3. CASE hidden' = hidden \cup Selected(H[k], Defined)
        BY <3>1, <3>3 DEF Selected, Applies
      <3> QED
        BY <1>5, <1>a, <3>2, <3>3 DEF linker_hide
    <2>3. hidden = {n \in Defined : args.hide_defd \/ AppliedBefore(H, k, n)}
      BY <1>a, <2>1 DEF HideInv
    <2>4. \A n : AppliedBefore(H, k + 1, n) <=> AppliedBefore(H, k, n) \/ Applies(H[k], n)
      BY <1>0, <1>a, <1>b, <2>1, AppliedNext
    <2>5. hidden' = {n \in Defined : args.hide_defd \/ AppliedBefore(H, k + 1, n)}
      BY <2>2, <2>3, <2>4
    <2>6. \A n : AppliedBefore(H, k + 1, n)' <=> AppliedBefore(H, k + 1, n)
      BY <2>1, HideFrame
    <2>7. HideInv'
      BY <1>a, <2>1, <2>5, <2>6, HideFrame DEF HideInv
    <2> QED
      BY <2>1, <2>7 DEF OutInv
  <1>6. CASE EndHide
    <2>1. /\ phase = "hide" /\ phase' = "keep" /\ next' = 1 /\ k > Len(H)
          /\ UNCHANGED <<readerVars, args, out, hidden>>
      BY <1>6, <1>a, QuietReader DEF EndHide, In, outVars
    <2>2. hidden = {n \in Defined : args.hide_defd \/ AppliedBefore(H, k, n)}
      BY <1>a, <2>1 DEF HideInv
    <2>3. \A n : /\ AppliedBefore(H, k, n) <=> Asked(H, n)
                 /\ ~AppliedBefore(K, 1, n)
      BY <1>0, <1>a, <1>b, <2>1, AppliedAll
    <2>4. \A n : (Asked(H, n)' <=> Asked(H, n)) /\ (AppliedBefore(K, 1, n)' <=> AppliedBefore(K, 1, n))
      BY <2>1, HideFrame
    <2>5. HideInv'
      BY <1>a, <2>1, <2>2, <2>3, <2>4, HideFrame DEF HideInv
    <2> QED
      BY <2>1, <2>5 DEF OutInv
  <1>7. CASE linker_keep
    <2>1. /\ phase = "keep" /\ phase' = "keep" /\ next' = k + 1 /\ k <= Len(K)
          /\ UNCHANGED <<readerVars, args, out>>
      BY <1>7, <1>a DEF linker_keep, In
    <2>2. hidden' = {n \in Defined : n \in hidden /\ ~Applies(K[k], n)}
      <3>1. hidden \subseteq Defined /\ Defined \subseteq direct
        BY <2>1 DEF HideInv, Defined
      <3>2. CASE K[k].shape \notin shapes /\ hidden' = hidden
        <4>1. \A n \in direct : ~Applies(K[k], n)
          BY <1>0, <1>a, <1>b, <2>1, <3>2, NothingToSelect
        <4> QED
          BY <3>1, <3>2, <4>1
      <3>3. CASE hidden' = hidden \ Selected(K[k], direct)
        BY <3>1, <3>3 DEF Selected, Applies
      <3> QED
        BY <1>7, <1>a, <3>2, <3>3 DEF linker_keep
    <2>3. hidden = {n \in Defined : /\ args.hide_defd \/ Asked(H, n)
                                    /\ ~AppliedBefore(K, k, n)}
      BY <1>a, <2>1 DEF HideInv
    <2>4. \A n : AppliedBefore(K, k + 1, n) <=> AppliedBefore(K, k, n) \/ Applies(K[k], n)
      BY <1>0, <1>a, <1>b, <2>1, AppliedNext
    <2>5. hidden' = {n \in Defined : /\ args.hide_defd \/ Asked(H, n)
                                     /\ ~AppliedBefore(K, k + 1, n)}
      BY <2>2, <2>3, <2>4
    <2>6. \A n : /\ Asked(H, n)' <=> Asked(H, n)
                 /\ AppliedBefore(K, k + 1, n)' <=> AppliedBefore(K, k + 1, n)
      BY <2>1, HideFrame
    <2>7. HideInv'
      BY <1>a, <2>1, <2>5, <2>6, HideFrame DEF HideInv
    <2> QED
      BY <2>1, <2>7 DEF OutInv
  <1>8. CASE EndKeep
    <2>1. /\ phase = "keep" /\ phase' = "write" /\ k > Len(K)
          /\ UNCHANGED <<readerVars, args, out, hidden>>
      BY <1>8, <1>a, QuietReader DEF EndKeep, In, outVars
    <2>2. hidden = {n \in Defined : /\ args.hide_defd \/ Asked(H, n)
                                    /\ ~AppliedBefore(K, k, n)}
      BY <1>a, <2>1 DEF HideInv
    <2>3. \A n : AppliedBefore(K, k, n) <=> Asked(K, n)
      BY <1>0, <1>a, <1>b, <2>1, AppliedAll
    <2>4. \A n : (Asked(H, n)' <=> Asked(H, n)) /\ (Asked(K, n)' <=> Asked(K, n))
      BY <2>1, HideFrame
    <2>5. HideInv'
      BY <1>a, <2>1, <2>2, <2>3, <2>4, HideFrame DEF HideInv
    <2> QED
      BY <2>1, <2>5 DEF OutInv
  <1>9. CASE linker_write_capsule
    <2>1. /\ phase = "write" /\ phase' \in {"write", "exit"} /\ pc = "idle"
          /\ UNCHANGED <<readerVars, args, hidden>>
          /\ \/ phase' = "write" /\ out' = out
             \/ /\ phase' = "exit" /\ pc' = pc
                /\ out' = [names |-> direct \ hidden, shapes |-> NonEmpty, limits |-> idcount,
                           units |-> units]
      BY <1>9 DEF linker_write_capsule, In
    <2>2. \A n : (Asked(H, n)' <=> Asked(H, n)) /\ (Asked(K, n)' <=> Asked(K, n))
      BY <2>1, HideFrame
    <2>3. HideInv'
      BY <1>a, <2>1, <2>2, HideFrame DEF HideInv
    <2> QED
      BY <2>1, <2>3, HideFrame DEF OutInv
  <1>10. CASE Terminated \/ UNCHANGED vars
    <2>1. UNCHANGED <<readerVars, args, out, hidden, phase, pc, next>>
      BY <1>10, QuietReader DEF Terminated, vars, linkerVars, Quiet, outVars
    <2>2. \A n : /\ (Asked(H, n)' <=> Asked(H, n)) /\ (Asked(K, n)' <=> Asked(K, n))
                 /\ AppliedBefore(H, k, n)' <=> AppliedBefore(H, k, n)
                 /\ AppliedBefore(K, k, n)' <=> AppliedBefore(K, k, n)
      BY <2>1, HideFrame
    <2>3. HideInv'
      BY <1>a, <2>1, <2>2, HideFrame DEF HideInv
    <2> QED
      BY <2>1, <2>3, HideFrame DEF OutInv
  <1> QED
    BY <1>1, <1>2, <1>3, <1>4, <1>5, <1>6, <1>7, <1>8, <1>9, <1>10 DEF LinkerNext, LinkerStep

LEMMA InitHides == LinkerInit => HideInv /\ OutInv
  BY DEF LinkerInit, HideInv, OutInv

\* The names that the output shows are those that nobody asked to hide, and those
\* to be kept, in any order of the options (linker.c:294).
THEOREM VisibleNamesInvariant == LinkerSpec => []VisibleNames
  <1>1. LinkerInv /\ HideInv /\ OutInv => VisibleNames
    <2> SUFFICES ASSUME HideInv, OutInv, out # NULL
                 PROVE  out.names = {n \in direct : \/ n \notin Defined
                                                    \/ ~(args.hide_defd \/ Asked(args.hides, n))
                                                    \/ Asked(args.keeps, n)}
      BY DEF VisibleNames
    <2>1. out.names = direct \ hidden
      BY DEF OutInv
    <2>2. hidden = {n \in Defined : (args.hide_defd \/ Asked(args.hides, n)) /\ ~Asked(args.keeps, n)}
      BY DEF HideInv, OutInv
    <2> QED
      BY <2>1, <2>2
  <1>2. LinkerInit => LinkerInv /\ HideInv /\ OutInv
    BY InitLinker, InitHides
  <1>3. LinkerInv /\ HideInv /\ OutInv /\ [LinkerNext]_vars => (LinkerInv /\ HideInv /\ OutInv)'
    BY NextLinker, NextHides
  <1> QED
    BY <1>1, <1>2, <1>3, PTL DEF LinkerSpec

-----------------------------------------------------------------------------
\* As long as there is no error, the input files up to the next one have been
\* opened: a file that is missing is an error (linker.c:91).
InputInv ==
  errors = 0 =>
     /\ phase = "read" => \A j \in DOMAIN args.inputs : j < next => args.inputs[j] \in opened
     /\ phase # "read" => InputCaps(args) \subseteq opened

LEMMA OpenedGrows == ReaderStep => opened \subseteq opened'
  BY ReadStepReads DEF ReaderStep, Open, shape_entry_get_from_list, CallerStep, capsuleVars

\* Where the linker is in its list of input files changes in two steps only.
LEMMA InputSteps ==
  ASSUME [LinkerNext]_vars
  PROVE  /\ args' = args
         /\ \/ OpenInput \/ EndInputs
            \/ (phase' = "read" <=> phase = "read") /\ (phase = "read" => next' = next)
  <1>1. CASE UNCHANGED linkerVars
    BY <1>1 DEF linkerVars
  <1>2. CASE OpenInput \/ EndInputs
    BY <1>2 DEF OpenInput, EndInputs
  <1>3. CASE library_read_header
    <2>1. phase = "libs" /\ phase' \in {"libs", "index"} /\ args' = args
      BY <1>3 DEF library_read_header, In
    <2> QED
      BY <2>1
  <1>4. CASE library_check_index_entry
    <2>1. phase = "index" /\ phase' \in {"libs", "index"} /\ args' = args
      BY <1>4 DEF library_check_index_entry, In, ThrowIndex
    <2> QED
      BY <2>1
  <1>5. CASE MalformedIndex \/ EndIndex \/ EndLibraries \/ linker_suppress
    BY <1>5 DEF MalformedIndex, EndIndex, EndLibraries, linker_suppress, In, ThrowIndex
  <1>6. CASE StartPass \/ TakeName \/ EndShape \/ LeaveName \/ LoadCapsule \/ lib_capsule_loaded
             \/ EndPass \/ (\E s \in Shapes : VisitShape(s))
    <2>1. args' = args /\ phase # "read" /\ phase' # "read"
      BY <1>6 DEF StartPass, TakeName, EndShape, LeaveName, LoadCapsule, lib_capsule_loaded, EndPass,
                  VisitShape, In
    <2> QED
      BY <2>1
  <1>7. CASE shape_entry_hide_all_defd \/ linker_hide \/ EndHide \/ linker_keep \/ EndKeep
             \/ linker_write_capsule
    <2>1. args' = args /\ phase # "read" /\ phase' # "read"
      BY <1>7 DEF shape_entry_hide_all_defd, linker_hide, EndHide, linker_keep, EndKeep,
                  linker_write_capsule, In
    <2> QED
      BY <2>1
  <1> QED
    BY <1>1, <1>2, <1>3, <1>4, <1>5, <1>6, <1>7 DEF LinkerNext, LinkerStep, Terminated, vars

LEMMA NextInputs ==
  ASSUME LinkerInv, InputInv, [LinkerNext]_vars
  PROVE  InputInv'
  <1>0. Typed /\ LinkerTypeOK /\ args \in Args /\ next \in Nat
    BY DEF LinkerInv, ReaderInv, LinkerTypeOK
  <1>1. ReaderStep
    BY <1>0, LinkerSteps
  <1>2. opened \subseteq opened' /\ (errors' = 0 => errors = 0)
    BY <1>0, <1>1, OpenedGrows, ErrorsGrow
  <1>3. CASE OpenInput
    <2>1. phase = "read" /\ phase' = "read" /\ next' = next + 1 /\ args' = args
      BY <1>3 DEF OpenInput, In
    <2>2. errors' = 0 => args.inputs[next] \in opened'
      <3>1. \/ errors' = errors + 1
            \/ opened' = opened \cup {args.inputs[next]}
        BY <1>3 DEF OpenInput, SeriousThen, SeriousErrors, Open
      <3>2. errors \in Nat
        BY <1>0 DEF Typed, CapsuleTypeOK, ControlTypeOK
      <3> QED
        BY <3>1, <3>2
    <2>3. \A j \in DOMAIN args.inputs : j < next + 1 => j < next \/ j = next
      <3>1. args.inputs \in Seq(Capsules)
        BY <1>0, ArgTyped
      <3> QED
        BY <1>0, <3>1
    <2> QED
      BY <1>2, <2>1, <2>2, <2>3 DEF InputInv
  <1>4. CASE EndInputs
    <2>1. phase = "read" /\ phase' = "libs" /\ next > Len(args.inputs) /\ args' = args
      BY <1>4 DEF EndInputs, In
    <2>2. \A j \in DOMAIN args.inputs : j < next
      <3>1. args.inputs \in Seq(Capsules)
        BY <1>0, ArgTyped
      <3> QED
        BY <1>0, <2>1, <3>1
    <2> QED
      BY <1>2, <2>1, <2>2 DEF InputInv, InputCaps
  <1>5. CASE (phase' = "read" <=> phase = "read") /\ (phase = "read" => next' = next)
    <2>1. args' = args
      BY InputSteps
    <2> QED
      BY <1>2, <1>5, <2>1 DEF InputInv
  <1> QED
    BY <1>3, <1>4, <1>5, InputSteps

LEMMA InitInputs == LinkerInit => InputInv
  <1> SUFFICES ASSUME LinkerInit PROVE InputInv
    OBVIOUS
  <1>1. args \in Args /\ phase = "read" /\ next = 1
    BY DEF LinkerInit
  <1>2. \A j \in DOMAIN args.inputs : ~(j < 1)
    <2>1. args.inputs \in Seq(Capsules)
      BY <1>1, ArgTyped
    <2> QED
      BY <2>1
  <1> QED
    BY <1>1, <1>2 DEF InputInv

\* A link that reports no error puts everything together that was asked for, and
\* nothing that is only half there (linker.c, capsule.c:404-966).
THEOREM CleanLinkIsWholeInvariant == LinkerSpec => []CleanLinkIsWhole
  <1>1. LinkerInv /\ LoadInv /\ OutInv /\ InputInv => CleanLinkIsWhole
    <2> SUFFICES ASSUME LinkerInv, LoadInv, OutInv, InputInv, out # NULL, errors = 0
                 PROVE  /\ InputCaps(args) \cup loaded \subseteq complete
                        /\ \A j \in DOMAIN out.units :
                              /\ out.units[j].whole
                              /\ \A k \in DOMAIN out.units[j].links :
                                    LET l == out.units[j].links[k]
                                    IN l.shape \in out.shapes /\ l.ext < out.limits[l.shape]
                        /\ \A n \in out.names :
                              ShapeOf[n] \in out.shapes /\ id[n] < out.limits[ShapeOf[n]]
                        /\ \A n \in Names : \A i, j \in DOMAIN merged[n] :
                              "DEFD" \in merged[n][i].use \cap merged[n][j].use => i = j
      BY DEF CleanLinkIsWhole
    <2>0. /\ Typed /\ IdInv /\ ShapeInv /\ CleanInv
      BY DEF LinkerInv, ReaderInv
    <2>1. /\ phase = "exit" /\ pc = "idle"
          /\ out.names \subseteq direct /\ out.shapes = NonEmpty /\ out.limits = idcount
          /\ out.units = units
      BY DEF OutInv
    <2>2. InputCaps(args) \cup loaded \subseteq complete
      <3>1. InputCaps(args) \cup loaded \subseteq opened
        BY <2>1 DEF LoadInv, InputInv
      <3>2. opened \ complete = {}
        BY <2>0, <2>1 DEF CleanInv, AllRead, Clean
      <3> QED
        BY <3>1, <3>2
    <2>3. \A j \in DOMAIN units : units[j].whole
      BY <2>0, <2>1 DEF CleanInv, AllWhole, Clean, InUnit
    <2>4. idcount \in [Shapes -> Nat] /\ id \in [Names -> Nat] /\ direct \subseteq Names
      BY <2>0, CapsuleAssumption DEF Typed, CapsuleTypeOK, TablesTypeOK
    <2>5. ASSUME NEW j \in DOMAIN units, NEW k \in DOMAIN units[j].links
          PROVE  /\ units[j].links[k].shape \in NonEmpty
                 /\ units[j].links[k].ext < idcount[units[j].links[k].shape]
      <3>1. units[j].links[k].shape \in shapes
        BY <2>0 DEF ShapeInv, LinksShaped
      <3>2. units[j].links[k].ext < idcount[units[j].links[k].shape]
        BY <2>0 DEF IdInv, LinksInRange
      <3>3. units[j].links[k] \in Link
        <4>1. units \in Seq(UnitObject)
          BY <2>0 DEF Typed, CapsuleTypeOK, UnitsTypeOK
        <4>2. units[j] \in UnitObject
          BY <4>1
        <4>3. units[j].links \in Seq(Link)
          BY <4>2 DEF UnitObject
        <4> QED
          BY <4>3
      <3>4. units[j].links[k].ext \in Nat /\ units[j].links[k].shape \in Shapes
        BY <3>3, CapsuleAssumption DEF Link
      <3>5. idcount[units[j].links[k].shape] > 0
        BY <2>4, <3>2, <3>4
      <3> QED
        BY <3>1, <3>2, <3>5 DEF NonEmpty
    <2>6. ASSUME NEW n \in direct
          PROVE  ShapeOf[n] \in NonEmpty /\ id[n] < idcount[ShapeOf[n]]
      <3>1. ShapeOf[n] \in shapes /\ id[n] < idcount[ShapeOf[n]]
        BY <2>0 DEF ShapeInv, NamesShaped, IdInv, IdsDistinct
      <3>2. ShapeOf[n] \in Shapes /\ n \in Names
        BY <2>4, CapsuleAssumption
      <3>3. idcount[ShapeOf[n]] > 0
        BY <2>4, <3>1, <3>2
      <3> QED
        BY <3>1, <3>3 DEF NonEmpty
    <2>7. \A n \in Names : \A i, j \in DOMAIN merged[n] :
             "DEFD" \in merged[n][i].use \cap merged[n][j].use => i = j
      BY <2>0 DEF CleanInv, OneUnique
    <2> HIDE DEF NonEmpty
    <2> QED
      BY <2>1, <2>2, <2>3, <2>5, <2>6, <2>7
  <1> DEFINE Inv == LinkerInv /\ LoadInv /\ HideInv /\ OutInv /\ InputInv
  <1>2. LinkerInit => Inv
    BY InitLinker, InitLoads, InitHides, InitInputs
  <1>3. Inv /\ [LinkerNext]_vars => Inv'
    BY NextLinker, NextLoads, NextHides, NextInputs
  <1>4. Inv => CleanLinkIsWhole
    BY <1>1
  <1> QED
    BY <1>2, <1>3, <1>4, PTL DEF LinkerSpec

-----------------------------------------------------------------------------
\* The name waits in the list of its shape.
Waiting(n) == \E j \in DOMAIN list[ShapeOf[n]] : list[ShapeOf[n]][j] = n

\* The name has been looked at, and nothing that is read later makes it needed
\* and supplied, unless it was taken off its list too early.
Settled(n) == n \in skipped \/ "DEFD" \in use[n] \/ ~Supplied(n)

BeforeResolve == phase \in {"read", "libs", "index", "suppress"}

\* The shapes of a pass that are done with.
Done == IF phase = "pass" THEN visited ELSE visited \ {cur}

\* Every name waits, is being looked at, or is settled; and as long as a pass has
\* loaded nothing, the lists of the shapes that it is done with are empty.
ResolveInv ==
  /\ BeforeResolve => \A n \in direct : Waiting(n)
  /\ ~BeforeResolve =>
       \A n \in direct : Waiting(n) \/ Settled(n) \/ (phase \in {"name", "load"} /\ n = name)
  /\ phase \in {"pass", "shape", "name"} /\ ~did_define =>
       known = shapes /\ \A s \in Done : list[s] = <<>>
  /\ AfterResolve => \A s \in Shapes : list[s] = <<>>

\* A name that waits goes on waiting until it is taken off, and a name that is
\* entered waits (name-table.c:97, shape-entry.c:160).
LEMMA WaitingKept ==
  ASSUME Typed, NEW n \in direct',
         capsule_read_external_names \/ UNCHANGED <<direct, list>>, n \in direct => Waiting(n)
  PROVE  Waiting(n)'
  <1>0. direct \subseteq Names /\ list \in [Shapes -> Seq(Names)]
    BY DEF Typed, CapsuleTypeOK, TablesTypeOK
  <1>1. CASE UNCHANGED <<direct, list>>
    BY <1>1 DEF Waiting
  <1>2. CASE capsule_read_external_names
    <2> DEFINE m == indirect[C.externs[item].name]
    <2>1. UNCHANGED <<direct, list>> \/ (m # NULL /\ AddName(m) /\ m \notin direct)
      BY <1>2 DEF capsule_read_external_names, AddName, tableVars
    <2>2. m \in Names \cup {NULL}
      BY <1>2, CurrentExtern DEF capsule_read_external_names, AtItem, At
    <2> HIDE DEF m
    <2>3. CASE m # NULL /\ AddName(m) /\ m \notin direct
      <3>1. m \in Names /\ ShapeOf[m] \in Shapes
        BY <2>2, <2>3, CapsuleAssumption
      <3>2. direct' = direct \cup {m} /\ list' = [list EXCEPT ![ShapeOf[m]] = Append(@, m)]
        BY <2>3 DEF AddName
      <3>3. PICK q : q = list[ShapeOf[m]]
        OBVIOUS
      <3>4. q \in Seq(Names) /\ Len(q) \in Nat /\ list'[ShapeOf[m]] = Append(q, m)
        BY <1>0, <3>1, <3>2, <3>3
      <3>5. /\ DOMAIN Append(q, m) = 1 .. Len(q) + 1 /\ DOMAIN q = 1 .. Len(q)
            /\ Append(q, m)[Len(q) + 1] = m /\ \A j \in 1 .. Len(q) : Append(q, m)[j] = q[j]
        BY <3>1, <3>4
      <3>6. CASE n = m
        BY <3>4, <3>5, <3>6 DEF Waiting
      <3>7. CASE n # m
        <4>1. n \in direct /\ n \in Names
          BY <1>0, <3>2, <3>7
        <4>2. PICK j \in DOMAIN list[ShapeOf[n]] : list[ShapeOf[n]][j] = n
          BY <4>1 DEF Waiting
        <4>3. ShapeOf[n] \in Shapes
          BY <4>1, CapsuleAssumption
        <4>4. CASE ShapeOf[n] = ShapeOf[m]
          <5>1. j \in 1 .. Len(q) + 1 /\ Append(q, m)[j] = n
            BY <3>3, <3>4, <3>5, <4>2, <4>4
          <5> QED
            BY <3>4, <3>5, <4>4, <5>1 DEF Waiting
        <4>5. CASE ShapeOf[n] # ShapeOf[m]
          <5>1. list'[ShapeOf[n]] = list[ShapeOf[n]]
            BY <1>0, <3>2, <4>3, <4>5
          <5> QED
            BY <4>2, <5>1 DEF Waiting
        <4> QED
          BY <4>4, <4>5
      <3> QED
        BY <3>6, <3>7
    <2> QED
      BY <1>1, <2>1, <2>3
  <1> QED
    BY <1>1, <1>2

\* Taking a name off its list leaves the others there (shape-entry.c:182).
LEMMA WaitingTaken ==
  ASSUME Typed, NEW s \in Shapes, shape_entry_get_from_list(s), NEW n \in direct, Waiting(n)
  PROVE  Waiting(n)' \/ n = Head(list[s])
  <1>0. direct \subseteq Names /\ list \in [Shapes -> Seq(Names)]
    BY DEF Typed, CapsuleTypeOK, TablesTypeOK
  <1>1. PICK q : q = list[s]
    OBVIOUS
  <1>2. q \in Seq(Names) /\ q # <<>> /\ Len(q) \in Nat \ {0} /\ list' = [list EXCEPT ![s] = Tail(q)]
    BY <1>0, <1>1 DEF shape_entry_get_from_list
  <1>3. /\ DOMAIN q = 1 .. Len(q) /\ Head(q) = q[1]
        /\ DOMAIN Tail(q) = 1 .. Len(q) - 1
        /\ \A j \in 1 .. Len(q) - 1 : Tail(q)[j] = q[j + 1]
    BY <1>2
  <1>4. PICK j \in DOMAIN list[ShapeOf[n]] : list[ShapeOf[n]][j] = n
    BY DEF Waiting
  <1>5. CASE ShapeOf[n] # s
    <2>1. list'[ShapeOf[n]] = list[ShapeOf[n]]
      BY <1>0, <1>2, <1>5, CapsuleAssumption
    <2> QED
      BY <1>4, <2>1 DEF Waiting
  <1>6. CASE ShapeOf[n] = s /\ j # 1
    <2>1. list'[ShapeOf[n]] = Tail(q)
      BY <1>0, <1>2, <1>6
    <2>2. j - 1 \in 1 .. Len(q) - 1 /\ (j - 1) + 1 = j
      BY <1>1, <1>2, <1>3, <1>4, <1>6
    <2>3. Tail(q)[j - 1] = n
      BY <1>1, <1>3, <1>4, <1>6, <2>2
    <2> QED
      BY <1>3, <2>1, <2>2, <2>3 DEF Waiting
  <1>7. CASE ShapeOf[n] = s /\ j = 1
    BY <1>1, <1>3, <1>4, <1>7
  <1> QED
    BY <1>5, <1>6, <1>7

\* What is settled stays settled (name-entry.c:372-389).
LEMMA SettledKept ==
  ASSUME NEW n, Settled(n), use[n] \subseteq use'[n], skipped \subseteq skipped',
         loaded \subseteq loaded', UNCHANGED <<ldirect, ldef, luse>>
  PROVE  Settled(n)'
  BY DEF Settled, Supplied

\* A step that reads nothing and settles the name it was looking at, if any.
LEMMA ResolveSame ==
  ASSUME ResolveInv, ~BeforeResolve, UNCHANGED <<direct, list, use, ldirect, luse, ldef>>,
         loaded \subseteq loaded', skipped \subseteq skipped',
         \A n : phase \in {"name", "load"} /\ n = name =>
            Settled(n)' \/ (phase' \in {"name", "load"} /\ name' = n)
  PROVE  \A n \in direct' : \/ Waiting(n)' \/ Settled(n)'
                            \/ phase' \in {"name", "load"} /\ n = name'
  <1> SUFFICES ASSUME NEW n \in direct
               PROVE  \/ Waiting(n)' \/ Settled(n)'
                      \/ phase' \in {"name", "load"} /\ n = name'
    OBVIOUS
  <1>1. CASE Waiting(n)
    BY <1>1 DEF Waiting
  <1>2. CASE Settled(n)
    BY <1>2, SettledKept
  <1>3. CASE phase \in {"name", "load"} /\ n = name
    BY <1>3
  <1> QED
    BY <1>1, <1>2, <1>3 DEF ResolveInv

\* Searching the libraries loses no name (linker.c:186-226, name-entry.c:372).
LEMMA NextResolve ==
  ASSUME LinkerInv, ResolveInv, [LinkerNext]_vars
  PROVE  ResolveInv'
  <1>0. /\ Typed /\ LinkerTypeOK /\ ListedOnce /\ ShapeInv
        /\ pc \in Stages => phase \in {"read", "load"}
        /\ direct \subseteq Names /\ list \in [Shapes -> Seq(Names)]
    BY DEF LinkerInv, LinkerTypeOK, ReaderInv, Typed, CapsuleTypeOK, TablesTypeOK
  <1>r. ReaderStep
    BY <1>0, LinkerSteps
  <1> USE DEF BeforeResolve, AfterResolve
  <1>1. CASE ReadStep /\ UNCHANGED linkerVars
    <2>1. /\ phase \in {"read", "load"} /\ pc \in Stages
          /\ UNCHANGED <<phase, name, skipped, loaded, ldirect, ldef, luse>>
      BY <1>0, <1>1, ReadStepReads DEF linkerVars, passVars, indexVars
    <2>2. capsule_read_external_names \/ UNCHANGED <<direct, list>>
      BY <1>r, <2>1, ListSteps DEF shape_entry_get_from_list
    <2>3. ASSUME NEW n \in direct', n \in direct => Waiting(n)
          PROVE  Waiting(n)'
      BY <1>0, <2>2, <2>3, WaitingKept
    <2>4. ASSUME NEW n \in direct, Settled(n)
          PROVE  Settled(n)'
      BY <1>0, <1>r, <2>1, <2>4, UsesGrow, SettledKept
    <2> HIDE DEF Waiting, Settled
    <2>5. \A n \in direct : \/ Waiting(n)
                            \/ phase = "load" /\ (Settled(n) \/ n = name)
      BY <2>1 DEF ResolveInv
    <2> QED
      BY <2>1, <2>3, <2>4, <2>5 DEF ResolveInv
  <1>2. CASE OpenInput \/ EndInputs \/ library_read_header \/ MalformedIndex
             \/ library_check_index_entry \/ EndIndex \/ EndLibraries \/ linker_suppress
    <2>1. BeforeResolve /\ (BeforeResolve' \/ phase' = "resolve")
      BY <1>2 DEF OpenInput, EndInputs, library_read_header, MalformedIndex,
         library_check_index_entry, EndIndex, EndLibraries, linker_suppress, In, ThrowIndex
    <2>2. UNCHANGED <<direct, list>>
      BY <1>2 DEF OpenInput, EndInputs, library_read_header, MalformedIndex,
         library_check_index_entry, EndIndex, EndLibraries, linker_suppress, Open, Quiet,
         capsule_set_major_version, capsuleVars, readerVars, tableVars
    <2>3. \A n \in direct' : Waiting(n)'
      BY <2>1, <2>2 DEF ResolveInv, Waiting
    <2> QED
      BY <2>1, <2>3 DEF ResolveInv
  <1>3. CASE StartPass
    <2>1. /\ phase = "resolve" /\ phase' = "pass" /\ visited' = {} /\ known' = shapes
          /\ UNCHANGED <<direct, list, use, shapes, ldirect, luse, ldef, loaded, skipped>>
      BY <1>3 DEF StartPass, In, Quiet, capsuleVars, indexVars
    <2> QED
      BY <2>1, ResolveSame DEF ResolveInv, Done
  <1>4. ASSUME NEW s \in Shapes, VisitShape(s) PROVE ResolveInv'
    <2>1. /\ phase = "pass" /\ phase' = "shape" /\ visited' = visited \cup {s} /\ cur' = s
          /\ UNCHANGED <<direct, list, use, shapes, ldirect, luse, ldef, loaded, skipped, known,
                         did_define>>
      BY <1>4 DEF VisitShape, In, Quiet, capsuleVars, indexVars
    <2> QED
      BY <2>1, ResolveSame DEF ResolveInv, Done
  <1>5. CASE TakeName
    <2>1. /\ phase = "shape" /\ phase' = "name" /\ name' = Head(list[cur])
          /\ shape_entry_get_from_list(cur)
          /\ UNCHANGED <<ldirect, luse, ldef, loaded, skipped, known, did_define, visited, cur>>
      BY <1>5 DEF TakeName, In, indexVars
    <2>2. UNCHANGED <<direct, use, shapes>> /\ cur \in Shapes
      BY <1>0, <2>1 DEF shape_entry_get_from_list, usageVars, LinkerTypeOK, PassTypeOK
    <2>3. ASSUME NEW n \in direct
          PROVE  Waiting(n)' \/ Settled(n)' \/ n = name'
      <3>1. CASE Waiting(n)
        BY <1>0, <2>1, <2>2, <3>1, WaitingTaken
      <3>2. CASE Settled(n)
        BY <2>1, <2>2, <3>2, SettledKept
      <3> QED
        BY <2>1, <3>1, <3>2 DEF ResolveInv
    <2>4. \A s \in Shapes : s # cur => list'[s] = list[s]
      BY <1>0, <2>1 DEF shape_entry_get_from_list
    <2>5. visited \subseteq Shapes
      BY <1>0 DEF LinkerTypeOK, PassTypeOK
    <2> QED
      BY <2>1, <2>2, <2>3, <2>4, <2>5 DEF ResolveInv, Done
  <1>6. CASE EndShape
    <2>1. /\ phase = "shape" /\ phase' = "pass" /\ list[cur] = <<>>
          /\ UNCHANGED <<direct, list, use, shapes, ldirect, luse, ldef, loaded, skipped, known,
                         did_define, visited, cur>>
      BY <1>6 DEF EndShape, In, Quiet, capsuleVars, indexVars, passVars
    <2> QED
      BY <2>1, ResolveSame DEF ResolveInv, Done
  <1>7. CASE LeaveName
    <2>1. /\ phase = "name" /\ phase' = "shape" /\ ~(Needed(name) /\ Supplied(name))
          /\ UNCHANGED <<direct, list, use, shapes, ldirect, luse, ldef, loaded, known,
                         did_define, visited, cur>>
      BY <1>7 DEF LeaveName, In, Quiet, capsuleVars, indexVars
    <2>2. /\ skipped \subseteq skipped'
          /\ {"DEFD", "USED"} \cap use[name] = {} => name \in skipped'
      BY <1>7 DEF LeaveName
    <2>3. ASSUME NEW n, n = name PROVE Settled(n)'
      <3>1. CASE {"DEFD", "USED"} \cap use[n] = {}
        BY <2>2, <2>3, <3>1 DEF Settled
      <3>2. CASE "DEFD" \in use[n]
        BY <2>1, <3>2 DEF Settled
      <3>3. CASE ~Supplied(n)
        BY <2>1, <3>3 DEF Settled, Supplied
      <3> QED
        BY <2>1, <2>3, <3>1, <3>2, <3>3 DEF Needed
    <2> QED
      BY <2>1, <2>2, <2>3, ResolveSame DEF ResolveInv, Done
  <1>8. CASE LoadCapsule
    <2>1. /\ phase = "name" /\ phase' = "load"
          /\ UNCHANGED <<direct, list, use, ldirect, luse, ldef, loaded, skipped, name>>
      BY <1>8 DEF LoadCapsule, In, Open, tableVars, usageVars, indexVars, passVars
    <2> QED
      BY <2>1, ResolveSame DEF ResolveInv
  <1>9. CASE lib_capsule_loaded
    <2>1. /\ phase = "load" /\ phase' = "shape" /\ did_define' = TRUE
          /\ loaded' = loaded \cup {ldef[name]}
          /\ UNCHANGED <<direct, list, use, ldirect, luse, ldef, skipped>>
      BY <1>9 DEF lib_capsule_loaded, In, Quiet, capsuleVars, indexVars
    <2>2. ASSUME NEW n, n = name PROVE Settled(n)'
      BY <2>1, <2>2 DEF Settled, Supplied
    <2> QED
      BY <2>1, <2>2, ResolveSame DEF ResolveInv
  <1>10. CASE EndPass
    <2>1. /\ phase = "pass" /\ known \subseteq visited
          /\ phase' = IF did_define THEN "resolve" ELSE "hide_all"
          /\ UNCHANGED <<direct, list, use, ldirect, luse, ldef, loaded, skipped>>
      BY <1>10 DEF EndPass, In, Quiet, capsuleVars, indexVars, passVars
    <2>2. ASSUME ~did_define, NEW s \in Shapes PROVE list[s] = <<>>
      <3>1. shapes \subseteq visited /\ \A r \in visited : list[r] = <<>>
        BY <2>1, <2>2 DEF ResolveInv, Done
      <3>2. CASE s \notin shapes
        <4>1. \A j \in DOMAIN list[s] : list[s][j] \in direct /\ ShapeOf[list[s][j]] = s
          BY <1>0 DEF ListedOnce
        <4>2. \A n \in direct : ShapeOf[n] \in shapes
          BY <1>0 DEF ShapeInv, NamesShaped
        <4>3. DOMAIN list[s] = {}
          BY <3>2, <4>1, <4>2
        <4>4. list[s] \in Seq(Names)
          BY <1>0
        <4>5. list[s] # <<>> => 1 \in DOMAIN list[s]
          BY <4>4
        <4> QED
          BY <4>3, <4>5
      <3> QED
        BY <3>1, <3>2
    <2> QED
      BY <2>1, <2>2, ResolveSame DEF ResolveInv
  <1>11. CASE shape_entry_hide_all_defd \/ linker_hide \/ EndHide \/ linker_keep \/ EndKeep
             \/ linker_write_capsule
    <2>1. AfterResolve /\ AfterResolve' /\ UNCHANGED <<indexVars, passVars>>
      BY <1>11 DEF shape_entry_hide_all_defd, linker_hide, EndHide, linker_keep, EndKeep,
         linker_write_capsule, In
    <2>2. UNCHANGED readerVars
      BY <1>11, QuietReader DEF shape_entry_hide_all_defd, linker_hide, EndHide, linker_keep,
         EndKeep, linker_write_capsule
    <2>3. UNCHANGED <<direct, list, use, ldirect, luse, ldef, loaded, skipped>>
      BY <2>1, <2>2 DEF readerVars, tableVars, usageVars, indexVars, passVars
    <2> QED
      BY <2>1, <2>3, ResolveSame DEF ResolveInv
  <1>12. CASE Terminated \/ UNCHANGED vars
    <2>1. UNCHANGED <<direct, list, use, shapes, phase, ldirect, luse, ldef, loaded, skipped, known,
                      did_define, visited, cur, name>>
      BY <1>12 DEF Terminated, vars, capsuleVars, linkerVars, indexVars, passVars
    <2>2. CASE ~BeforeResolve
      BY <2>1, <2>2, ResolveSame DEF ResolveInv, Done
    <2>3. CASE BeforeResolve
      BY <2>1, <2>3 DEF ResolveInv, Waiting
    <2> QED
      BY <2>2, <2>3
  <1> QED
    BY <1>1, <1>2, <1>3, <1>4, <1>5, <1>6, <1>7, <1>8, <1>9, <1>10, <1>11, <1>12
    DEF LinkerNext, LinkerStep

LEMMA InitResolve == LinkerInit => ResolveInv
  BY DEF LinkerInit, CapsuleInit, ResolveInv, BeforeResolve, AfterResolve

\* When the search is over no name is left unexamined, and a name that a library
\* could still supply is one that was taken off its list before it was used
\* (linker.c:214, name-entry.c:379).
THEOREM OnlySkippedUnresolvedInvariant == LinkerSpec => []OnlySkippedUnresolved
  <1>1. LinkerInv /\ ResolveInv => OnlySkippedUnresolved
    <2> SUFFICES ASSUME LinkerInv, ResolveInv, AfterResolve
                 PROVE  /\ \A s \in Shapes : list[s] = <<>>
                        /\ \A n \in direct : Needed(n) /\ Supplied(n) => n \in skipped
      BY DEF OnlySkippedUnresolved
    <2>1. \A s \in Shapes : list[s] = <<>>
      BY DEF ResolveInv
    <2>2. \A n \in direct : ~Waiting(n)
      <3>1. \A n \in direct : ShapeOf[n] \in Shapes
        BY CapsuleAssumption DEF LinkerInv, ReaderInv, Typed, CapsuleTypeOK, TablesTypeOK
      <3> QED
        BY <2>1, <3>1 DEF Waiting
    <2>3. \A n \in direct : Settled(n)
      BY <2>2 DEF ResolveInv, AfterResolve, BeforeResolve
    <2> QED
      BY <2>1, <2>3 DEF Settled, Needed
  <1>2. LinkerInit => LinkerInv /\ ResolveInv
    BY InitLinker, InitResolve
  <1>3. LinkerInv /\ ResolveInv /\ [LinkerNext]_vars => (LinkerInv /\ ResolveInv)'
    BY NextLinker, NextResolve
  <1> QED
    BY <1>1, <1>2, <1>3, PTL DEF LinkerSpec

-----------------------------------------------------------------------------
(***************************************************************************)
(* The refinement.  Linkage knows nothing but the files and the command    *)
(* line, so the tables of the linker have to be traced back to them: the   *)
(* usages of the name table to the capsules that are complete, and the     *)
(* index to the entries of the libraries.                                  *)
(***************************************************************************)
\* The usage of the external name j of the capsule that is being read has been
\* merged, if the capsule has one.
UsageRead(j) ==
  LET s == ShapeOf[C.externs[j].name] IN
  \/ pc \in {"units", "eof"}
  \/ pc = "usage" /\ j < item
  \/ pc = "token" /\ s = Token /\ j < item
  \/ pc = "tag" /\ (s = Token \/ (s = Tag /\ j < item))

Heard(c, j) == c \in complete \/ (pc \in Stages /\ c = cap /\ UsageRead(j))

\* The capsule that is being read is not complete, and its linker information
\* decides which stages it goes through.
StageInv ==
  pc \in Stages =>
     /\ cap \notin complete
     /\ pc = "usage" => C.tld = "tld1"
     /\ pc \in {"token", "tag"} => C.tld \in {"tld0", "tld2"}

\* As long as nothing went wrong, the usages of a name are those that the capsules
\* have for it as far as they were read,
UsesRead ==
  Clean => \A n \in Names : \A b \in Bits :
     b \in use[n] <=> \E c \in Capsules : \E j \in DOMAIN file[c].externs :
                         Says(c, j, n, b) /\ Heard(c, j)

\* and a name is in the table only if such a capsule mentions it.
NamesRead ==
  Clean => \A n \in direct :
     \E c \in complete \cup (IF pc \in Stages THEN {cap} ELSE {}) : Mentions(c, n)

\* The steps of the reader that matter here.
LEMMA StageSteps ==
  ASSUME Typed, ReaderStep
  PROVE  /\ UNCHANGED <<file, indirect>>
         /\ errors' = 0 => errors = 0
         /\ \/ \E c \in Capsules : Open(c)
            \/ EndStage
            \/ capsule_read_end
            \/ capsule_read_usage
            \/ capsule_read_external_names
            \/ /\ UNCHANGED <<cap, complete, direct, usageVars>>
               /\ \/ pc' \notin Stages /\ pc \notin Stages
                  \/ pc' \notin Stages /\ pc \in Stages /\ ~Clean'
                  \/ pc \in {"header", "sets"} /\ pc' \in {"sets", "shapes"}
                  \/ pc \in {"shapes", "units"} /\ pc' = pc
                  \/ pc \in Stages /\ pc' = pc /\ item' = item
  <1>0. /\ errors <= errors' /\ errors \in Nat /\ errors' \in Nat
        /\ Throw => errors' > 0 /\ pc' \in {"idle", "abort"}
    BY ErrorsGrow
  <1>a. errors' = 0 => errors = 0
    BY <1>0
  <1>b. Throw => pc' \notin Stages /\ ~Clean'
    BY <1>0 DEF Clean
  <1> USE DEF fixedVars, tableVars
  <1>1. ASSUME NEW c \in Capsules, Open(c) PROVE UNCHANGED <<file, indirect>>
    BY <1>1 DEF Open
  <1>2. CASE Malformed
    BY <1>a, <1>b, <1>2 DEF Malformed, Throw
  <1>3. CASE capsule_read_header
    <2>1. /\ UNCHANGED <<file, indirect, cap, complete, direct, usageVars>> /\ pc = "header"
          /\ Throw \/ pc' = "sets"
      BY <1>3 DEF capsule_read_header, Throw, At
    <2> QED
      BY <1>a, <1>b, <2>1
  <1>4. CASE capsule_read_unit_set_names
    <2>1. /\ UNCHANGED <<file, indirect, cap, complete, direct, usageVars>> /\ pc = "sets"
          /\ pc' \in {"abort", "shapes"}
      BY <1>4 DEF capsule_read_unit_set_names, At, SeriousErrors
    <2> QED
      BY <1>a, <2>1 DEF Clean
  <1>5. CASE capsule_read_shapes
    <2>1. /\ UNCHANGED <<file, indirect, cap, complete, direct, usageVars>> /\ pc = "shapes"
          /\ Throw \/ pc' = "shapes"
      BY <1>5 DEF capsule_read_shapes, Throw, Advance, AtItem, At
    <2> QED
      BY <1>a, <1>b, <2>1
  <1>6. CASE capsule_read_external_names \/ EndStage \/ capsule_read_end
    <2>1. UNCHANGED <<file, indirect>>
      BY <1>6 DEF capsule_read_external_names, EndStage, capsule_read_end
    <2> QED
      BY <1>a, <1>6, <2>1
  <1>7. CASE capsule_read_usage
    BY <1>a, <1>7 DEF capsule_read_usage
  <1>8. CASE unit_entry_add_unit \/ unit_set_contents \/ capsule_read_unit_maps
    <2>1. /\ UNCHANGED <<file, indirect, cap, complete, direct, usageVars>> /\ pc = "units"
          /\ Throw \/ pc' = "abort" \/ pc' = "units"
      BY <1>8 DEF unit_entry_add_unit, unit_set_contents, capsule_read_unit_maps, Throw, Advance,
                  AtItem, At
    <2> QED
      BY <1>a, <1>b, <2>1 DEF Clean
  <1>9. ASSUME NEW s \in Shapes, shape_entry_get_from_list(s)
        PROVE  UNCHANGED <<file, indirect, cap, complete, direct, usageVars>> /\ pc = "idle" /\ pc' = pc
    BY <1>9 DEF shape_entry_get_from_list
  <1>10. CASE CallerStep
    BY <1>a, <1>10 DEF CallerStep
  <1>11. CASE UNCHANGED capsuleVars
    BY <1>a, <1>11 DEF capsuleVars, usageVars
  <1>12. pc = "idle" => pc \notin Stages
    OBVIOUS
  <1> QED
    BY <1>a, <1>1, <1>2, <1>3, <1>4, <1>5, <1>6, <1>7, <1>8, <1>9, <1>10, <1>11, <1>12 DEF ReaderStep, ReadStep

\* A program that has ended stays ended.
LEMMA StillClean ==
  ASSUME Typed, ReaderStep, Clean'
  PROVE  Clean
  <1>1. errors = 0
    BY StageSteps DEF Clean
  <1>2. pc \in {"abort", "crash"} => UNCHANGED capsuleVars
    BY ReadStepReads DEF ReaderStep, Open, shape_entry_get_from_list, CallerStep
  <1> QED
    BY <1>1, <1>2 DEF Clean, capsuleVars

\* No capsule is read twice, and the stages follow each other in order
\* (capsule.c:949).
LEMMA NextStages == Typed /\ StageInv /\ ReaderStep => StageInv'
  <1> SUFFICES ASSUME Typed, StageInv, ReaderStep, pc' \in Stages PROVE StageInv'
    BY DEF StageInv
  <1>0. UNCHANGED file
    BY StageSteps
  <1>1. ASSUME NEW c \in Capsules, Open(c) PROVE StageInv'
    BY <1>1 DEF Open, StageInv, Typed, CapsuleTypeOK, ControlTypeOK
  <1>2. CASE EndStage
    <2>1. UNCHANGED <<cap, complete, C>> /\ pc \in Stages /\ pc' = NextStage
      BY <1>0, <1>2 DEF EndStage, C
    <2> QED
      BY <2>1 DEF StageInv, NextStage
  <1>3. CASE capsule_read_end
    BY <1>3 DEF capsule_read_end
  <1>4. CASE capsule_read_usage
    <2>1. UNCHANGED <<cap, complete>> /\ pc \in Stages /\ pc' \in {pc, "idle", "abort"}
      BY <1>4 DEF capsule_read_usage, Throw, Advance, SeriousErrors, SeriousThen
    <2>2. C' = C /\ pc' = pc
      BY <1>0, <2>1 DEF C
    <2> QED
      BY <2>1, <2>2 DEF StageInv
  <1>5. CASE capsule_read_external_names
    <2>1. UNCHANGED <<cap, complete>> /\ pc = "names" /\ pc' \in {pc, "idle", "abort", "crash"}
      BY <1>5 DEF capsule_read_external_names, Throw, Advance, SeriousErrors, SeriousThen, AtItem, At
    <2> QED
      BY <2>1 DEF StageInv
  <1>6. CASE /\ UNCHANGED <<cap, complete, direct, usageVars>>
             /\ \/ pc' \notin Stages /\ pc \notin Stages
                \/ pc' \notin Stages /\ pc \in Stages /\ ~Clean'
                \/ pc \in {"header", "sets"} /\ pc' \in {"sets", "shapes"}
                \/ pc \in {"shapes", "units"} /\ pc' = pc
                \/ pc \in Stages /\ pc' = pc /\ item' = item
    <2>1. C' = C
      BY <1>0, <1>6 DEF C
    <2> QED
      BY <1>6, <2>1 DEF StageInv
  <1> QED
    BY <1>1, <1>2, <1>3, <1>4, <1>5, <1>6, StageSteps

\* A name is entered only for a capsule that mentions it (capsule.c:472).
LEMMA NextNames == Typed /\ NamesRead /\ ReaderStep => NamesRead'
  <1> SUFFICES ASSUME Typed, NamesRead, ReaderStep, Clean', NEW n \in direct'
               PROVE  \E c \in complete' \cup (IF pc' \in Stages THEN {cap'} ELSE {}) : Mentions(c, n)'
    BY DEF NamesRead
  <1>0. UNCHANGED <<file, indirect>> /\ errors = 0
    BY StageSteps DEF Clean
  <1>m. \A c : Mentions(c, n)' = Mentions(c, n)
    BY <1>0 DEF Mentions
  <1>1. ASSUME NEW c \in Capsules, Open(c) PROVE pc = "idle" /\ UNCHANGED <<direct, complete>>
    BY <1>1 DEF Open, tableVars
  <1>2. CASE EndStage
    <2>1. pc \in Stages /\ pc' \in Stages /\ UNCHANGED <<direct, complete, cap>>
      BY <1>2 DEF EndStage, NextStage, tableVars
    <2> QED
      BY <1>0, <1>m, <2>1 DEF NamesRead, Clean
  <1>3. CASE capsule_read_end
    <2>1. pc \in Stages /\ complete' = complete \cup {cap} /\ direct' = direct
      BY <1>3 DEF capsule_read_end, At, tableVars
    <2> QED
      BY <1>0, <1>m, <2>1 DEF NamesRead, Clean
  <1>4. CASE capsule_read_usage
    <2>1. /\ UNCHANGED <<cap, complete, direct>> /\ pc \in Stages
          /\ Throw \/ pc' \in {pc, "abort"}
      BY <1>4 DEF capsule_read_usage, Throw, Advance, SeriousErrors, tableVars
    <2>2. pc' = pc
      BY <2>1, ErrorsGrow DEF Clean
    <2> QED
      BY <1>0, <1>m, <2>1, <2>2 DEF NamesRead, Clean
  <1>5. CASE capsule_read_external_names
    <2> DEFINE m == indirect[C.externs[item].name]
    <2>1. /\ UNCHANGED <<cap, complete>> /\ pc = "names"
          /\ Throw \/ pc' \in {pc, "abort", "crash"}
          /\ direct' = direct \/ direct' = direct \cup {m}
      BY <1>5 DEF capsule_read_external_names, Throw, Advance, AtItem, At, AddName, tableVars
    <2>2. pc' = pc
      BY <2>1, ErrorsGrow DEF Clean
    <2>3. item \in DOMAIN C.externs
      <3>1. C.externs \in Seq(Extern) /\ item \in Nat \ {0}
        BY <2>1, CurrentContent DEF Typed, CapsuleTypeOK, ControlTypeOK
      <3>2. item <= Len(C.externs)
        BY <1>5, <2>1 DEF capsule_read_external_names, AtItem, Items
      <3> QED
        BY <3>1, <3>2
    <2>4. Mentions(cap, m)
      BY <2>3 DEF Mentions, C
    <2> HIDE DEF m
    <2>5. CASE n \in direct
      BY <1>0, <1>m, <2>1, <2>2, <2>5 DEF NamesRead, Clean
    <2>6. CASE n = m
      BY <1>m, <2>1, <2>2, <2>4, <2>6
    <2> QED
      BY <2>1, <2>5, <2>6
  <1>6. CASE /\ UNCHANGED <<cap, complete, direct, usageVars>>
             /\ \/ pc' \notin Stages /\ pc \notin Stages
                \/ pc' \notin Stages /\ pc \in Stages /\ ~Clean'
                \/ pc \in {"header", "sets"} /\ pc' \in {"sets", "shapes"}
                \/ pc \in {"shapes", "units"} /\ pc' = pc
                \/ pc \in Stages /\ pc' = pc /\ item' = item
    <2>1. UNCHANGED <<cap, complete, direct>> /\ (pc' \in Stages <=> pc \in Stages)
      BY <1>6
    <2>2. Clean
      BY <1>0, <1>6, <2>1, StillClean DEF Clean
    <2> QED
      BY <1>m, <2>1, <2>2 DEF NamesRead
  <1> QED
    BY <1>0, <1>m, <1>1, <1>2, <1>3, <1>4, <1>5, <1>6, StageSteps DEF NamesRead, Clean

\* What a capsule says does not change.
LEMMA SaysSame ==
  ASSUME UNCHANGED <<file, indirect>>, NEW c, NEW j, NEW n, NEW b
  PROVE  Says(c, j, n, b)' = Says(c, j, n, b)
  BY DEF Says, Informs

\* A step that merges no usage.
LEMMA HeardSame ==
  ASSUME UsesRead, Clean, UNCHANGED <<file, indirect, use>>,
         \A c \in Capsules : \A j \in DOMAIN file[c].externs : \A n \in Names : \A b \in Bits :
            Says(c, j, n, b) => (Heard(c, j)' <=> Heard(c, j))
  PROVE  UsesRead'
  <1> SUFFICES ASSUME NEW n \in Names, NEW b \in Bits
               PROVE  b \in use[n] <=> \E c \in Capsules : \E j \in DOMAIN file[c].externs :
                                          Says(c, j, n, b)' /\ Heard(c, j)'
    BY DEF UsesRead
  <1>1. \A c, j : Says(c, j, n, b)' = Says(c, j, n, b)
    BY SaysSame
  <1>2. b \in use[n] <=> \E c \in Capsules : \E j \in DOMAIN file[c].externs :
                            Says(c, j, n, b) /\ Heard(c, j)
    BY DEF UsesRead
  <1> HIDE DEF Says, Heard
  <1> QED
    BY <1>1, <1>2

\* At the end of a stage, the usages that the next stage finds merged are those
\* that have been (capsule.c:498-663).
LEMMA StageHeard ==
  ASSUME Typed, StageInv, EndStage, UNCHANGED file,
         NEW j \in DOMAIN C.externs, NEW n, NEW b, Says(cap, j, n, b)
  PROVE  UsageRead(j)' <=> UsageRead(j)
  <1>1. pc \in Stages /\ C' = C /\ pc' = NextStage /\ item' = 1 /\ item > Len(Items)
    BY DEF EndStage, C
  <1>2. C.externs \in Seq(Extern) /\ item \in Nat
    BY <1>1, CurrentContent DEF Typed, CapsuleTypeOK, ControlTypeOK
  <1>3. j \in 1 .. Len(C.externs) /\ Len(C.externs) \in Nat
    BY <1>2
  <1>4. ~(j < 1) /\ (pc \in {"usage", "token", "tag"} => j < item)
    BY <1>1, <1>2, <1>3 DEF Items
  <1> DEFINE s == ShapeOf[C.externs[j].name]
  <1>5. C.tld = "tld1" \/ (C.tld \in {"tld0", "tld2"} /\ s \in {Token, Tag})
    BY DEF Says, Informs, C
  <1>6. /\ UsageRead(j) <=> \/ pc \in {"units", "eof"}
                            \/ pc = "usage" /\ j < item
                            \/ pc = "token" /\ s = Token /\ j < item
                            \/ pc = "tag" /\ (s = Token \/ (s = Tag /\ j < item))
        /\ UsageRead(j)' <=> \/ pc' \in {"units", "eof"}
                             \/ pc' = "tag" /\ s = Token
    BY <1>1, <1>4 DEF UsageRead
  <1>7. /\ pc = "usage" => C.tld = "tld1"
        /\ pc \in {"token", "tag"} => C.tld \in {"tld0", "tld2"}
    BY <1>1 DEF StageInv
  <1> HIDE DEF s
  <1>8. /\ pc = "shapes" => pc' = "names"
        /\ pc = "names" => pc' \in {"usage", "token"}
        /\ pc = "usage" => pc' = "units"
        /\ pc = "token" => pc' = "tag"
        /\ pc = "tag" => pc' = "units"
        /\ pc = "units" => pc' = "eof"
    BY <1>1, <1>5 DEF NextStage
  <1>9. pc \in {"shapes", "names", "usage", "token", "tag", "units"}
    BY DEF EndStage
  <1> QED
    BY <1>4, <1>5, <1>6, <1>7, <1>8, <1>9

\* The next item of a linker information unit is one more usage that is merged, if
\* the unit has a usage for it.
LEMMA NextHeard ==
  ASSUME pc \in {"usage", "token", "tag"}, item \in Nat, pc' = pc, item' = item + 1,
         UNCHANGED <<file, cap>>, NEW j \in Nat
  PROVE  UsageRead(j)' <=> UsageRead(j) \/ (j = item /\ HasUsage(ShapeOf[C.externs[item].name]))
  <1>1. C' = C
    BY DEF C
  <1>2. j < item' <=> j < item \/ j = item
    OBVIOUS
  <1>3. CASE j = item
    BY <1>1, <1>2, <1>3 DEF UsageRead, HasUsage
  <1>4. CASE j # item
    BY <1>1, <1>2, <1>4 DEF UsageRead, HasUsage
  <1> QED
    BY <1>3, <1>4

\* The usages of a name are what the capsules say (capsule.c:543-603).
LEMMA UsageHeard ==
  ASSUME Typed, StageInv, UsesRead, Clean, Clean', capsule_read_usage, UNCHANGED <<file, indirect>>
  PROVE  UsesRead'
  <1> DEFINE e == C.externs[item]
             m == indirect[e.name]
  <1>1. /\ pc \in {"usage", "token", "tag"} /\ AtItem(pc) /\ pc \in Stages
        /\ item <= Len(C.externs)
    BY DEF capsule_read_usage, AtItem, Items
  <1>2. C.externs \in Seq(Extern) /\ item \in Nat \ {0} /\ cap \in Capsules
    BY <1>1, CurrentContent DEF Typed, CapsuleTypeOK, ControlTypeOK
  <1>3. item \in DOMAIN C.externs /\ \A j \in DOMAIN C.externs : j \in Nat
    BY <1>1, <1>2
  <1>4. m \in Names \cup {NULL}
    BY <1>1, CurrentExtern
  <1>5. /\ UNCHANGED <<cap, complete>>
        /\ \/ ~HasUsage(ShapeOf[e.name]) /\ Advance /\ UNCHANGED usageVars
           \/ Throw
           \/ /\ HasUsage(ShapeOf[e.name])
              /\ ~IllegalUse(e.use, ShapeOf[e.name] = Tag, ShapeOf[e.name] = Token)
              /\ pc' \in {pc, "abort"} /\ item' = item + 1
              /\ use' = [use EXCEPT ![m] = @ \cup e.use]
    BY DEF capsule_read_usage, Throw, Advance, SeriousErrors
  <1>6. ~Throw
    BY DEF Throw, SeriousThen, SeriousErrors, Clean
  <1>7. pc' = pc /\ item' = item + 1
    BY <1>5, <1>6 DEF Advance, Clean
  <1>8. \A j \in DOMAIN C.externs :
           UsageRead(j)' <=> UsageRead(j) \/ (j = item /\ HasUsage(ShapeOf[e.name]))
    BY <1>1, <1>2, <1>3, <1>5, <1>7, NextHeard
  <1>9. CASE ~HasUsage(ShapeOf[e.name]) /\ UNCHANGED usageVars
    <2>1. ASSUME NEW c \in Capsules, NEW j \in DOMAIN file[c].externs
          PROVE  Heard(c, j)' <=> Heard(c, j)
      <3>1. c = cap => (UsageRead(j)' <=> UsageRead(j))
        BY <1>8, <1>9 DEF C
      <3> HIDE DEF UsageRead
      <3> QED
        BY <1>1, <1>5, <1>7, <3>1 DEF Heard
    <2>2. UNCHANGED use
      BY <1>9 DEF usageVars
    <2> HIDE DEF Heard, Says
    <2> QED
      BY <2>1, <2>2, HeardSame
  <1>10. CASE /\ HasUsage(ShapeOf[e.name])
              /\ ~IllegalUse(e.use, ShapeOf[e.name] = Tag, ShapeOf[e.name] = Token)
              /\ use' = [use EXCEPT ![m] = @ \cup e.use]
    <2>1. ASSUME NEW c \in Capsules, NEW j \in DOMAIN file[c].externs
          PROVE  Heard(c, j)' <=> Heard(c, j) \/ (c = cap /\ j = item)
      <3>1. c = cap => (UsageRead(j)' <=> UsageRead(j) \/ j = item)
        BY <1>8, <1>10 DEF C
      <3> HIDE DEF UsageRead
      <3> QED
        BY <1>1, <1>5, <1>7, <3>1 DEF Heard
    <2>2. Informs(cap, ShapeOf[e.name])
      BY <1>1, <1>10 DEF Informs, HasUsage, StageInv, C
    <2>3. \A n \in Names : \A b \in Bits : Says(cap, item, n, b) <=> m = n /\ b \in e.use
      BY <2>2 DEF Says, C
    <2>4. ASSUME NEW n \in Names, NEW b \in Bits
          PROVE  b \in use'[n] <=> b \in use[n] \/ (m = n /\ b \in e.use)
      BY <1>10 DEF Typed, CapsuleTypeOK, UsagesTypeOK
    <2>5. ASSUME NEW n \in Names, NEW b \in Bits
          PROVE  b \in use'[n] <=> \E c \in Capsules : \E j \in DOMAIN file[c].externs :
                                      Says(c, j, n, b)' /\ Heard(c, j)'
      <3>1. \A c, j : Says(c, j, n, b)' = Says(c, j, n, b)
        BY SaysSame
      <3>2. b \in use[n] <=> \E c \in Capsules : \E j \in DOMAIN file[c].externs :
                                Says(c, j, n, b) /\ Heard(c, j)
        BY DEF UsesRead
      <3>3. item \in DOMAIN file[cap].externs
        BY <1>3 DEF C
      <3> HIDE DEF Says, Heard, e, m
      <3>4. ASSUME b \in use'[n]
            PROVE  \E c \in Capsules : \E j \in DOMAIN file[c].externs : Says(c, j, n, b) /\ Heard(c, j)'
        <4>1. CASE b \in use[n]
          BY <2>1, <3>2, <4>1
        <4>2. CASE m = n /\ b \in e.use
          BY <1>2, <2>1, <2>3, <3>3, <4>2
        <4> QED
          BY <2>4, <3>4, <4>1, <4>2
      <3>5. ASSUME NEW c \in Capsules, NEW j \in DOMAIN file[c].externs, Says(c, j, n, b), Heard(c, j)'
            PROVE  b \in use'[n]
        <4>1. CASE Heard(c, j)
          BY <2>4, <3>2, <3>5, <4>1
        <4>2. CASE c = cap /\ j = item
          BY <2>3, <2>4, <3>5, <4>2
        <4> QED
          BY <2>1, <3>5, <4>1, <4>2
      <3> QED
        BY <3>1, <3>4, <3>5
    <2>6. UNCHANGED file
      OBVIOUS
    <2> QED
      BY <2>5, <2>6 DEF UsesRead
  <1> QED
    BY <1>5, <1>6, <1>9, <1>10

LEMMA NextUsesRead == Typed /\ StageInv /\ UsesRead /\ ReaderStep => UsesRead'
  <1> SUFFICES ASSUME Typed, StageInv, UsesRead, ReaderStep, Clean' PROVE UsesRead'
    BY DEF UsesRead
  <1>0. UNCHANGED <<file, indirect>> /\ Clean
    BY StageSteps, StillClean
  <1> DEFINE Same == \A c \in Capsules : \A j \in DOMAIN file[c].externs : \A n \in Names : \A b \in Bits :
                        Says(c, j, n, b) => (Heard(c, j)' <=> Heard(c, j))
  <1>s. Same /\ UNCHANGED use => UsesRead'
    BY <1>0, HeardSame
  <1> HIDE DEF Same, Says
  <1>1. ASSUME NEW d \in Capsules, Open(d) PROVE UsesRead'
    <2>1. pc = "idle" /\ pc' = "header" /\ UNCHANGED <<complete, use>>
      BY <1>1 DEF Open, usageVars
    <2>2. Same
      BY <2>1 DEF Same, Heard, UsageRead
    <2> QED
      BY <1>s, <2>1, <2>2
  <1>2. CASE EndStage
    <2>1. pc \in Stages /\ pc' \in Stages /\ UNCHANGED <<complete, use, cap>>
      BY <1>2 DEF EndStage, NextStage, usageVars
    <2>2. ASSUME NEW j \in DOMAIN C.externs, NEW n, NEW b, Says(cap, j, n, b)
          PROVE  UsageRead(j)' <=> UsageRead(j)
      BY <1>0, <1>2, <2>2, StageHeard
    <2>3. Same
      <3> SUFFICES ASSUME NEW c \in Capsules, NEW j \in DOMAIN file[c].externs, NEW n \in Names,
                          NEW b \in Bits, Says(c, j, n, b)
                   PROVE  Heard(c, j)' <=> Heard(c, j)
        BY DEF Same
      <3>1. c = cap => (UsageRead(j)' <=> UsageRead(j))
        BY <2>2 DEF C
      <3> HIDE DEF UsageRead
      <3> QED
        BY <2>1, <3>1 DEF Heard
    <2> QED
      BY <1>s, <2>1, <2>3
  <1>3. CASE capsule_read_end
    <2>1. pc = "eof" /\ pc' = "idle" /\ complete' = complete \cup {cap} /\ UNCHANGED use
      BY <1>3 DEF capsule_read_end, At, usageVars
    <2>2. Same
      BY <2>1 DEF Same, Heard, UsageRead
    <2> QED
      BY <1>s, <2>1, <2>2
  <1>4. CASE capsule_read_usage
    BY <1>0, <1>4, UsageHeard
  <1>5. CASE capsule_read_external_names
    <2>1. /\ UNCHANGED <<cap, complete, use>> /\ pc = "names"
          /\ pc' \in {pc, "idle", "abort", "crash"}
      BY <1>5 DEF capsule_read_external_names, Throw, Advance, SeriousErrors, SeriousThen, AtItem,
                  At, usageVars
    <2>2. Same
      BY <2>1 DEF Same, Heard, UsageRead
    <2> QED
      BY <1>s, <2>1, <2>2
  <1>6. CASE /\ UNCHANGED <<cap, complete, direct, usageVars>>
             /\ \/ pc' \notin Stages /\ pc \notin Stages
                \/ pc' \notin Stages /\ pc \in Stages /\ ~Clean'
                \/ pc \in {"header", "sets"} /\ pc' \in {"sets", "shapes"}
                \/ pc \in {"shapes", "units"} /\ pc' = pc
                \/ pc \in Stages /\ pc' = pc /\ item' = item
    <2>1. UNCHANGED <<C, use>>
      BY <1>0, <1>6 DEF C, usageVars
    <2>2. \A j : pc \in Stages => (UsageRead(j)' <=> UsageRead(j))
      BY <1>6, <2>1 DEF UsageRead
    <2>3. pc' \in Stages <=> pc \in Stages
      BY <1>6
    <2> HIDE DEF UsageRead
    <2>4. Same
      BY <1>6, <2>2, <2>3 DEF Same, Heard
    <2> QED
      BY <1>s, <2>1, <2>4
  <1> QED
    BY <1>1, <1>2, <1>3, <1>4, <1>5, <1>6, StageSteps

LEMMA InitRead == CapsuleInit => StageInv /\ UsesRead /\ NamesRead
  <1> SUFFICES ASSUME CapsuleInit PROVE StageInv /\ UsesRead /\ NamesRead
    OBVIOUS
  <1>1. pc = "idle" /\ complete = {} /\ direct = {} /\ \A n \in Names : use[n] = {}
    BY DEF CapsuleInit
  <1> QED
    BY <1>1 DEF StageInv, UsesRead, NamesRead, Heard

-----------------------------------------------------------------------------
\* The entry of the index at the place has been read.
IndexRead(p) ==
  /\ phase # "read"
  /\ phase \in {"libs", "index"} =>
        p[1] < next \/ (phase = "index" /\ p[1] = next /\ p[2] < entry)

Given(n, bit) == {p \in Giving(n, bit) : IndexRead(p)}

\* Before definitions are suppressed: the only unique definition that was read, or
\* the only multiple one.
FoundSoFar(n) ==
  /\ \A p \in Given(n, "DEFD") : ldef[n] = Indexed(p).cap
  /\ Given(n, "DEFD") = {} =>
       /\ Given(n, "MULT") = {} => ldef[n] = NULL
       /\ \A p \in Given(n, "MULT") :
             ldef[n] = IF Given(n, "MULT") = {p} THEN Indexed(p).cap ELSE NULL

\* What the index says about a name is what its entries say, as far as they were
\* read.
IndexWhole ==
  Clean => \A n \in Names :
    /\ \A b \in Bits : b \in luse[n] <=> Given(n, b) # {}
    /\ \A p \in Places : IndexRead(p) /\ indirect[Indexed(p).name] = n => n \in ldirect
    /\ \A p, q \in Given(n, "DEFD") : p = q
    /\ BeforeResolve => FoundSoFar(n)
    /\ ~BeforeResolve => ldef[n] = (IF Suppressed(n) THEN NULL ELSE IndexDefinition(n))

\* What is given to the linker does not change.
LEMMA GivenFixed ==
  ASSUME UNCHANGED <<args, indirect>>
  PROVE  /\ Places' = Places
         /\ \A p : Indexed(p)' = Indexed(p)
         /\ \A n, b : Giving(n, b)' = Giving(n, b)
         /\ \A n : IndexDefinition(n)' = IndexDefinition(n)
         /\ \A n : Suppressed(n)' = Suppressed(n)
         /\ \A n : UniqueIn(n)' = UniqueIn(n)
  <1>1. Places' = Places
    BY DEF Places
  <1>2. \A p : Indexed(p)' = Indexed(p)
    BY DEF Indexed
  <1>3. \A n, b : Giving(n, b)' = Giving(n, b)
    BY <1>1, <1>2 DEF Giving
  <1>4. \A n : IndexDefinition(n)' = IndexDefinition(n)
    BY <1>2, <1>3 DEF IndexDefinition, Earlier
  <1>5. \A n : UniqueIn(n)' = UniqueIn(n)
    BY <1>3 DEF UniqueIn
  <1>6. \A n : Suppressed(n)' = Suppressed(n)
    BY <1>5 DEF Suppressed, Asked
  <1> QED
    BY <1>1, <1>2, <1>3, <1>4, <1>5, <1>6

\* What is known of a place.
LEMMA PlaceTyped ==
  ASSUME args \in Args
  PROVE  /\ \A p \in Places :
               /\ p[1] \in DOMAIN args.libs /\ p[2] \in DOMAIN args.libs[p[1]].index
               /\ p = <<p[1], p[2]>>
         /\ \A j \in DOMAIN args.libs : \A k \in DOMAIN args.libs[j].index : <<j, k>> \in Places
  BY DEF Places

\* A step that reads no entry and suppresses nothing.
LEMMA IndexSame ==
  ASSUME IndexWhole, Clean, UNCHANGED <<args, indirect, luse, ldirect, ldef>>,
         BeforeResolve' <=> BeforeResolve, \A p \in Places : IndexRead(p)' <=> IndexRead(p)
  PROVE  IndexWhole'
  <1>1. /\ Places' = Places /\ \A p : Indexed(p)' = Indexed(p)
        /\ \A n, b : Giving(n, b)' = Giving(n, b) /\ Giving(n, b) \subseteq Places
        /\ \A n : IndexDefinition(n)' = IndexDefinition(n) /\ Suppressed(n)' = Suppressed(n)
    BY GivenFixed DEF Giving
  <1>2. \A n, b : Given(n, b)' = Given(n, b)
    <2> HIDE DEF Giving, IndexRead
    <2> QED
      BY <1>1 DEF Given
  <1> HIDE DEF Places, Indexed, Given, IndexDefinition, Suppressed, IndexRead, BeforeResolve
  <1>3. \A n : FoundSoFar(n)' = FoundSoFar(n)
    BY <1>1, <1>2 DEF FoundSoFar
  <1> HIDE DEF FoundSoFar
  <1> QED
    BY <1>1, <1>2, <1>3 DEF IndexWhole

\* Reading one more entry (library.c:86-151).
LEMMA IndexMerged ==
  ASSUME LinkerInv, IndexWhole, Clean, Clean', library_check_index_entry, UNCHANGED indirect
  PROVE  IndexWhole'
  <1> SUFFICES ASSUME NEW q, q = <<next, entry>>, NEW e, e = args.libs[next].index[entry],
                      NEW m, m = indirect[e.name]
               PROVE  IndexWhole'
    OBVIOUS
  <1>1. /\ args \in Args /\ IndexTypeOK /\ errors = 0 /\ errors' = 0 /\ indirect \in Indirects
        /\ phase = "index" /\ next \in Nat \ {0} /\ entry \in Nat \ {0} /\ next <= Len(args.libs)
    BY DEF LinkerInv, LinkerTypeOK, library_check_index_entry, In, Clean, ReaderInv, Typed, CapsuleTypeOK
  <1>2. /\ m # NULL
        /\ ~IllegalUse(e.use, tag_known /\ ShapeOf[e.name] = Tag,
                       token_known /\ ShapeOf[e.name] = Token)
        /\ ldirect' = ldirect \cup {m}
        /\ "DEFD" \notin e.use \cap luse[m]
        /\ ldef' = [ldef EXCEPT ![m] = NewDefinition(@, luse[m], e.use, e.cap)]
        /\ luse' = [luse EXCEPT ![m] = @ \cup e.use]
        /\ entry' = entry + 1 /\ UNCHANGED <<args, phase, next>>
    <2>1. UNCHANGED args /\ pc' # "crash"
      <3>1. UNCHANGED args
        BY DEF library_check_index_entry
      <3> QED
        BY <3>1 DEF Clean
    <2>2. ~ThrowIndex
      BY <1>1 DEF ThrowIndex, SeriousThen, SeriousErrors
    <2>3. /\ m # NULL
          /\ ~IllegalUse(e.use, tag_known /\ ShapeOf[e.name] = Tag,
                         token_known /\ ShapeOf[e.name] = Token)
          /\ ldirect' = ldirect \cup {m}
          /\ SeriousErrors(IF "DEFD" \in e.use \cap luse[m] THEN 1 ELSE 0, "idle")
          /\ ldef' = [ldef EXCEPT ![m] = NewDefinition(@, luse[m], e.use, e.cap)]
          /\ luse' = [luse EXCEPT ![m] = @ \cup e.use]
          /\ entry' = entry + 1 /\ UNCHANGED <<phase, next>>
      BY <2>1, <2>2 DEF library_check_index_entry
    <2>4. "DEFD" \notin e.use \cap luse[m]
      <3>1. ASSUME "DEFD" \in e.use \cap luse[m] PROVE errors' = errors + 1
        BY <2>3, <3>1 DEF SeriousErrors
      <3> QED
        BY <1>1, <3>1
    <2> QED
      BY <2>1, <2>3, <2>4
  <1>3. next \in DOMAIN args.libs /\ entry \in DOMAIN args.libs[next].index
    <2>1. args.libs \in Seq(Library)
      BY <1>1, ArgTyped
    <2>2. next \in DOMAIN args.libs
      BY <1>1, <2>1
    <2>3. args.libs[next].index \in Seq(IndexEntry)
      BY <1>1, <2>2, LibraryTyped
    <2>4. entry <= Len(args.libs[next].index)
      BY DEF library_check_index_entry
    <2> QED
      BY <1>1, <2>2, <2>3, <2>4
  <1>4. e.name \in Names /\ e.use \in SUBSET Bits /\ m \in Names
    <2>1. e.name \in Names
      BY <1>1, <1>3, LibraryTyped
    <2>2. e.use \in SUBSET Bits
      BY <1>2 DEF IllegalUse
    <2>3. indirect[e.name] \in Names \cup {NULL}
      BY <1>1, <2>1, CapsuleAssumption
    <2> QED
      BY <1>2, <2>1, <2>2, <2>3
  <1>5. q \in Places /\ Indexed(q) = e /\ ~IndexRead(q)
    <2>1. q \in Places /\ q[1] = next /\ q[2] = entry
      BY <1>1, <1>3, PlaceTyped
    <2> QED
      BY <1>1, <2>1 DEF Indexed, IndexRead
  <1>6. \A p \in Places : IndexRead(p)' <=> IndexRead(p) \/ p = q
    <2> SUFFICES ASSUME NEW p \in Places
                 PROVE  IndexRead(p)' <=> IndexRead(p) \/ p = q
      OBVIOUS
    <2>1. /\ p[1] \in DOMAIN args.libs /\ p[2] \in DOMAIN args.libs[p[1]].index
          /\ p = <<p[1], p[2]>>
      BY <1>1, PlaceTyped
    <2>2. p[2] \in Nat
      <3>1. args.libs[p[1]].index \in Seq(IndexEntry)
        BY <1>1, <2>1, LibraryTyped
      <3> QED
        BY <2>1, <3>1
    <2>3. p = q <=> p[1] = next /\ p[2] = entry
      BY <2>1
    <2>4. p[2] < entry + 1 <=> p[2] < entry \/ p[2] = entry
      BY <1>1, <2>2
    <2> QED
      BY <1>1, <1>2, <2>3, <2>4 DEF IndexRead
  <1>7. /\ Places' = Places /\ \A p : Indexed(p)' = Indexed(p)
        /\ \A n, b : Giving(n, b)' = Giving(n, b)
    BY <1>2, GivenFixed
  <1>8. \A n \in Names : \A b \in Bits : q \in Giving(n, b) <=> n = m /\ b \in e.use
    BY <1>5 DEF Giving
  <1> HIDE DEF IndexRead
  <1>9. \A n, b : Giving(n, b) \subseteq Places
    BY DEF Giving
  <1>10. \A n \in Names : \A b \in Bits :
            /\ q \notin Given(n, b)
            /\ Given(n, b)' = IF n = m /\ b \in e.use THEN Given(n, b) \cup {q} ELSE Given(n, b)
    <2> HIDE DEF Giving, Places
    <2> SUFFICES ASSUME NEW n \in Names, NEW b \in Bits
                 PROVE  /\ q \notin Given(n, b)
                        /\ Given(n, b)' = IF n = m /\ b \in e.use THEN Given(n, b) \cup {q}
                                                                  ELSE Given(n, b)
      OBVIOUS
    <2>1. Given(n, b)' = {p \in Giving(n, b) : IndexRead(p)'}
      BY <1>7 DEF Given
    <2> QED
      BY <1>5, <1>6, <1>8, <1>9, <2>1 DEF Given
  <1> HIDE DEF Given, Giving, Places, Indexed
  <1>11. ASSUME NEW n \in Names, n # m
         PROVE  /\ luse'[n] = luse[n] /\ ldef'[n] = ldef[n]
                /\ \A b \in Bits : Given(n, b)' = Given(n, b)
    BY <1>1, <1>2, <1>10, <1>11 DEF IndexTypeOK
  <1>12. /\ luse'[m] = luse[m] \cup e.use
         /\ ldef'[m] = NewDefinition(ldef[m], luse[m], e.use, e.cap)
         /\ \A b \in Bits : Given(m, b)' = IF b \in e.use THEN Given(m, b) \cup {q} ELSE Given(m, b)
    BY <1>1, <1>2, <1>4, <1>10 DEF IndexTypeOK
  <1>13. /\ \A b \in Bits : b \in luse[m] <=> Given(m, b) # {}
         /\ \A p1, p2 \in Given(m, "DEFD") : p1 = p2
         /\ FoundSoFar(m) /\ \A b \in Bits : q \notin Given(m, b)
    BY <1>1, <1>4, <1>10 DEF IndexWhole, BeforeResolve
  <1>14. FoundSoFar(m)'
    <2> SUFFICES /\ \A p \in Given(m, "DEFD")' : ldef'[m] = Indexed(p).cap
                 /\ Given(m, "DEFD")' = {} =>
                      /\ Given(m, "MULT")' = {} => ldef'[m] = NULL
                      /\ \A p \in Given(m, "MULT")' :
                            ldef'[m] = IF Given(m, "MULT")' = {p} THEN Indexed(p).cap ELSE NULL
      BY <1>7 DEF FoundSoFar
    <2>1. CASE "DEFD" \in e.use
      <3>1. Given(m, "DEFD")' = {q} /\ ldef'[m] = e.cap
        BY <1>2, <1>12, <1>13, <2>1 DEF NewDefinition
      <3> QED
        BY <1>5, <3>1
    <2>2. CASE "DEFD" \notin e.use /\ "DEFD" \in luse[m]
      <3>1. Given(m, "DEFD")' = Given(m, "DEFD") /\ Given(m, "DEFD") # {} /\ ldef'[m] = ldef[m]
        BY <1>12, <1>13, <2>2 DEF NewDefinition
      <3> QED
        BY <1>13, <3>1 DEF FoundSoFar
    <2>3. CASE "DEFD" \notin e.use /\ "DEFD" \notin luse[m]
      <3>1. Given(m, "DEFD")' = {} /\ Given(m, "DEFD") = {}
        BY <1>12, <1>13, <2>3
      <3>2. CASE "MULT" \notin e.use
        BY <1>12, <1>13, <2>3, <3>1, <3>2 DEF NewDefinition, FoundSoFar
      <3>3. CASE "MULT" \in e.use /\ "MULT" \in luse[m]
        <4>1. /\ ldef'[m] = NULL /\ Given(m, "MULT") # {}
              /\ Given(m, "MULT")' = Given(m, "MULT") \cup {q} /\ q \notin Given(m, "MULT")
          BY <1>12, <1>13, <2>3, <3>3 DEF NewDefinition
        <4>2. \A p : Given(m, "MULT")' # {p}
          BY <4>1
        <4> QED
          BY <3>1, <4>1, <4>2
      <3>4. CASE "MULT" \in e.use /\ "MULT" \notin luse[m]
        <4>1. ldef'[m] = e.cap /\ Given(m, "MULT")' = {q}
          BY <1>12, <1>13, <2>3, <3>4 DEF NewDefinition
        <4> QED
          BY <1>5, <3>1, <4>1
      <3> QED
        BY <3>2, <3>3, <3>4
    <2> QED
      BY <2>1, <2>2, <2>3
  <1>15. ASSUME NEW n \in Names
         PROVE  /\ \A b \in Bits : b \in luse'[n] <=> Given(n, b)' # {}
                /\ \A p1, p2 \in Given(n, "DEFD")' : p1 = p2
                /\ FoundSoFar(n)'
    <2>1. CASE n = m
      <3>1. \A p1, p2 \in Given(m, "DEFD")' : p1 = p2
        BY <1>2, <1>12, <1>13
      <3>2. \A b \in Bits : b \in luse'[m] <=> Given(m, b)' # {}
        BY <1>12, <1>13
      <3> QED
        BY <1>14, <2>1, <3>1, <3>2
    <2>2. CASE n # m
      <3>1. /\ \A b \in Bits : b \in luse[n] <=> Given(n, b) # {}
            /\ \A p1, p2 \in Given(n, "DEFD") : p1 = p2
            /\ FoundSoFar(n)
        BY <1>1 DEF IndexWhole, BeforeResolve
      <3>2. FoundSoFar(n)'
        BY <1>7, <1>11, <2>2, <3>1 DEF FoundSoFar
      <3> QED
        BY <1>11, <2>2, <3>1, <3>2
    <2> QED
      BY <2>1, <2>2
  <1>16. ASSUME NEW n \in Names, NEW p \in Places, IndexRead(p)', indirect[Indexed(p).name] = n
         PROVE  n \in ldirect'
    <2>1. CASE p = q
      BY <1>2, <1>5, <1>16, <2>1
    <2>2. CASE IndexRead(p)
      BY <1>1, <1>2, <1>16, <2>2 DEF IndexWhole
    <2> QED
      BY <1>6, <1>16, <2>1, <2>2
  <1>17. BeforeResolve'
    BY <1>1, <1>2 DEF BeforeResolve
  <1> HIDE DEF FoundSoFar, BeforeResolve, IndexDefinition, Suppressed
  <1> QED
    BY <1>7, <1>15, <1>16, <1>17 DEF IndexWhole

\* Once all entries were read, what was found is the definition that the index of
\* the libraries has for the name.
LEMMA FoundIsIndexed ==
  ASSUME NEW n, FoundSoFar(n), \A b : Given(n, b) = Giving(n, b),
         \A p, q \in Giving(n, "DEFD") : p = q
  PROVE  ldef[n] = IndexDefinition(n)
  <1> HIDE DEF Giving, Indexed
  <1>1. CASE Giving(n, "DEFD") # {}
    <2>1. PICK p \in Giving(n, "DEFD") : Giving(n, "DEFD") = {p}
      BY <1>1
    <2>2. (CHOOSE x \in Giving(n, "DEFD") : \A q \in Giving(n, "DEFD") : q = x \/ Earlier(x, q)) = p
      BY <2>1
    <2> QED
      BY <1>1, <2>1, <2>2 DEF IndexDefinition, FoundSoFar
  <1>2. CASE Giving(n, "DEFD") = {} /\ Giving(n, "MULT") # {}
    <2>1. PICK p : p \in Giving(n, "MULT")
      BY <1>2
    <2>2. CASE Giving(n, "MULT") = {p}
      <3>1. (CHOOSE x \in Giving(n, "MULT") : TRUE) = p
        BY <2>2
      <3> QED
        BY <1>2, <2>1, <2>2, <3>1 DEF IndexDefinition, FoundSoFar
    <2>3. CASE Giving(n, "MULT") # {p}
      <3>1. \A x \in Giving(n, "MULT") : Giving(n, "MULT") # {x}
        BY <2>1, <2>3
      <3> QED
        BY <1>2, <2>1, <2>3, <3>1 DEF IndexDefinition, FoundSoFar
    <2> QED
      BY <2>2, <2>3
  <1>3. CASE Giving(n, "DEFD") = {} /\ Giving(n, "MULT") = {}
    BY <1>3 DEF IndexDefinition, FoundSoFar
  <1> QED
    BY <1>1, <1>2, <1>3

\* Suppressing (linker.c:138-184).
LEMMA IndexSuppressed ==
  ASSUME LinkerInv, IndexWhole, Clean, linker_suppress, UNCHANGED indirect
  PROVE  IndexWhole'
  <1> DEFINE mult == {n \in ldirect : args.suppress_mult /\ luse[n] \cap {"DEFD", "MULT"} = {"MULT"}}
             chosen == UNION {Selected(args.suppresses[j], ldirect) : j \in DOMAIN args.suppresses}
  <1>1. /\ phase = "suppress" /\ phase' = "resolve" /\ UNCHANGED <<args, ldirect, luse>>
        /\ ldef' = [n \in Names |-> IF n \in mult \cup chosen THEN NULL ELSE ldef[n]]
    BY DEF linker_suppress, In
  <1>2. /\ Places' = Places /\ \A p : Indexed(p)' = Indexed(p)
        /\ \A n, b : Giving(n, b)' = Giving(n, b)
        /\ \A n : IndexDefinition(n)' = IndexDefinition(n) /\ Suppressed(n)' = Suppressed(n)
    BY <1>1, GivenFixed
  <1>3. BeforeResolve /\ ~BeforeResolve' /\ \A p : IndexRead(p) /\ IndexRead(p)'
    BY <1>1 DEF BeforeResolve, IndexRead
  <1>4. \A n, b : Given(n, b) = Giving(n, b) /\ Given(n, b)' = Giving(n, b)
    <2> HIDE DEF Giving
    <2> QED
      BY <1>2, <1>3 DEF Given
  <1>5. ASSUME NEW n \in Names
        PROVE  ldef'[n] = IF Suppressed(n) THEN NULL ELSE IndexDefinition(n)
    <2>1. /\ \A b \in Bits : b \in luse[n] <=> Giving(n, b) # {}
          /\ \A p \in Places : indirect[Indexed(p).name] = n => n \in ldirect
          /\ \A p, q \in Giving(n, "DEFD") : p = q
          /\ FoundSoFar(n)
      BY <1>3, <1>4 DEF IndexWhole
    <2>2. ldef[n] = IndexDefinition(n)
      BY <1>4, <2>1, FoundIsIndexed
    <2>3. n \in ldirect => (n \in chosen <=> Asked(args.suppresses, n))
      BY DEF Selected, Asked
    <2>4. n \notin ldirect => Giving(n, "DEFD") = {} /\ Giving(n, "MULT") = {}
      BY <2>1 DEF Giving
    <2>5. Giving(n, "DEFD") = {} /\ Giving(n, "MULT") = {} => ldef[n] = NULL
      BY <1>4, <2>1 DEF FoundSoFar
    <2>6. /\ "DEFD" \in luse[n] <=> UniqueIn(n)
          /\ "MULT" \in luse[n] <=> Giving(n, "MULT") # {}
      BY <2>1 DEF UniqueIn
    <2>7. n \in mult <=> n \in ldirect /\ args.suppress_mult /\ ~UniqueIn(n) /\ Giving(n, "MULT") # {}
      BY <2>6
    <2> HIDE DEF mult, chosen, IndexDefinition, Giving
    <2>8. ldef'[n] = IF n \in mult \cup chosen THEN NULL ELSE ldef[n]
      BY <1>1
    <2>9. n \in chosen => n \in ldirect
      BY DEF chosen, Selected
    <2> QED
      BY <2>2, <2>3, <2>4, <2>5, <2>7, <2>8, <2>9 DEF Suppressed, UniqueIn
  <1> HIDE DEF mult, chosen, IndexDefinition, Suppressed, Giving, Given, Places, Indexed, IndexRead,
               BeforeResolve, FoundSoFar
  <1> QED
    BY <1>1, <1>2, <1>3, <1>4, <1>5 DEF IndexWhole

\* The index is read entry by entry, and library by library (linker.c:101-136).
LEMMA NextIndexWhole ==
  ASSUME LinkerInv, IndexWhole, [LinkerNext]_vars
  PROVE  IndexWhole'
  <1> SUFFICES ASSUME Clean' PROVE IndexWhole'
    BY DEF IndexWhole
  <1>0. /\ Typed /\ LinkerTypeOK /\ args \in Args /\ next \in Nat \ {0} /\ entry \in Nat \ {0}
        /\ phase \in Phases
    BY DEF LinkerInv, ReaderInv, LinkerTypeOK
  <1>r. ReaderStep
    BY <1>0, LinkerSteps
  <1>c. Clean /\ UNCHANGED <<args, indirect>> /\ errors = 0 /\ errors' = 0
    BY <1>0, <1>r, StillClean, StageSteps, InputSteps DEF Clean
  <1>p. ASSUME NEW p \in Places
        PROVE  /\ p[1] \in 1 .. Len(args.libs) /\ Len(args.libs) \in Nat
               /\ p[2] \in 1 .. Len(args.libs[p[1]].index) /\ Len(args.libs[p[1]].index) \in Nat
    <2>1. p[1] \in DOMAIN args.libs /\ p[2] \in DOMAIN args.libs[p[1]].index
      BY <1>0, PlaceTyped
    <2>2. args.libs \in Seq(Library)
      BY <1>0, ArgTyped
    <2>3. args.libs[p[1]].index \in Seq(IndexEntry)
      BY <1>0, <2>1, LibraryTyped
    <2> QED
      BY <2>1, <2>2, <2>3
  <1> HIDE DEF Places
  <1> DEFINE Same == UNCHANGED <<luse, ldirect, ldef>>
             Place == \A p \in Places : IndexRead(p)' <=> IndexRead(p)
  <1>s. Same /\ Place /\ (BeforeResolve' <=> BeforeResolve) => IndexWhole'
    BY <1>c, IndexSame
  <1> HIDE DEF Same, Place
  <1>1. CASE UNCHANGED linkerVars
    <2>1. Same /\ Place /\ (BeforeResolve' <=> BeforeResolve)
      BY <1>1 DEF Same, Place, linkerVars, indexVars, IndexRead, BeforeResolve
    <2> QED
      BY <1>s, <2>1
  <1>2. CASE OpenInput \/ EndInputs
    <2>1. /\ phase = "read" /\ (phase' = "read" \/ (phase' = "libs" /\ next' = 1)) /\ Same
      BY <1>2 DEF OpenInput, EndInputs, In, indexVars, Same
    <2>2. Place
      BY <2>1, <1>p DEF Place, IndexRead
    <2> QED
      BY <1>s, <2>1, <2>2 DEF BeforeResolve
  <1>3. CASE library_read_header
    <2>1. /\ phase = "libs" /\ phase' = "index" /\ entry' = 1 /\ next' = next /\ Same
      BY <1>3, <1>c DEF library_read_header, In, Same, SeriousThen, SeriousErrors
    <2>2. Place
      BY <2>1, <1>p DEF Place, IndexRead
    <2> QED
      BY <1>s, <2>1, <2>2 DEF BeforeResolve
  <1>4. CASE MalformedIndex
    BY <1>4, <1>c DEF MalformedIndex, ThrowIndex, SeriousThen, SeriousErrors
  <1>5. CASE library_check_index_entry
    BY <1>5, <1>c, IndexMerged
  <1>6. CASE EndIndex
    <2>1. /\ phase = "index" /\ phase' = "libs" /\ next' = next + 1 /\ Same
          /\ entry > Len(args.libs[next].index)
      BY <1>6 DEF EndIndex, In, indexVars, Same
    <2>2. Place
      <3> SUFFICES ASSUME NEW p \in Places
                   PROVE  p[1] < next + 1 <=> p[1] < next \/ (p[1] = next /\ p[2] < entry)
        BY <2>1 DEF Place, IndexRead
      <3> QED
        BY <1>0, <1>p, <2>1
    <2> QED
      BY <1>s, <2>1, <2>2 DEF BeforeResolve
  <1>7. CASE EndLibraries
    <2>1. phase = "libs" /\ phase' = "suppress" /\ next > Len(args.libs) /\ Same
      BY <1>7 DEF EndLibraries, In, indexVars, Same
    <2>2. Place
      <3> SUFFICES ASSUME NEW p \in Places PROVE p[1] < next
        BY <2>1 DEF Place, IndexRead
      <3> QED
        BY <1>0, <1>p, <2>1
    <2> QED
      BY <1>s, <2>1, <2>2 DEF BeforeResolve
  <1>8. CASE linker_suppress
    BY <1>8, <1>c, IndexSuppressed
  <1>9. CASE StartPass \/ TakeName \/ EndShape \/ LeaveName \/ LoadCapsule \/ lib_capsule_loaded
             \/ EndPass \/ (\E s \in Shapes : VisitShape(s))
    <2>1. /\ UNCHANGED indexVars
          /\ phase \notin {"read", "libs", "index", "suppress"}
          /\ phase' \notin {"read", "libs", "index", "suppress"}
      BY <1>9 DEF StartPass, TakeName, EndShape, LeaveName, LoadCapsule, lib_capsule_loaded, EndPass,
                  VisitShape, In
    <2>2. Same /\ Place
      BY <2>1 DEF Same, Place, IndexRead, indexVars
    <2> QED
      BY <1>s, <2>1, <2>2 DEF BeforeResolve
  <1>10. CASE shape_entry_hide_all_defd \/ linker_hide \/ EndHide \/ linker_keep \/ EndKeep
              \/ linker_write_capsule
    <2>1. /\ UNCHANGED indexVars
          /\ phase \notin {"read", "libs", "index", "suppress"}
          /\ phase' \notin {"read", "libs", "index", "suppress"}
      BY <1>10 DEF shape_entry_hide_all_defd, linker_hide, EndHide, linker_keep, EndKeep,
                  linker_write_capsule, In
    <2>2. Same /\ Place
      BY <2>1 DEF Same, Place, IndexRead, indexVars
    <2> QED
      BY <1>s, <2>1, <2>2 DEF BeforeResolve
  <1> QED
    BY <1>1, <1>2, <1>3, <1>4, <1>5, <1>6, <1>7, <1>8, <1>9, <1>10
    DEF LinkerNext, LinkerStep, Terminated, vars

LEMMA InitIndexWhole == LinkerInit => IndexWhole
  <1> SUFFICES ASSUME LinkerInit PROVE IndexWhole
    OBVIOUS
  <1>1. phase = "read" /\ \A n \in Names : luse[n] = {} /\ ldef[n] = NULL
    BY DEF LinkerInit
  <1>2. \A p : ~IndexRead(p)
    BY <1>1 DEF IndexRead
  <1>3. \A n, b : Given(n, b) = {}
    BY <1>2 DEF Given
  <1> HIDE DEF IndexRead, Given
  <1> QED
    BY <1>1, <1>2, <1>3 DEF IndexWhole, FoundSoFar, BeforeResolve

-----------------------------------------------------------------------------
\* Some complete capsule uses the name and none defines it, and the libraries can
\* do better than a multiple definition if there is one.
Lacking(n) ==
  /\ \E c \in complete : n \in With(c, "USED")
  /\ \A c \in complete : n \notin With(c, "DEFD")
  /\ (\E c \in complete : n \in With(c, "MULT")) => UniqueIn(n)

\* A name is passed over because a capsule mentions it without using it, a capsule
\* of a library is read because a name that is used lacks a definition, and the
\* input files are read in order.
SkippedMentioned ==
  Clean => \A n \in skipped : \E c \in complete : Mentions(c, n) /\ n \notin With(c, "USED")

LoadWanted ==
  Clean /\ pc \in Stages /\ phase = "load" => cap = ldef[name] /\ Lacking(name)

InputOrder ==
  Clean /\ pc \in Stages /\ phase = "read" =>
     \E j \in DOMAIN args.inputs : next = j + 1 /\ cap = args.inputs[j]

CauseInv == SkippedMentioned /\ LoadWanted /\ InputOrder

LEMMA WithSame ==
  ASSUME UNCHANGED <<file, indirect>>
  PROVE  /\ \A c, b : With(c, b)' = With(c, b)
         /\ \A c, n : Mentions(c, n)' = Mentions(c, n)
  BY DEF With, Says, Informs, Mentions

\* Between two capsules, the usages of a name are those of the complete capsules.
LEMMA IdleUses ==
  ASSUME Typed, UsesRead, Clean, pc = "idle", NEW n \in Names, NEW b \in Bits
  PROVE  b \in use[n] <=> \E c \in complete : n \in With(c, b)
  <1>1. b \in use[n] <=> \E c \in Capsules : \E j \in DOMAIN file[c].externs :
                            Says(c, j, n, b) /\ Heard(c, j)
    BY DEF UsesRead
  <1>2. complete \subseteq Capsules /\ \A c, j : Heard(c, j) <=> c \in complete
    BY DEF Heard, Typed, CapsuleTypeOK, ControlTypeOK
  <1> HIDE DEF Says, Heard
  <1> QED
    BY <1>1, <1>2 DEF With

\* A name that is needed, and that only a unique definition will do for if it has
\* multiple ones, is one that lacks a definition (name-entry.c:379).
LEMMA NeededLacks ==
  ASSUME Typed, UsesRead, IndexWhole, Clean, pc = "idle", ~BeforeResolve, NEW n \in Names
  PROVE  /\ Needed(n) /\ ("MULT" \in use[n] => "DEFD" \in luse[n]) <=> Lacking(n)
         /\ ldef[n] = IF Suppressed(n) THEN NULL ELSE IndexDefinition(n)
         /\ IndexDefinition(n) # NULL => n \in ldirect
  <1>1. \A p : IndexRead(p)
    BY DEF IndexRead, BeforeResolve
  <1>2. \A b : Given(n, b) = Giving(n, b)
    BY <1>1 DEF Given
  <1>3. /\ "DEFD" \in luse[n] <=> Giving(n, "DEFD") # {}
        /\ \A p \in Places : indirect[Indexed(p).name] = n => n \in ldirect
        /\ ldef[n] = IF Suppressed(n) THEN NULL ELSE IndexDefinition(n)
    BY <1>1, <1>2 DEF IndexWhole
  <1>4. IndexDefinition(n) # NULL => Giving(n, "DEFD") # {} \/ Giving(n, "MULT") # {}
    <2> HIDE DEF Giving, Indexed
    <2> QED
      BY DEF IndexDefinition
  <1>5. IndexDefinition(n) # NULL => n \in ldirect
    BY <1>3, <1>4 DEF Giving
  <1>6. \A b \in {"USED", "DEFD", "MULT"} : b \in use[n] <=> \E c \in complete : n \in With(c, b)
    BY IdleUses
  <1> HIDE DEF With, Giving
  <1> QED
    BY <1>3, <1>5, <1>6 DEF Needed, Lacking, UniqueIn

\* What the steps do that these invariants are about.
LEMMA CauseSteps ==
  ASSUME LinkerInv, [LinkerNext]_vars
  PROVE  \/ LeaveName \/ LoadCapsule \/ OpenInput
         \/ ReadStep /\ UNCHANGED linkerVars
         \/ UNCHANGED <<skipped, complete>> /\ pc' \notin Stages
         \/ UNCHANGED vars
  <1>1. CASE EndInputs \/ EndIndex \/ EndLibraries \/ StartPass \/ EndShape \/ lib_capsule_loaded
             \/ EndPass
    BY <1>1 DEF EndInputs, EndIndex, EndLibraries, StartPass, EndShape, lib_capsule_loaded, EndPass,
                In, Quiet, capsuleVars, passVars
  <1>2. CASE library_read_header
    BY <1>2 DEF library_read_header, In, Quiet, capsuleVars, passVars, SeriousThen, SeriousErrors,
                readerVars, capsule_set_major_version
  <1>3. CASE MalformedIndex \/ library_check_index_entry
    BY <1>3 DEF MalformedIndex, library_check_index_entry, ThrowIndex, In, passVars, SeriousThen,
                SeriousErrors, readerVars
  <1>4. CASE linker_suppress \/ (\E s \in Shapes : VisitShape(s)) \/ TakeName
    BY <1>4 DEF linker_suppress, VisitShape, TakeName, shape_entry_get_from_list, In, Quiet,
                capsuleVars, passVars, readerVars
  <1>5. CASE shape_entry_hide_all_defd \/ EndHide \/ EndKeep \/ linker_write_capsule
    BY <1>5 DEF shape_entry_hide_all_defd, EndHide, EndKeep, linker_write_capsule, In, Quiet,
                capsuleVars, passVars, readerVars
  <1>6. CASE linker_hide \/ linker_keep
    BY <1>6 DEF linker_hide, linker_keep, Report, SeriousThen, SeriousErrors, readerVars, passVars
  <1>7. CASE Terminated
    BY <1>7 DEF Terminated
  <1> QED
    BY <1>1, <1>2, <1>3, <1>4, <1>5, <1>6, <1>7 DEF LinkerNext, LinkerStep

\* A capsule goes on being read, or is complete, or something went wrong.
LEMMA ReadStepGoesOn ==
  ASSUME Typed, ReadStep, Clean'
  PROVE  /\ UNCHANGED cap
         /\ \/ capsule_read_end /\ complete' = complete \cup {cap} /\ pc' = "idle"
            \/ pc' \in Stages /\ UNCHANGED complete
  <1>r. ReaderStep
    BY DEF ReaderStep
  <1>t. ~Throw
    BY <1>r, ErrorsGrow DEF Clean
  <1>1. CASE capsule_read_end
    BY <1>1 DEF capsule_read_end
  <1>2. CASE EndStage
    BY <1>2 DEF EndStage, NextStage
  <1>3. CASE capsule_read_usage
    BY <1>t, <1>3 DEF capsule_read_usage, Advance, SeriousErrors, Clean
  <1>4. CASE capsule_read_external_names
    BY <1>t, <1>4 DEF capsule_read_external_names, Advance, Clean, AtItem, At
  <1>5. CASE Malformed \/ capsule_read_header \/ capsule_read_unit_set_names \/ capsule_read_shapes
    BY <1>t, <1>5 DEF Malformed, capsule_read_header, capsule_read_unit_set_names,
                      capsule_read_shapes, Advance, SeriousErrors, Clean, AtItem, At
  <1>6. CASE unit_entry_add_unit \/ capsule_read_unit_maps \/ unit_set_contents
    BY <1>t, <1>6 DEF unit_entry_add_unit, capsule_read_unit_maps, unit_set_contents, Advance,
                      Clean, AtItem, At
  <1> QED
    BY <1>1, <1>2, <1>3, <1>4, <1>5, <1>6 DEF ReadStep

\* Capsules are read for a reason (linker.c:91, name-entry.c:372-413).
LEMMA NextCause ==
  ASSUME LinkerInv, UsesRead, NamesRead, IndexWhole, CauseInv, [LinkerNext]_vars
  PROVE  CauseInv'
  <1> SUFFICES ASSUME Clean' PROVE CauseInv'
    BY DEF CauseInv, SkippedMentioned, LoadWanted, InputOrder
  <1>0. Typed /\ LinkerTypeOK /\ args \in Args
    BY DEF LinkerInv, ReaderInv, LinkerTypeOK
  <1>r. ReaderStep
    BY <1>0, LinkerSteps
  <1>c. Clean /\ UNCHANGED <<args, file, indirect>>
    BY <1>0, <1>r, StillClean, StageSteps, InputSteps
  <1>w. /\ \A c, b : With(c, b)' = With(c, b)
        /\ \A c, n : Mentions(c, n)' = Mentions(c, n)
        /\ \A n : UniqueIn(n)' = UniqueIn(n)
    BY <1>c, WithSame, GivenFixed
  <1> HIDE DEF With, Mentions, UniqueIn
  <1>k. ASSUME skipped' = skipped, complete \subseteq complete' PROVE SkippedMentioned'
    BY <1>c, <1>w, <1>k DEF CauseInv, SkippedMentioned
  <1>1. CASE LeaveName
    <2>1. /\ UNCHANGED <<complete, pc>> /\ pc = "idle" /\ phase = "name"
          /\ skipped' = IF {"DEFD", "USED"} \cap use[name] = {} THEN skipped \cup {name} ELSE skipped
      BY <1>1 DEF LeaveName, In, Quiet, capsuleVars
    <2>2. CASE skipped' = skipped
      BY <1>k, <2>1, <2>2 DEF CauseInv, LoadWanted, InputOrder
    <2>3. CASE "USED" \notin use[name] /\ skipped' = skipped \cup {name}
      <3>1. name \in direct /\ name \in Names
        BY <1>0, <2>1 DEF LinkerTypeOK, PassTypeOK, Typed, CapsuleTypeOK, TablesTypeOK
      <3>2. PICK c \in complete : Mentions(c, name)
        BY <1>c, <2>1, <3>1 DEF NamesRead
      <3>3. name \notin With(c, "USED")
        <4>1. "USED" \in use[name] <=> \E d \in complete : name \in With(d, "USED")
          BY <1>0, <1>c, <2>1, <3>1, IdleUses
        <4> QED
          BY <2>3, <4>1
      <3>4. ASSUME NEW n \in skipped'
            PROVE  \E d \in complete : Mentions(d, n) /\ n \notin With(d, "USED")
        <4>1. CASE n = name
          BY <3>2, <3>3, <4>1
        <4>2. CASE n \in skipped
          BY <1>c, <4>2 DEF CauseInv, SkippedMentioned
        <4> QED
          BY <2>3, <3>4, <4>1, <4>2
      <3>5. SkippedMentioned'
        BY <1>w, <2>1, <3>4 DEF SkippedMentioned
      <3> QED
        BY <2>1, <3>5 DEF CauseInv, LoadWanted, InputOrder
    <2> QED
      BY <2>1, <2>2, <2>3
  <1>2. CASE LoadCapsule
    <2>1. /\ UNCHANGED <<complete, skipped, name, ldef>> /\ pc = "idle" /\ phase = "name"
          /\ phase' = "load" /\ cap' = ldef[name]
          /\ Needed(name) /\ Supplied(name)
      BY <1>2 DEF LoadCapsule, In, Open, passVars, indexVars
    <2>2. name \in Names /\ ~BeforeResolve
      BY <1>0, <2>1 DEF LinkerTypeOK, PassTypeOK, Typed, CapsuleTypeOK, TablesTypeOK, BeforeResolve
    <2>3. Lacking(name)
      BY <1>0, <1>c, <2>1, <2>2, NeededLacks DEF Supplied
    <2>4. Lacking(name)'
      BY <1>w, <2>1, <2>3 DEF Lacking
    <2> HIDE DEF Lacking
    <2> QED
      BY <1>k, <2>1, <2>4 DEF CauseInv, LoadWanted, InputOrder
  <1>3. CASE OpenInput
    <2>1. /\ phase = "read" /\ phase' = "read" /\ UNCHANGED <<skipped, complete>>
          /\ next' = next + 1 /\ next <= Len(args.inputs)
          /\ pc' \notin Stages \/ cap' = args.inputs[next]
      BY <1>3 DEF OpenInput, In, Open, passVars, readerVars, SeriousThen, SeriousErrors
    <2>2. next \in DOMAIN args.inputs
      <3>1. args.inputs \in Seq(Capsules) /\ next \in Nat \ {0}
        BY <1>0, ArgTyped DEF LinkerTypeOK
      <3> QED
        BY <2>1, <3>1
    <2> QED
      BY <1>c, <1>k, <2>1, <2>2 DEF CauseInv, LoadWanted, InputOrder
  <1>4. CASE ReadStep /\ UNCHANGED linkerVars
    <2>1. /\ UNCHANGED <<skipped, phase, name, ldef, next>> /\ pc \in Stages /\ UNCHANGED cap
          /\ complete \subseteq complete'
          /\ pc' \in Stages => UNCHANGED complete
      BY <1>0, <1>4, ReadStepReads, ReadStepGoesOn DEF linkerVars, passVars, indexVars
    <2>2. LoadWanted'
      BY <1>c, <1>w, <2>1 DEF CauseInv, LoadWanted, Lacking
    <2>3. InputOrder'
      BY <1>c, <2>1 DEF CauseInv, InputOrder
    <2> QED
      BY <1>k, <2>1, <2>2, <2>3 DEF CauseInv
  <1>5. CASE UNCHANGED <<skipped, complete>> /\ pc' \notin Stages
    BY <1>k, <1>5 DEF CauseInv, LoadWanted, InputOrder
  <1>6. CASE UNCHANGED vars
    <2>1. UNCHANGED <<skipped, complete, pc, errors, cap, phase, name, ldef, next>>
      BY <1>6 DEF vars, capsuleVars, linkerVars, passVars, indexVars
    <2> QED
      BY <1>c, <1>k, <1>w, <2>1 DEF CauseInv, LoadWanted, InputOrder, Lacking
  <1> QED
    BY <1>1, <1>2, <1>3, <1>4, <1>5, <1>6, CauseSteps

LEMMA InitCause == LinkerInit => CauseInv
  BY DEF LinkerInit, CapsuleInit, CauseInv, SkippedMentioned, LoadWanted, InputOrder

-----------------------------------------------------------------------------
RefineInv ==
  /\ LinkerInv /\ LoadInv /\ InputInv /\ ResolveInv
  /\ StageInv /\ UsesRead /\ NamesRead /\ IndexWhole /\ CauseInv

LEMMA NextRefine == RefineInv /\ [LinkerNext]_vars => RefineInv'
  <1> SUFFICES ASSUME RefineInv, [LinkerNext]_vars PROVE RefineInv'
    OBVIOUS
  <1>0. /\ LinkerInv /\ LoadInv /\ InputInv /\ ResolveInv
        /\ StageInv /\ UsesRead /\ NamesRead /\ IndexWhole /\ CauseInv
    BY DEF RefineInv
  <1>1. Typed /\ ReaderStep
    BY <1>0, LinkerSteps DEF LinkerInv, ReaderInv
  <1>2. LinkerInv' /\ LoadInv' /\ InputInv' /\ ResolveInv'
    BY <1>0, NextLinker, NextLoads, NextInputs, NextResolve
  <1>3. StageInv' /\ UsesRead' /\ NamesRead'
    BY <1>0, <1>1, NextStages, NextUsesRead, NextNames
  <1>4. IndexWhole' /\ CauseInv'
    BY <1>0, NextIndexWhole, NextCause
  <1> QED
    BY <1>2, <1>3, <1>4 DEF RefineInv

LEMMA InitRefine == LinkerInit => RefineInv
  <1>1. LinkerInit => CapsuleInit
    BY DEF LinkerInit
  <1> QED
    BY <1>1, InitLinker, InitLoads, InitInputs, InitResolve, InitRead, InitIndexWhole, InitCause
    DEF RefineInv

\* What Linkage is given does not change.
LEMMA LinkageGiven ==
  ASSUME UNCHANGED <<args, file, indirect>>
  PROVE  UNCHANGED Abstract!given
  <1>1. /\ \A c, b : With(c, b)' = With(c, b)
        /\ \A c, n : Mentions(c, n)' = Mentions(c, n)
        /\ \A n : UniqueIn(n)' = UniqueIn(n) /\ IndexDefinition(n)' = IndexDefinition(n)
        /\ \A n : Suppressed(n)' = Suppressed(n)
    BY WithSame, GivenFixed
  <1> HIDE DEF With, Mentions, UniqueIn, IndexDefinition, Suppressed
  <1> QED
    BY <1>1 DEF Abstract!given

\* Linkage in the words of the linker.
LEMMA LinkageWords ==
  ASSUME complete \subseteq Capsules, NEW n \in Names
  PROVE  /\ Abstract!Wanted(n) <=> Lacking(n)
         /\ Abstract!Available(n) <=> /\ ~Suppressed(n) /\ IndexDefinition(n) # NULL
                                      /\ IndexDefinition(n) \notin complete
  <1> HIDE DEF With, UniqueIn, IndexDefinition, Suppressed
  <1> QED
    BY DEF Abstract!Wanted, Abstract!Available, Lacking

\* The input files that are complete when all have been read, without an error.
LEMMA InputsComplete ==
  ASSUME RefineInv, Clean, phase # "read"
  PROVE  \A j \in DOMAIN args.inputs : args.inputs[j] \in complete \/ (pc \in Stages /\ args.inputs[j] = cap)
  BY DEF RefineInv, LinkerInv, ReaderInv, CleanInv, AllRead, InputInv, InputCaps, Clean

\* A capsule of a library is no input file.
LEMMA LibraryNoInput ==
  ASSUME LinkerTypeOK, NEW n \in Names, ldef[n] # NULL
  PROVE  \A j \in DOMAIN args.inputs : args.inputs[j] # ldef[n]
  <1>1. args \in Args /\ ldef[n] \in LibCaps(args)
    BY DEF LinkerTypeOK, IndexTypeOK
  <1> QED
    BY <1>1, ArgTyped DEF InputCaps

\* An input file that has been read is the next one that Linkage links.
LEMMA InputLinked ==
  ASSUME RefineInv, Clean, capsule_read_end, phase = "read", UNCHANGED <<args, file, indirect, phase>>
  PROVE  Abstract!Next
  <1>0. /\ pc = "eof" /\ complete' = complete \cup {cap} /\ cap \notin complete
        /\ args \in Args /\ InputInv /\ InputOrder /\ AllRead
    BY DEF capsule_read_end, At, RefineInv, StageInv, LinkerInv, LinkerTypeOK, CauseInv, ReaderInv,
           CleanInv
  <1>1. PICK j \in DOMAIN args.inputs : next = j + 1 /\ cap = args.inputs[j]
    BY <1>0 DEF InputOrder
  <1>2. args.inputs \in Seq(Capsules)
    BY <1>0, ArgTyped
  <1>3. ASSUME NEW k \in 1 .. j - 1 PROVE args.inputs[k] \in complete
    <2>1. k \in DOMAIN args.inputs /\ k < next /\ k # j
      BY <1>1, <1>2
    <2>2. args.inputs[k] \in opened
      BY <1>0, <2>1 DEF InputInv, Clean
    <2>3. args.inputs[k] # cap
      BY <1>0, <1>1, <2>1, LinkerAssumption
    <2> QED
      BY <1>0, <2>2, <2>3 DEF AllRead
  <1>4. UNCHANGED AfterResolve
    BY DEF AfterResolve
  <1>5. Abstract!LinkInput(j)
    BY <1>0, <1>1, <1>3, <1>4, LinkageGiven DEF Abstract!LinkInput
  <1> QED
    BY <1>1, <1>5 DEF Abstract!Next

\* A capsule of a library that has been read is one that Linkage may link.
LEMMA LibraryLinked ==
  ASSUME RefineInv, Clean, capsule_read_end, phase = "load", UNCHANGED <<args, file, indirect, phase>>
  PROVE  Abstract!Next
  <1>0. /\ pc = "eof" /\ complete' = complete \cup {cap} /\ cap \notin complete
        /\ Typed /\ LinkerTypeOK /\ LoadWanted /\ IndexWhole
    BY DEF capsule_read_end, At, RefineInv, StageInv, LinkerInv, CauseInv, ReaderInv
  <1>1. /\ name \in Names /\ complete \subseteq Capsules /\ cap \in Capsules /\ cap # NULL
    BY <1>0, CurrentContent, CapsuleAssumption
    DEF LinkerTypeOK, PassTypeOK, Typed, CapsuleTypeOK, TablesTypeOK, ControlTypeOK
  <1>2. cap = ldef[name] /\ Lacking(name)
    BY <1>0 DEF LoadWanted
  <1>3. ldef[name] = IF Suppressed(name) THEN NULL ELSE IndexDefinition(name)
    BY <1>0, <1>1 DEF IndexWhole, BeforeResolve
  <1>4. Abstract!Wanted(name) /\ Abstract!Available(name)
    BY <1>0, <1>1, <1>2, <1>3, LinkageWords
  <1>5. \A j \in DOMAIN args.inputs : args.inputs[j] \in complete
    BY <1>0, <1>1, <1>2, InputsComplete, LibraryNoInput
  <1>6. Abstract!InputsLinked
    BY <1>5 DEF Abstract!InputsLinked
  <1>7. AfterResolve = FALSE /\ UNCHANGED AfterResolve
    BY DEF AfterResolve
  <1> HIDE DEF Suppressed, IndexDefinition
  <1>8. Abstract!LinkLibrary(name)
    BY <1>0, <1>1, <1>2, <1>3, <1>4, <1>6, <1>7, LinkageGiven DEF Abstract!LinkLibrary
  <1> QED
    BY <1>1, <1>8 DEF Abstract!Next

\* The search of the libraries ends when Linkage may finish.
LEMMA SearchFinished ==
  ASSUME RefineInv, errors = 0, EndPass, ~did_define, UNCHANGED <<args, file, indirect>>
  PROVE  Abstract!Next
  <1>0. /\ pc = "idle" /\ phase = "pass" /\ phase' = "hide_all" /\ UNCHANGED complete
        /\ known \subseteq visited /\ Clean
    BY DEF EndPass, In, Quiet, capsuleVars, Clean
  <1>1. /\ Typed /\ LinkerTypeOK /\ UsesRead /\ IndexWhole /\ ResolveInv /\ LoadInv /\ CauseInv
        /\ AgreeInv /\ ShapeInv /\ AllRead
        /\ complete \subseteq Capsules /\ direct \subseteq Names /\ ~BeforeResolve
    BY <1>0 DEF RefineInv, LinkerInv, ReaderInv, CleanInv, Typed, CapsuleTypeOK,
           ControlTypeOK, TablesTypeOK, BeforeResolve
  <1>2. ASSUME NEW n \in direct PROVE Settled(n)
    <2>1. ShapeOf[n] \in visited
      BY <1>0, <1>1 DEF ShapeInv, NamesShaped, ResolveInv
    <2>2. list[ShapeOf[n]] = <<>>
      BY <1>0, <1>1, <2>1 DEF ResolveInv, Done
    <2>3. ~Waiting(n)
      BY <2>2 DEF Waiting
    <2> QED
      BY <1>0, <1>1, <2>3 DEF ResolveInv
  <1>3. ASSUME NEW n \in Names, Abstract!Wanted(n), Abstract!Available(n)
        PROVE  \E c \in complete : Mentions(c, n) /\ n \notin With(c, "USED")
    <2>1. /\ Lacking(n) /\ ~Suppressed(n) /\ IndexDefinition(n) # NULL
          /\ IndexDefinition(n) \notin complete
      BY <1>1, <1>3, LinkageWords
    <2>2. /\ Needed(n) /\ ("MULT" \in use[n] => "DEFD" \in luse[n])
          /\ ldef[n] = IndexDefinition(n) /\ n \in ldirect
      BY <1>0, <1>1, <2>1, NeededLacks
    <2>3. loaded \subseteq complete
      BY <1>0, <1>1 DEF LoadInv, AllRead
    <2>4. Supplied(n)
      BY <2>1, <2>2, <2>3 DEF Supplied
    <2>5. n \in direct
      <3>1. PICK c \in complete : n \in With(c, "USED")
        BY <2>1 DEF Lacking
      <3>2. PICK j \in DOMAIN file[c].externs : indirect[file[c].externs[j].name] = n
        BY <3>1 DEF With, Says
      <3> QED
        BY <1>1, <3>2 DEF AgreeInv, Agrees
    <2>6. n \in skipped
      BY <1>2, <2>2, <2>4, <2>5 DEF Settled, Needed
    <2> QED
      BY <1>0, <1>1, <2>6 DEF CauseInv, SkippedMentioned
  <1>4. \A j \in DOMAIN args.inputs : args.inputs[j] \in complete
    BY <1>0, InputsComplete
  <1>5. AfterResolve = FALSE /\ AfterResolve' = TRUE
    BY <1>0 DEF AfterResolve
  <1>6. Abstract!InputsLinked
    BY <1>4 DEF Abstract!InputsLinked
  <1> HIDE DEF Mentions, With
  <1>7. Abstract!Finish
    BY <1>0, <1>1, <1>3, <1>5, <1>6, LinkageGiven DEF Abstract!Finish
  <1> QED
    BY <1>7 DEF Abstract!Next

\* Where capsules become complete, and where the search ends.
LEMMA LinkSteps ==
  ASSUME [LinkerNext]_vars
  PROVE  \/ capsule_read_end /\ UNCHANGED phase
         \/ EndPass /\ ~did_define
         \/ UNCHANGED <<complete, AfterResolve>>
  <1> USE DEF AfterResolve
  <1>1. CASE ReadStep /\ UNCHANGED linkerVars
    <2>1. UNCHANGED phase
      BY <1>1 DEF linkerVars
    <2>2. capsule_read_end \/ UNCHANGED complete
      BY <1>1 DEF ReadStep, Malformed, capsule_read_header, capsule_read_unit_set_names,
         capsule_read_shapes, capsule_read_external_names, capsule_read_usage, unit_entry_add_unit,
         capsule_read_unit_maps, unit_set_contents, EndStage, Throw, Advance
    <2> QED
      BY <2>1, <2>2
  <1>2. CASE OpenInput \/ EndInputs \/ EndIndex \/ EndLibraries \/ linker_suppress
    BY <1>2 DEF OpenInput, EndInputs, EndIndex, EndLibraries, linker_suppress, In, Open, Quiet,
                capsuleVars, readerVars
  <1>3. CASE library_read_header
    <2>1. phase = "libs" /\ phase' \in {"libs", "index"} /\ UNCHANGED complete
      BY <1>3 DEF library_read_header, In, Quiet, capsuleVars, readerVars, capsule_set_major_version
    <2> QED
      BY <2>1
  <1>4. CASE MalformedIndex \/ library_check_index_entry
    <2>1. phase = "index" /\ phase' \in {"libs", "index"} /\ UNCHANGED complete
      BY <1>4 DEF MalformedIndex, library_check_index_entry, ThrowIndex, In, readerVars
    <2> QED
      BY <2>1
  <1>5. CASE StartPass \/ TakeName \/ EndShape \/ LeaveName \/ LoadCapsule \/ lib_capsule_loaded
             \/ (\E s \in Shapes : VisitShape(s)) \/ (EndPass /\ did_define)
    BY <1>5 DEF StartPass, TakeName, EndShape, LeaveName, LoadCapsule, lib_capsule_loaded,
                VisitShape, EndPass, In, Open, Quiet, capsuleVars, shape_entry_get_from_list
  <1>6. CASE shape_entry_hide_all_defd \/ linker_hide \/ EndHide \/ linker_keep \/ EndKeep
             \/ linker_write_capsule
    <2>1. AfterResolve /\ AfterResolve' /\ UNCHANGED complete
      BY <1>6 DEF shape_entry_hide_all_defd, linker_hide, EndHide, linker_keep, EndKeep,
                  linker_write_capsule, In, Quiet, capsuleVars, readerVars
    <2> QED
      BY <2>1
  <1>7. CASE Terminated \/ UNCHANGED vars
    BY <1>7 DEF Terminated, vars, capsuleVars, linkerVars
  <1> QED
    BY <1>1, <1>2, <1>3, <1>4, <1>5, <1>6, <1>7 DEF LinkerNext, LinkerStep

\* Every step of the linker, as long as there is no error before the search of the
\* libraries is over, is a step of Linkage or none.
LEMMA StepLinks ==
  ASSUME RefineInv, [LinkerNext]_vars, errors = 0 \/ AfterResolve
  PROVE  [Abstract!Next]_(Abstract!vars)
  <1>1. Typed /\ ReaderStep /\ (pc \in Stages => phase \in {"read", "load"})
    BY LinkerSteps DEF RefineInv, LinkerInv, ReaderInv, LinkerTypeOK
  <1>2. UNCHANGED <<args, file, indirect>>
    BY <1>1, StageSteps, InputSteps
  <1>3. CASE capsule_read_end /\ UNCHANGED phase
    <2>1. pc \in Stages /\ phase \in {"read", "load"}
      BY <1>1, <1>3 DEF capsule_read_end, At
    <2>2. Clean
      BY <2>1 DEF Clean, AfterResolve
    <2> QED
      BY <1>2, <1>3, <2>1, <2>2, InputLinked, LibraryLinked
  <1>4. CASE EndPass /\ ~did_define
    <2>1. errors = 0
      BY <1>4 DEF EndPass, In, AfterResolve
    <2> QED
      BY <1>2, <1>4, <2>1, SearchFinished
  <1>5. CASE UNCHANGED <<complete, AfterResolve>>
    BY <1>2, <1>5, LinkageGiven DEF Abstract!vars
  <1> QED
    BY <1>3, <1>4, <1>5, LinkSteps

\* As long as no error is reported, whatever the linker does is what the user
\* guide says that a link does: the input files in order, then capsules of
\* libraries, each because some capsule uses a name that none defines and the
\* index leads from that name to it, until no name is left that only ever
\* occurred where it is used or defined (linker.c, name-entry.c:372-413).
THEOREM CleanStepsLink ==
  LinkerSpec => [][errors = 0 => [Abstract!Next]_(Abstract!vars)]_vars
  <1>1. RefineInv /\ [LinkerNext]_vars => [errors = 0 => [Abstract!Next]_(Abstract!vars)]_vars
    BY StepLinks
  <1> QED
    BY <1>1, InitRefine, NextRefine, PTL DEF LinkerSpec

\* A link that reports no error before its search of the libraries is over
\* implements Linkage, whatever it reports about the names to hide and to keep
\* (linker.c, linker_main).
THEOREM CleanLinkImplementsLinkage ==
  LinkerSpec /\ [](errors = 0 \/ AfterResolve) => ImplementsLinkage
  <1>1. LinkerInit => Abstract!Init
    BY DEF LinkerInit, CapsuleInit, AfterResolve, Abstract!Init
  <1>2. RefineInv /\ [LinkerNext]_vars /\ (errors = 0 \/ AfterResolve) => [Abstract!Next]_(Abstract!vars)
    BY StepLinks
  <1> QED
    BY <1>1, <1>2, InitRefine, NextRefine, PTL DEF LinkerSpec, ImplementsLinkage, Abstract!Spec
=============================================================================
