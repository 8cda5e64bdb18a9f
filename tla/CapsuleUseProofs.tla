-------------------------- MODULE CapsuleUseProofs --------------------------
(***************************************************************************)
(* Proofs about the usages and definitions of external names, and about    *)
(* the version numbers of capsules.                                        *)
(***************************************************************************)
EXTENDS CapsuleIdProofs, WellFoundedInduction

USE DEF Stages, Bits, LocalIds

\* A usage that was read, and the capsule it came from.
Usage == [cap : Capsules, use : SUBSET Bits]

Unique(q) == {j \in DOMAIN q : "DEFD" \in q[j].use}
Multiple(q) == {j \in DOMAIN q : "MULT" \in q[j].use}
AllUses(q) == UNION {q[j].use : j \in DOMAIN q}
First(S) == CHOOSE j \in S : \A k \in S : j <= k

\* A set of positions that is not empty has a first element.
LEMMA FirstExists ==
  ASSUME NEW S \in SUBSET Nat, S # {}
  PROVE  First(S) \in S /\ \A k \in S : First(S) <= k
  <1>1. S \subseteq Nat /\ S # {}
    OBVIOUS
  <1>2. PICK x \in S : \A y \in S : <<y, x>> \notin OpToRel(<, Nat)
    BY <1>1, WFMin, NatLessThanWellFounded, Zenon
  <1>3. \A y \in S : ~(y < x)
    BY <1>1, <1>2, Zenon DEF OpToRel
  <1>4. \A y \in S : x <= y
    BY <1>1, <1>3
  <1> QED
    BY <1>4 DEF First

\* The choice of the first element depends on nothing else.
LEMMA SameFirst ==
  ASSUME NEW S, NEW T,
         \A j : (j \in S /\ \A k \in S : j <= k) <=> (j \in T /\ \A k \in T : j <= k)
  PROVE  First(S) = First(T)
  BY Zenon DEF First

LEMMA Chosen ==
  ASSUME NEW q
  PROVE  /\ Unique(q) # {} => ChosenDefinition(q) = q[First(Unique(q))].cap
         /\ Unique(q) = {} => \A j : Multiple(q) = {j} => ChosenDefinition(q) = q[j].cap
         /\ Unique(q) = {} /\ (\A j : Multiple(q) # {j}) => ChosenDefinition(q) = NULL
  BY DEF ChosenDefinition, Unique, Multiple, First

\* Merging one more usage changes the definition as capsule_read_usage does
\* (capsule.c:585).
LEMMA ChosenAppend ==
  ASSUME NEW q \in Seq(Usage), NEW r \in Usage
  PROVE  /\ ChosenDefinition(Append(q, r)) =
              NewDefinition(ChosenDefinition(q), AllUses(q), r.use, r.cap)
         /\ AllUses(Append(q, r)) = AllUses(q) \cup r.use
  <1> DEFINE p == Append(q, r)
             l == Len(q) + 1
  <1>1. /\ DOMAIN q = 1 .. Len(q) /\ Len(q) \in Nat /\ DOMAIN p = 1 .. l /\ p[l] = r
        /\ \A j \in 1 .. Len(q) : p[j] = q[j]
    OBVIOUS
  <1>2. Unique(p) = Unique(q) \cup (IF "DEFD" \in r.use THEN {l} ELSE {})
    BY <1>1 DEF Unique
  <1>3. Multiple(p) = Multiple(q) \cup (IF "MULT" \in r.use THEN {l} ELSE {})
    BY <1>1 DEF Multiple
  <1>4. Unique(q) \subseteq 1 .. Len(q) /\ Multiple(q) \subseteq 1 .. Len(q)
    BY <1>1 DEF Unique, Multiple
  <1>5. "DEFD" \in AllUses(q) <=> Unique(q) # {}
    BY DEF AllUses, Unique
  <1>6. "MULT" \in AllUses(q) <=> Multiple(q) # {}
    BY DEF AllUses, Multiple
  <1>7. AllUses(p) = AllUses(q) \cup r.use
    BY <1>1 DEF AllUses
  <1>8. CASE Unique(q) # {}
    <2>1. First(Unique(p)) = First(Unique(q))
      <3>1. \A j : (j \in Unique(p) /\ \A k \in Unique(p) : j <= k) <=>
                   (j \in Unique(q) /\ \A k \in Unique(q) : j <= k)
        BY <1>1, <1>2, <1>4, <1>8
      <3> QED
        BY <3>1, SameFirst
    <2>2. First(Unique(q)) \in 1 .. Len(q)
      BY <1>1, <1>4, <1>8, FirstExists
    <2>3. ChosenDefinition(p) = q[First(Unique(q))].cap
      BY <1>1, <1>2, <1>8, <2>1, <2>2, Chosen
    <2>4. NewDefinition(ChosenDefinition(q), AllUses(q), r.use, r.cap) = ChosenDefinition(q)
      BY <1>5, <1>8 DEF NewDefinition
    <2> QED
      BY <1>7, <1>8, <2>3, <2>4, Chosen
  <1>9. CASE Unique(q) = {} /\ "DEFD" \in r.use
    <2>1. Unique(p) = {l} /\ l \in Nat
      BY <1>1, <1>2, <1>9
    <2>2. First(Unique(p)) = l
      BY <2>1, FirstExists
    <2>3. ChosenDefinition(p) = r.cap
      BY <1>1, <2>1, <2>2, Chosen
    <2>4. NewDefinition(ChosenDefinition(q), AllUses(q), r.use, r.cap) = r.cap
      BY <1>5, <1>9 DEF NewDefinition
    <2> QED
      BY <1>7, <2>3, <2>4
  <1>10. CASE Unique(q) = {} /\ "DEFD" \notin r.use
    <2>1. Unique(p) = {} /\ "DEFD" \notin AllUses(q) \cup r.use
      BY <1>2, <1>5, <1>10
    <2>2. CASE "MULT" \notin r.use
      <3>1. Multiple(p) = Multiple(q)
        BY <1>3, <2>2
      <3>2. NewDefinition(ChosenDefinition(q), AllUses(q), r.use, r.cap) = ChosenDefinition(q)
        BY <2>1, <2>2 DEF NewDefinition
      <3>3. CASE \E j : Multiple(q) = {j}
        <4>1. PICK j : Multiple(q) = {j}
          BY <3>3
        <4>2. j \in 1 .. Len(q)
          BY <1>4, <4>1
        <4>3. ChosenDefinition(p) = p[j].cap /\ ChosenDefinition(q) = q[j].cap
          BY <1>10, <2>1, <3>1, <4>1, Chosen
        <4> QED
          BY <1>1, <1>7, <3>2, <4>2, <4>3
      <3>4. CASE \A j : Multiple(q) # {j}
        <4>1. ChosenDefinition(p) = NULL /\ ChosenDefinition(q) = NULL
          BY <1>10, <2>1, <3>1, <3>4, Chosen
        <4> QED
          BY <1>7, <3>2, <4>1
      <3> QED
        BY <3>3, <3>4
    <2>3. CASE "MULT" \in r.use /\ Multiple(q) = {}
      <3>1. Multiple(p) = {l}
        BY <1>3, <2>3
      <3>2. ChosenDefinition(p) = p[l].cap
        BY <2>1, <3>1, Chosen
      <3>3. NewDefinition(ChosenDefinition(q), AllUses(q), r.use, r.cap) = r.cap
        BY <1>6, <2>1, <2>3 DEF NewDefinition
      <3> QED
        BY <1>1, <1>7, <3>2, <3>3
    <2>4. CASE "MULT" \in r.use /\ Multiple(q) # {}
      <3>1. Multiple(p) = Multiple(q) \cup {l} /\ l \notin Multiple(q)
        BY <1>1, <1>3, <1>4, <2>4
      <3>2. \A j : Multiple(p) # {j}
        BY <2>4, <3>1, Zenon
      <3>3. ChosenDefinition(p) = NULL
        BY <2>1, <3>2, Chosen
      <3>4. NewDefinition(ChosenDefinition(q), AllUses(q), r.use, r.cap) = NULL
        BY <1>6, <2>1, <2>4 DEF NewDefinition
      <3> QED
        BY <1>7, <3>3, <3>4
    <2> QED
      BY <2>2, <2>3, <2>4
  <1> QED
    BY <1>8, <1>9, <1>10
-----------------------------------------------------------------------------
UseInv == DefinitionIsChosen /\ DefdHasDefinition /\ LegalUses

\* Only capsule_read_usage changes usages and definitions.
LEMMA OnlyUsage == ReaderStep => capsule_read_usage \/ UNCHANGED usageVars
  <1> SUFFICES ASSUME ReaderStep, ~capsule_read_usage PROVE UNCHANGED usageVars
    OBVIOUS
  <1>1. ASSUME NEW c \in Capsules, Open(c) PROVE UNCHANGED usageVars
    BY <1>1 DEF Open
  <1>2. CASE Malformed \/ capsule_read_header \/ capsule_read_unit_set_names \/ capsule_read_shapes
    BY <1>2 DEF Malformed, capsule_read_header, capsule_read_unit_set_names, capsule_read_shapes
  <1>3. CASE capsule_read_external_names \/ EndStage \/ capsule_read_end
    BY <1>3 DEF capsule_read_external_names, EndStage, capsule_read_end
  <1>4. CASE unit_entry_add_unit \/ capsule_read_unit_maps \/ unit_set_contents
    BY <1>4 DEF unit_entry_add_unit, capsule_read_unit_maps, unit_set_contents
  <1>5. ASSUME NEW s \in Shapes, shape_entry_get_from_list(s) PROVE UNCHANGED usageVars
    BY <1>5 DEF shape_entry_get_from_list
  <1>6. CASE CallerStep \/ UNCHANGED capsuleVars
    BY <1>6 DEF CallerStep, capsuleVars, usageVars
  <1> QED
    BY <1>1, <1>2, <1>3, <1>4, <1>5, <1>6 DEF ReaderStep, ReadStep

\* What a usage step does: nothing, or a legal usage is merged into one name.
LEMMA UsageStep ==
  ASSUME Typed, capsule_read_usage, ~UNCHANGED usageVars
  PROVE  \E n \in Names \cup {NULL}, r \in Usage :
            /\ n \in Names => ~IllegalUse(r.use, ShapeOf[n] = Tag, ShapeOf[n] = Token)
            /\ def' = [def EXCEPT ![n] = NewDefinition(@, use[n], r.use, r.cap)]
            /\ use' = [use EXCEPT ![n] = @ \cup r.use]
            /\ merged' = [merged EXCEPT ![n] = Append(@, r)]
  <1> DEFINE e == C.externs[item]
             n == indirect[e.name]
             r == [cap |-> cap, use |-> e.use]
  <1>1. pc \in {"usage", "token", "tag"} /\ AtItem(pc)
    BY DEF capsule_read_usage
  <1>2. cap \in Capsules
    BY <1>1, CurrentContent
  <1>3. n \in Names \cup {NULL} /\ (n # NULL => ShapeOf[n] = ShapeOf[e.name])
    BY <1>1, CurrentExtern
  <1>4. /\ ~IllegalUse(e.use, ShapeOf[e.name] = Tag, ShapeOf[e.name] = Token)
        /\ def' = [def EXCEPT ![n] = NewDefinition(@, use[n], e.use, cap)]
        /\ use' = [use EXCEPT ![n] = @ \cup e.use]
        /\ merged' = [merged EXCEPT ![n] = Append(@, r)]
    BY DEF capsule_read_usage
  <1>5. r \in Usage /\ r.use = e.use /\ r.cap = cap
    BY <1>2, <1>4 DEF Usage, IllegalUse
  <1>6. n \in Names => ~IllegalUse(r.use, ShapeOf[n] = Tag, ShapeOf[n] = Token)
    BY <1>3, <1>4, <1>5, CapsuleAssumption
  <1> HIDE DEF n, r
  <1> QED
    BY <1>3, <1>4, <1>5, <1>6

\* Merging a legal usage keeps the three parts of the invariant (capsule.c:543).
LEMMA NextUses ==
  ASSUME Typed, UseInv, ReaderStep
  PROVE  UseInv'
  <1>1. CASE UNCHANGED usageVars
    BY <1>1 DEF UseInv, usageVars, DefinitionIsChosen, DefdHasDefinition, LegalUses
  <1>2. CASE capsule_read_usage /\ ~UNCHANGED usageVars
    <2>1. PICK n \in Names \cup {NULL}, r \in Usage :
            /\ n \in Names => ~IllegalUse(r.use, ShapeOf[n] = Tag, ShapeOf[n] = Token)
            /\ def' = [def EXCEPT ![n] = NewDefinition(@, use[n], r.use, r.cap)]
            /\ use' = [use EXCEPT ![n] = @ \cup r.use]
            /\ merged' = [merged EXCEPT ![n] = Append(@, r)]
      BY <1>2, UsageStep
    <2>2. UsagesTypeOK
      BY DEF Typed, CapsuleTypeOK
    <2>3. ASSUME NEW m \in Names, m # n
          PROVE  def'[m] = def[m] /\ use'[m] = use[m] /\ merged'[m] = merged[m]
      BY <2>1, <2>2, <2>3 DEF UsagesTypeOK
    <2>4. ASSUME n \in Names
          PROVE  /\ def'[n] = NewDefinition(def[n], use[n], r.use, r.cap)
                 /\ use'[n] = use[n] \cup r.use /\ merged'[n] = Append(merged[n], r)
      BY <2>1, <2>2, <2>4 DEF UsagesTypeOK
    <2>5. ASSUME NEW m \in Names
          PROVE  /\ def[m] = ChosenDefinition(merged[m]) /\ use[m] = AllUses(merged[m])
                 /\ merged[m] \in Seq(Usage) /\ use[m] \in SUBSET Bits
                 /\ "DEFD" \in use[m] => def[m] # NULL
                 /\ ~IllegalUse(use[m], ShapeOf[m] = Tag, ShapeOf[m] = Token)
      BY <2>2 DEF UseInv, DefinitionIsChosen, DefdHasDefinition, LegalUses, IllegalUse, AllUses,
                  UsagesTypeOK, Usage
    <2>6. r.cap # NULL /\ r.use \in SUBSET Bits
      BY CapsuleAssumption DEF Usage
    <2>7. DefinitionIsChosen'
      <3> SUFFICES ASSUME NEW m \in Names
                   PROVE  def'[m] = ChosenDefinition(merged'[m]) /\ use'[m] = AllUses(merged'[m])
        BY DEF DefinitionIsChosen, AllUses
      <3>1. CASE m = n
        BY <2>4, <2>5, <3>1, ChosenAppend
      <3>2. CASE m # n
        BY <2>3, <2>5, <3>2
      <3> QED
        BY <3>1, <3>2
    <2>8. DefdHasDefinition'
      <3> SUFFICES ASSUME NEW m \in Names, "DEFD" \in use'[m] PROVE def'[m] # NULL
        BY DEF DefdHasDefinition
      <3>1. CASE m = n
        BY <2>4, <2>5, <2>6, <3>1 DEF NewDefinition
      <3>2. CASE m # n
        BY <2>3, <2>5, <3>2
      <3> QED
        BY <3>1, <3>2
    <2>9. LegalUses'
      <3> SUFFICES ASSUME NEW m \in Names
                   PROVE  ~IllegalUse(use'[m], ShapeOf[m] = Tag, ShapeOf[m] = Token)
        BY DEF LegalUses, IllegalUse
      <3>1. CASE m = n
        BY <2>1, <2>4, <2>5, <3>1 DEF IllegalUse
      <3>2. CASE m # n
        BY <2>3, <2>5, <3>2
      <3> QED
        BY <3>1, <3>2
    <2> QED
      BY <2>7, <2>8, <2>9 DEF UseInv
  <1> QED
    BY <1>1, <1>2, OnlyUsage

LEMMA InitUses == CapsuleInit => UseInv
  <1> SUFFICES ASSUME CapsuleInit PROVE UseInv
    OBVIOUS
  <1>1. \A n \in Names : use[n] = {} /\ def[n] = NULL /\ merged[n] = <<>>
    BY DEF CapsuleInit
  <1>2. ChosenDefinition(<<>>) = NULL
    <2>1. Unique(<<>>) = {} /\ \A j : Multiple(<<>>) # {j}
      BY DEF Unique, Multiple
    <2> QED
      BY <2>1, Chosen
  <1>3. UNION {<<>>[j].use : j \in DOMAIN <<>>} = {}
    OBVIOUS
  <1> QED
    BY <1>1, <1>2, <1>3 DEF UseInv, DefinitionIsChosen, DefdHasDefinition, LegalUses

\* The invariant about usages holds in every reachable state.
THEOREM UseInvariant == CapsuleSpec => [](Typed /\ UseInv)
  <1>1. CapsuleInit => Typed /\ UseInv
    BY InitTyped, InitUses
  <1>2. Typed /\ UseInv /\ [CapsuleNext]_capsuleVars => (Typed /\ UseInv)'
    BY ReaderSteps, NextTyped, NextUses
  <1> QED
    BY <1>1, <1>2, PTL DEF CapsuleSpec

\* The definition of every name is the first unique one that was read, else the
\* only multiple one, else none (capsule.c:585).
THEOREM DefinitionIsChosenInvariant == CapsuleSpec => []DefinitionIsChosen
  <1>1. Typed /\ UseInv => DefinitionIsChosen
    BY DEF UseInv
  <1> QED
    BY <1>1, UseInvariant, PTL

\* A name that counts as defined has a defining capsule (capsule.c:586).
THEOREM DefdHasDefinitionInvariant == CapsuleSpec => []DefdHasDefinition
  <1>1. Typed /\ UseInv => DefdHasDefinition
    BY DEF UseInv
  <1> QED
    BY <1>1, UseInvariant, PTL

\* The merged usage of a name is as legal as each usage that was read
\* (capsule.c:568-577).
THEOREM LegalUsesInvariant == CapsuleSpec => []LegalUses
  <1>1. Typed /\ UseInv => LegalUses
    BY DEF UseInv
  <1> QED
    BY <1>1, UseInvariant, PTL

-----------------------------------------------------------------------------
\* What holds of a capsule that is past its header, and stays so.
Passed(c) == file[c].major = major /\ major >= 4 /\ file[c].minor <= minor

VersionInv ==
  /\ pc \in Stages \ {"header"} => Passed(cap)
  /\ \A c \in complete : Passed(c)

\* A step that leaves the versions alone, and gets past no header, keeps it.
LEMMA SameVersions ==
  ASSUME VersionInv, UNCHANGED <<file, versionVars, complete>>,
         pc' \in Stages \ {"header"} => pc \in Stages \ {"header"} /\ cap' = cap
  PROVE  VersionInv'
  BY DEF VersionInv, Passed, versionVars

LEMMA NextVersions ==
  ASSUME Typed, VersionInv, ReaderStep
  PROVE  VersionInv'
  <1> USE DEF fixedVars
  <1>0. ASSUME Throw PROVE pc' \notin Stages /\ UNCHANGED complete
    BY <1>0 DEF Throw, SeriousThen, SeriousErrors
  <1>1. ASSUME NEW c \in Capsules, Open(c) PROVE VersionInv'
    BY <1>1, SameVersions DEF Open
  <1>2. CASE Malformed
    BY <1>0, <1>2, SameVersions DEF Malformed
  <1>3. CASE capsule_read_header
    <2>1. CASE BadVersion(C.major)
      BY <1>0, <1>3, <2>1, SameVersions DEF capsule_read_header
    <2>2. CASE ~BadVersion(C.major)
      <3>1. C.major \in Nat /\ C.minor \in Nat /\ major \in Nat /\ minor \in Nat
        BY <1>3, CurrentContent DEF capsule_read_header, At, Typed, CapsuleTypeOK
      <3>2. C.major >= 4 /\ (major = 0 \/ major = C.major)
        BY <3>1, <2>2 DEF BadVersion
      <3>3. /\ major' = C.major
            /\ minor' = IF major = 0 \/ minor < C.minor THEN C.minor ELSE minor
            /\ UNCHANGED <<file, cap, complete>>
        BY <1>3, <2>2 DEF capsule_read_header
      <3>4. Passed(cap)'
        BY <3>1, <3>2, <3>3 DEF Passed, C
      <3>5. ASSUME NEW c \in complete PROVE Passed(c)'
        <4>1. c \in Capsules /\ file[c].minor \in Nat
          BY CapsuleAssumption DEF Typed, CapsuleTypeOK, ControlTypeOK, Content
        <4>2. Passed(c)
          BY <3>5 DEF VersionInv
        <4>3. major = C.major /\ major # 0
          BY <3>1, <3>2, <4>2 DEF Passed
        <4> QED
          BY <3>1, <3>3, <4>1, <4>2, <4>3 DEF Passed
      <3> QED
        BY <3>3, <3>4, <3>5 DEF VersionInv
    <2> QED
      BY <2>1, <2>2
  <1>4. CASE capsule_read_unit_set_names
    BY <1>4, SameVersions DEF capsule_read_unit_set_names, At
  <1>5. CASE capsule_read_shapes
    BY <1>0, <1>5, SameVersions DEF capsule_read_shapes, Advance
  <1>6. CASE capsule_read_external_names
    BY <1>0, <1>6, SameVersions DEF capsule_read_external_names, Advance
  <1>7. CASE capsule_read_usage
    BY <1>0, <1>7, SameVersions DEF capsule_read_usage, Advance
  <1>8. CASE unit_entry_add_unit \/ unit_set_contents
    BY <1>8, SameVersions DEF unit_entry_add_unit, unit_set_contents, Advance
  <1>9. CASE capsule_read_unit_maps
    BY <1>0, <1>9, SameVersions DEF capsule_read_unit_maps, Advance
  <1>10. CASE EndStage
    BY <1>10, SameVersions DEF EndStage
  <1>11. CASE capsule_read_end
    BY <1>11 DEF capsule_read_end, At, VersionInv, Passed, versionVars
  <1>12. ASSUME NEW s \in Shapes, shape_entry_get_from_list(s) PROVE VersionInv'
    BY <1>12, SameVersions DEF shape_entry_get_from_list
  <1>13. CASE CallerStep
    <2>1. CASE major' = major
      BY <1>13, <2>1, SameVersions DEF CallerStep, versionVars
    <2>2. CASE major = 0
      <3>1. complete = {}
        BY <2>2 DEF VersionInv, Passed
      <3> QED
        BY <1>13, <3>1 DEF CallerStep, VersionInv
    <2> QED
      BY <1>13, <2>1, <2>2 DEF CallerStep
  <1>14. CASE UNCHANGED capsuleVars
    BY <1>14, SameVersions DEF capsuleVars, versionVars
  <1> QED
    BY <1>1, <1>2, <1>3, <1>4, <1>5, <1>6, <1>7, <1>8, <1>9, <1>10, <1>11, <1>12, <1>13,
       <1>14 DEF ReaderStep, ReadStep

\* Every capsule that was read to the end has the major version that will be
\* written and no larger minor version (capsule.c:276).
THEOREM VersionsAgreeInvariant == CapsuleSpec => []VersionsAgree
  <1>1. CapsuleInit => Typed /\ VersionInv
    BY InitTyped DEF CapsuleInit, VersionInv
  <1>2. Typed /\ VersionInv /\ [CapsuleNext]_capsuleVars => (Typed /\ VersionInv)'
    BY ReaderSteps, NextTyped, NextVersions
  <1>3. VersionInv => VersionsAgree
    BY DEF VersionInv, Passed, VersionsAgree
  <1> QED
    BY <1>1, <1>2, <1>3, PTL DEF CapsuleSpec

-----------------------------------------------------------------------------
\* Usages are only added, and a unique definition stays (capsule.c:560-598).
LEMMA UsesGrow ==
  ASSUME Typed, ReaderStep, NEW n \in Names
  PROVE  use[n] \subseteq use'[n] /\ ("DEFD" \in use[n] => def'[n] = def[n])
  <1>1. UsagesTypeOK
    BY DEF Typed, CapsuleTypeOK
  <1>2. CASE UNCHANGED usageVars
    BY <1>2 DEF usageVars
  <1>3. CASE capsule_read_usage /\ ~UNCHANGED usageVars
    <2>1. PICK m \in Names \cup {NULL}, r \in Usage :
            /\ def' = [def EXCEPT ![m] = NewDefinition(@, use[m], r.use, r.cap)]
            /\ use' = [use EXCEPT ![m] = @ \cup r.use]
      BY <1>3, UsageStep
    <2>2. CASE n = m
      <3>1. def'[n] = NewDefinition(def[n], use[n], r.use, r.cap) /\ use'[n] = use[n] \cup r.use
        BY <1>1, <2>1, <2>2 DEF UsagesTypeOK
      <3> QED
        BY <3>1 DEF NewDefinition
    <2>3. CASE n # m
      BY <1>1, <2>1, <2>3 DEF UsagesTypeOK
    <2> QED
      BY <2>2, <2>3
  <1> QED
    BY <1>2, <1>3, OnlyUsage

\* Names keep their entry, identifier, usages and unique definition, whatever is
\* read later (capsule.c:585, name-entry.c:167).
THEOREM DefinitionIsFinalStep == CapsuleSpec => DefinitionIsFinal
  <1>1. Typed /\ [CapsuleNext]_capsuleVars =>
          [\A n \in direct :
             /\ n \in direct' /\ id'[n] = id[n] /\ use[n] \subseteq use'[n]
             /\ "DEFD" \in use[n] => def'[n] = def[n]]_capsuleVars
    <2>1. Typed => direct \subseteq Names
      BY DEF Typed, CapsuleTypeOK, TablesTypeOK
    <2> QED
      BY <2>1, UsesGrow, NamesKept, ReaderSteps
  <1>2. CapsuleInit => Typed
    BY InitTyped
  <1>3. Typed /\ [CapsuleNext]_capsuleVars => Typed'
    BY NextTyped, ReaderSteps
  <1> QED
    BY <1>1, <1>2, <1>3, PTL DEF CapsuleSpec, DefinitionIsFinal
-----------------------------------------------------------------------------
(***************************************************************************)
(* What holds as long as no error was counted: these are facts about the   *)
(* reader that the linker and the library builder rely on when they call   *)
(* their output good.                                                      *)
(***************************************************************************)
Clean == errors = 0 /\ pc \notin {"abort", "crash"}

\* Every capsule that was opened was read to the end, but for the current one.
AllRead == Clean => opened \ complete \subseteq (IF pc \in Stages THEN {cap} ELSE {})

\* The reader is inside a unit: the item before the current one is no body.
InUnit == pc = "units" /\ item > 1 /\ C.units[item - 1].op # "body"

\* Every unit is whole, but for the last one while the reader is inside it.
AllWhole ==
  /\ pc = "units" => item <= Len(C.units) + 1
  /\ Clean => \A j \in DOMAIN units : units[j].whole \/ (InUnit /\ j = Len(units))

\* No name has two unique definitions.
OneUnique ==
  errors = 0 => \A n \in Names : \A i, j \in DOMAIN merged[n] :
                   "DEFD" \in merged[n][i].use \cap merged[n][j].use => i = j

CleanInv == AllRead /\ AllWhole /\ OneUnique

\* Errors are never forgotten, and a throw is counted (error.c).
LEMMA ErrorsGrow ==
  ASSUME Typed, ReaderStep
  PROVE  /\ errors <= errors' /\ errors \in Nat /\ errors' \in Nat
         /\ Throw => errors' > 0 /\ pc' \in {"idle", "abort"}
  <1>0. errors \in Nat /\ errors' \in Nat
    BY NextTyped DEF Typed, CapsuleTypeOK, ControlTypeOK
  <1>2. Throw => errors' > 0 /\ errors <= errors' /\ pc' \in {"idle", "abort"}
    BY <1>0 DEF Throw, SeriousThen, SeriousErrors
  <1> SUFFICES errors <= errors'
    BY <1>0, <1>2
  <1>4. ASSUME NEW c \in Capsules, Open(c) PROVE errors' = errors
    BY <1>4 DEF Open
  <1>5. CASE Malformed \/ capsule_read_header \/ capsule_read_shapes
    BY <1>0, <1>2, <1>5 DEF Malformed, capsule_read_header, capsule_read_shapes, Advance
  <1>6. CASE capsule_read_unit_set_names
    BY <1>0, <1>6 DEF capsule_read_unit_set_names, SeriousErrors
  <1>7. CASE capsule_read_external_names
    BY <1>0, <1>2, <1>7 DEF capsule_read_external_names, Advance
  <1>8. CASE capsule_read_usage
    <2>1. Throw \/ Advance \/ SeriousErrors(0, pc) \/ SeriousErrors(1, pc)
      BY <1>8 DEF capsule_read_usage
    <2> QED
      BY <1>0, <1>2, <2>1 DEF Advance, SeriousErrors
  <1>9. CASE unit_entry_add_unit \/ capsule_read_unit_maps \/ unit_set_contents
    BY <1>0, <1>2, <1>9 DEF unit_entry_add_unit, capsule_read_unit_maps, unit_set_contents, Advance
  <1>10. CASE EndStage \/ capsule_read_end
    BY <1>0, <1>10 DEF EndStage, capsule_read_end
  <1>11. ASSUME NEW s \in Shapes, shape_entry_get_from_list(s) PROVE errors' = errors
    BY <1>11 DEF shape_entry_get_from_list
  <1>12. CASE CallerStep \/ UNCHANGED capsuleVars
    BY <1>0, <1>12 DEF CallerStep, capsuleVars
  <1> QED
    BY <1>0, <1>2, <1>4, <1>5, <1>6, <1>7, <1>8, <1>9, <1>10, <1>11, <1>12 DEF ReaderStep, ReadStep

\* A step that goes on with the capsule, or leaves the reader idle.
LEMMA AllReadSame ==
  ASSUME AllRead, errors' = 0 => errors = 0, UNCHANGED <<opened, cap, complete>>,
         \/ errors' > 0
         \/ pc' \in {"abort", "crash"}
         \/ pc \in Stages /\ pc' \in Stages
         \/ pc = "idle" /\ pc' = "idle"
  PROVE  AllRead'
  BY DEF AllRead, Clean

\* A capsule is abandoned only with an error (capsule.c, capsule_read).
LEMMA NextAllRead == Typed /\ AllRead /\ ReaderStep => AllRead'
  <1> SUFFICES ASSUME Typed, AllRead, ReaderStep PROVE AllRead'
    OBVIOUS
  <1>0. /\ errors <= errors' /\ errors \in Nat /\ errors' \in Nat
        /\ Throw => errors' > 0
    BY ErrorsGrow
  <1>a. errors' = 0 => errors = 0
    BY <1>0
  <1>1. ASSUME NEW c \in Capsules, Open(c) PROVE AllRead'
    BY <1>1 DEF Open, AllRead, Clean
  <1>2. CASE Malformed
    BY <1>0, <1>a, <1>2, AllReadSame DEF Malformed, Throw
  <1>3. CASE capsule_read_header
    BY <1>0, <1>a, <1>3, AllReadSame DEF capsule_read_header, Throw, At
  <1>4. CASE capsule_read_unit_set_names
    BY <1>a, <1>4, AllReadSame DEF capsule_read_unit_set_names, SeriousErrors, At
  <1>5. CASE capsule_read_shapes
    BY <1>0, <1>a, <1>5, AllReadSame DEF capsule_read_shapes, Advance, Throw, AtItem, At
  <1>6. CASE capsule_read_external_names
    BY <1>0, <1>a, <1>6, AllReadSame DEF capsule_read_external_names, Advance, Throw, AtItem, At
  <1>7. CASE capsule_read_usage
    BY <1>0, <1>a, <1>7, AllReadSame DEF capsule_read_usage, Advance, Throw, SeriousErrors
  <1>8. CASE unit_entry_add_unit \/ unit_set_contents \/ capsule_read_unit_maps
    BY <1>0, <1>a, <1>8, AllReadSame
    DEF unit_entry_add_unit, unit_set_contents, capsule_read_unit_maps, Advance, Throw, AtItem, At
  <1>9. CASE EndStage
    BY <1>a, <1>9, AllReadSame DEF EndStage, NextStage
  <1>10. CASE capsule_read_end
    BY <1>10 DEF capsule_read_end, At, AllRead, Clean
  <1>11. ASSUME NEW s \in Shapes, shape_entry_get_from_list(s) PROVE AllRead'
    BY <1>a, <1>11, AllReadSame DEF shape_entry_get_from_list
  <1>12. CASE CallerStep
    BY <1>a, <1>12, AllReadSame DEF CallerStep
  <1>13. CASE UNCHANGED capsuleVars
    BY <1>13 DEF capsuleVars, AllRead, Clean
  <1> QED
    BY <1>1, <1>2, <1>3, <1>4, <1>5, <1>6, <1>7, <1>8, <1>9, <1>10, <1>11, <1>12, <1>13
    DEF ReaderStep, ReadStep

\* A second unique definition is an error (capsule.c:586).
LEMMA NextOneUnique == Typed /\ UseInv /\ OneUnique /\ ReaderStep => OneUnique'
  <1> SUFFICES ASSUME Typed, UseInv, OneUnique, ReaderStep, errors' = 0 PROVE OneUnique'
    BY DEF OneUnique
  <1>0. errors = 0
    BY ErrorsGrow
  <1>1. CASE UNCHANGED usageVars
    BY <1>0, <1>1 DEF OneUnique, usageVars
  <1>2. CASE capsule_read_usage /\ ~UNCHANGED usageVars
    <2> DEFINE e == C.externs[item]
               n == indirect[e.name]
    <2>1. /\ SeriousErrors(IF "DEFD" \in e.use \cap use[n] THEN 1 ELSE 0, pc)
          /\ merged' = [merged EXCEPT ![n] = Append(@, [cap |-> cap, use |-> e.use])]
      BY <1>2 DEF capsule_read_usage
    <2>2. "DEFD" \notin e.use \cap use[n]
      BY <1>0, <2>1 DEF SeriousErrors
    <2> DEFINE r == [cap |-> cap, use |-> e.use]
    <2>3. r.use = e.use
      OBVIOUS
    <2> HIDE DEF e, n, r
    <2>4. merged \in [Names -> Seq([cap : Capsules, use : SUBSET Bits])]
      BY DEF Typed, CapsuleTypeOK, UsagesTypeOK
    <2>5. ASSUME NEW m \in Names, NEW i \in DOMAIN merged'[m], NEW j \in DOMAIN merged'[m],
                 "DEFD" \in merged'[m][i].use \cap merged'[m][j].use
          PROVE  i = j
      <3>1. CASE m # n
        BY <1>0, <2>1, <2>4, <2>5, <3>1 DEF OneUnique
      <3>2. CASE m = n
        <4>1. merged'[m] = Append(merged[m], r) /\ merged[m] \in Seq([cap : Capsules, use : SUBSET Bits])
          BY <2>1, <2>4, <3>2 DEF r
        <4>2. /\ DOMAIN merged'[m] = 1 .. Len(merged[m]) + 1 /\ Len(merged[m]) \in Nat
              /\ merged'[m][Len(merged[m]) + 1] = r /\ DOMAIN merged[m] = 1 .. Len(merged[m])
              /\ \A k \in 1 .. Len(merged[m]) : merged'[m][k] = merged[m][k]
          <5>1. /\ DOMAIN Append(merged[m], r) = 1 .. Len(merged[m]) + 1 /\ Len(merged[m]) \in Nat
                /\ Append(merged[m], r)[Len(merged[m]) + 1] = r
                /\ DOMAIN merged[m] = 1 .. Len(merged[m])
                /\ \A k \in 1 .. Len(merged[m]) : Append(merged[m], r)[k] = merged[m][k]
            BY <4>1
          <5> QED
            BY <4>1, <5>1
        <4>3. \A k \in 1 .. Len(merged[m]) : merged[m][k].use \subseteq use[m]
          BY <4>2 DEF UseInv, DefinitionIsChosen
        <4>4. \A k \in DOMAIN merged'[m] : k = Len(merged[m]) + 1 \/ k \in 1 .. Len(merged[m])
          BY <4>2
        <4>5. CASE i = Len(merged[m]) + 1 \/ j = Len(merged[m]) + 1
          <5>1. "DEFD" \in e.use
            BY <2>3, <2>5, <4>2, <4>5
          <5>2. \A k \in 1 .. Len(merged[m]) : "DEFD" \notin merged'[m][k].use
            BY <2>2, <3>2, <4>2, <4>3, <5>1
          <5> QED
            BY <2>5, <4>4, <4>5, <5>2
        <4>6. CASE i \in 1 .. Len(merged[m]) /\ j \in 1 .. Len(merged[m])
          BY <1>0, <2>5, <4>2, <4>6 DEF OneUnique
        <4> QED
          BY <4>4, <4>5, <4>6
      <3> QED
        BY <3>1, <3>2
    <2> QED
      BY <2>5 DEF OneUnique
  <1> QED
    BY <1>1, <1>2, OnlyUsage

\* Units are read one after another, each from its counts to its body: WellFormed
\* says so of the items of a capsule, and the reader goes through all of them.
LEMMA UnitOrder ==
  ASSUME Typed, AllWhole, pc = "units"
  PROVE  /\ C.units \in Seq(UnitItem) /\ item \in Nat \ {0}
         /\ item <= Len(C.units) /\ C.units[item].op = "unit" => ~InUnit
         /\ item <= Len(C.units) /\ C.units[item].op # "unit" => InUnit
         /\ item > Len(C.units) => ~InUnit
  <1>1. C.units \in Seq(UnitItem) /\ cap \in Capsules /\ item \in Nat \ {0}
    BY CurrentContent DEF Typed, CapsuleTypeOK, ControlTypeOK
  <1>2. WellFormed(C)
    BY <1>1, CapsuleAssumption DEF C, Typed, CapsuleTypeOK
  <1>3. /\ C.units # <<>> => C.units[1].op = "unit" /\ C.units[Len(C.units)].op = "body"
        /\ \A j \in 1 .. Len(C.units) - 1 : C.units[j].op = "body" <=> C.units[j + 1].op = "unit"
    BY <1>2 DEF WellFormed
  <1>4. item <= Len(C.units) + 1
    BY DEF AllWhole
  <1>5. Len(C.units) \in Nat /\ (C.units = <<>> <=> Len(C.units) = 0)
    BY <1>1
  <1>6. CASE item = 1
    BY <1>1, <1>3, <1>5, <1>6 DEF InUnit
  <1>7. CASE item > 1 /\ item <= Len(C.units)
    <2>1. item - 1 \in 1 .. Len(C.units) - 1 /\ (item - 1) + 1 = item
      BY <1>1, <1>5, <1>7
    <2>2. C.units[item - 1].op = "body" <=> C.units[item].op = "unit"
      BY <1>3, <2>1
    <2> QED
      BY <1>1, <1>5, <1>7, <2>2 DEF InUnit
  <1>8. CASE item > 1 /\ item > Len(C.units)
    <2>1. item - 1 = Len(C.units) /\ C.units # <<>>
      BY <1>1, <1>4, <1>5, <1>8
    <2> QED
      BY <1>1, <1>3, <1>5, <1>8, <2>1 DEF InUnit
  <1> QED
    BY <1>1, <1>5, <1>6, <1>7, <1>8

\* A step that changes no unit and stays out of the units, or fails.
LEMMA AllWholeSame ==
  ASSUME AllWhole, errors' = 0 => errors = 0, UNCHANGED units,
         \/ errors' > 0 /\ pc' # "units"
         \/ pc' \in {"abort", "crash"}
         \/ pc \notin {"units", "abort", "crash"} /\ (pc' = "units" => item' = 1)
  PROVE  AllWhole'
  <1>1. pc' = "units" /\ pc # "units" /\ item' = 1 => item' <= Len(C'.units) + 1
    BY DEF AllWhole
  <1> QED
    BY <1>1 DEF AllWhole, Clean, InUnit

\* What a step on the units does to their being whole (unit-entry.c:57, 101).
LEMMA WholeStep ==
  ASSUME units \in Seq(UnitObject), NEW j \in DOMAIN units'
  PROVE  /\ \A v : units' = Append(units, v) => j = Len(units') \/ (j \in DOMAIN units /\ units'[j] = units[j])
         /\ \A l : units' = [units EXCEPT ![Len(units)].links = Append(@, l)] =>
              j \in DOMAIN units /\ units'[j].whole = units[j].whole /\ Len(units') = Len(units)
         /\ units' = [units EXCEPT ![Len(units)].whole = TRUE] =>
              /\ j \in DOMAIN units /\ Len(units') = Len(units)
              /\ units'[j].whole = (j = Len(units) \/ units[j].whole)
  <1>1. ASSUME NEW v, units' = Append(units, v)
        PROVE  j = Len(units') \/ (j \in DOMAIN units /\ units'[j] = units[j])
    BY <1>1
  <1>2. ASSUME NEW l, units' = [units EXCEPT ![Len(units)].links = Append(@, l)]
        PROVE  j \in DOMAIN units /\ units'[j].whole = units[j].whole /\ Len(units') = Len(units)
    <2>1. j \in DOMAIN units /\ units[j] \in UnitObject /\ Len(units') = Len(units)
      BY <1>2
    <2>2. units'[j] = IF j = Len(units) THEN [units[j] EXCEPT !.links = Append(@, l)] ELSE units[j]
      BY <1>2, <2>1
    <2> QED
      BY <2>1, <2>2 DEF UnitObject
  <1>3. ASSUME units' = [units EXCEPT ![Len(units)].whole = TRUE]
        PROVE  /\ j \in DOMAIN units /\ Len(units') = Len(units)
               /\ units'[j].whole = (j = Len(units) \/ units[j].whole)
    <2>1. j \in DOMAIN units /\ units[j] \in UnitObject /\ Len(units') = Len(units)
      BY <1>3
    <2>2. units'[j] = IF j = Len(units) THEN [units[j] EXCEPT !.whole = TRUE] ELSE units[j]
      BY <1>3, <2>1
    <2>3. units[j].whole \in BOOLEAN
      BY <2>1 DEF UnitObject
    <2>4. CASE j = Len(units)
      BY <2>1, <2>2, <2>4 DEF UnitObject
    <2>5. CASE j # Len(units)
      BY <2>1, <2>2, <2>3, <2>5
    <2> QED
      BY <2>4, <2>5
  <1> QED
    BY <1>1, <1>2, <1>3

\* A unit that is left without its body is an error (capsule.c:787-870).
LEMMA NextAllWhole == Typed /\ AllWhole /\ ReaderStep => AllWhole'
  <1> SUFFICES ASSUME Typed, AllWhole, ReaderStep PROVE AllWhole'
    OBVIOUS
  <1>0. /\ errors <= errors' /\ errors \in Nat /\ errors' \in Nat
        /\ Throw => errors' > 0 /\ pc' \in {"idle", "abort"}
    BY ErrorsGrow
  <1>a. errors' = 0 => errors = 0
    BY <1>0
  <1>b. units \in Seq(UnitObject) /\ item \in Nat \ {0}
    BY DEF Typed, CapsuleTypeOK, UnitsTypeOK, ControlTypeOK
  <1>1. ASSUME NEW c \in Capsules, Open(c) PROVE AllWhole'
    BY <1>a, <1>1, AllWholeSame DEF Open
  <1>2. CASE Malformed
    BY <1>0, <1>a, <1>2, AllWholeSame DEF Malformed
  <1>3. CASE capsule_read_header
    BY <1>0, <1>a, <1>3, AllWholeSame DEF capsule_read_header, At
  <1>4. CASE capsule_read_unit_set_names
    BY <1>a, <1>4, AllWholeSame DEF capsule_read_unit_set_names, SeriousErrors, At
  <1>5. CASE capsule_read_shapes
    BY <1>0, <1>a, <1>5, AllWholeSame DEF capsule_read_shapes, Advance, AtItem, At
  <1>6. CASE capsule_read_external_names
    BY <1>0, <1>a, <1>6, AllWholeSame DEF capsule_read_external_names, Advance, AtItem, At
  <1>7. CASE capsule_read_usage
    BY <1>0, <1>a, <1>7, AllWholeSame DEF capsule_read_usage, Advance, SeriousErrors
  <1>8. CASE /\ unit_entry_add_unit \/ unit_set_contents \/ capsule_read_unit_maps
             /\ Advance
    <2>1. /\ pc = "units" /\ item <= Len(C.units) /\ pc' = "units" /\ item' = item + 1
          /\ errors' = errors /\ UNCHANGED <<file, cap>>
      BY <1>8 DEF unit_entry_add_unit, unit_set_contents, capsule_read_unit_maps, AtItem, At, Items,
                  Advance, fixedVars
    <2>2. C' = C /\ C.units \in Seq(UnitItem)
      BY <2>1, UnitOrder DEF C
    <2>3. item' <= Len(C'.units) + 1
      BY <1>b, <2>1, <2>2
    <2>4. InUnit' <=> C.units[item].op # "body"
      BY <1>b, <2>1, <2>2 DEF InUnit
    <2>5. C.units[item].op = "unit" => ~InUnit
      BY <2>1, UnitOrder
    <2>6. C.units[item].op # "unit" => InUnit
      BY <2>1, UnitOrder
    <2>7. Clean' <=> Clean
      BY <2>1 DEF Clean
    <2>8. ASSUME Clean, NEW j \in DOMAIN units'
          PROVE  units'[j].whole \/ (InUnit' /\ j = Len(units'))
      <3>1. \A i \in DOMAIN units : units[i].whole \/ (InUnit /\ i = Len(units))
        BY <2>8 DEF AllWhole
      <3>2. CASE unit_entry_add_unit
        <4>1. C.units[item].op = "unit" /\ \E v : units' = Append(units, v)
          BY <3>2 DEF unit_entry_add_unit
        <4>2. InUnit' /\ ~InUnit
          BY <2>4, <2>5, <4>1
        <4> QED
          BY <1>b, <3>1, <4>1, <4>2, WholeStep
      <3>3. CASE capsule_read_unit_maps
        <4>1. /\ C.units[item].op = "link"
              /\ \E l : units' = [units EXCEPT ![Len(units)].links = Append(@, l)]
          BY <1>0, <2>1, <3>3 DEF capsule_read_unit_maps
        <4>2. InUnit'
          BY <2>4, <4>1
        <4> QED
          BY <1>b, <3>1, <4>1, <4>2, WholeStep
      <3>4. CASE unit_set_contents
        <4>1. units' = [units EXCEPT ![Len(units)].whole = TRUE]
          BY <3>4 DEF unit_set_contents
        <4> QED
          BY <1>b, <3>1, <4>1, WholeStep
      <3> QED
        BY <1>8, <3>2, <3>3, <3>4
    <2> QED
      BY <2>3, <2>7, <2>8 DEF AllWhole
  <1>9. CASE /\ unit_entry_add_unit \/ unit_set_contents \/ capsule_read_unit_maps
             /\ ~Advance
    BY <1>0, <1>a, <1>9, AllWholeSame
    DEF unit_entry_add_unit, unit_set_contents, capsule_read_unit_maps
  <1>10. CASE EndStage
    <2>1. CASE pc = "units"
      <3>1. item > Len(C.units) /\ UNCHANGED <<errors, units>> /\ pc' = "eof"
        BY <1>10, <2>1 DEF EndStage, Items, NextStage
      <3>2. ~InUnit
        BY <2>1, <3>1, UnitOrder
      <3> QED
        BY <2>1, <3>1, <3>2 DEF AllWhole, Clean
    <2>2. CASE pc # "units"
      BY <1>a, <1>10, <2>2, AllWholeSame DEF EndStage
    <2> QED
      BY <2>1, <2>2
  <1>11. CASE capsule_read_end
    BY <1>a, <1>11, AllWholeSame DEF capsule_read_end, At
  <1>12. ASSUME NEW s \in Shapes, shape_entry_get_from_list(s) PROVE AllWhole'
    BY <1>a, <1>12, AllWholeSame DEF shape_entry_get_from_list
  <1>13. CASE CallerStep
    BY <1>a, <1>13, AllWholeSame DEF CallerStep
  <1>14. CASE UNCHANGED capsuleVars
    BY <1>14 DEF capsuleVars, AllWhole, Clean, InUnit, C
  <1> QED
    BY <1>1, <1>2, <1>3, <1>4, <1>5, <1>6, <1>7, <1>8, <1>9, <1>10, <1>11, <1>12, <1>13, <1>14
    DEF ReaderStep, ReadStep

LEMMA NextClean == Typed /\ UseInv /\ CleanInv /\ ReaderStep => CleanInv'
  BY NextAllRead, NextAllWhole, NextOneUnique DEF CleanInv

LEMMA InitClean == CapsuleInit => CleanInv
  <1> SUFFICES ASSUME CapsuleInit PROVE CleanInv
    OBVIOUS
  <1>1. AllRead /\ AllWhole
    BY DEF CapsuleInit, AllRead, AllWhole
  <1>2. \A n \in Names : DOMAIN merged[n] = {}
    BY DEF CapsuleInit
  <1>3. OneUnique
    BY <1>2 DEF OneUnique
  <1> QED
    BY <1>1, <1>3 DEF CleanInv

\* As long as no error was counted, nothing that was opened is missing from what
\* was read: no capsule, no body of a unit, and no definition was passed over.
THEOREM CleanInvariant == CapsuleSpec => [](Typed /\ UseInv /\ CleanInv)
  <1>1. CapsuleInit => Typed /\ UseInv /\ CleanInv
    BY InitTyped, InitUses, InitClean
  <1>2. Typed /\ UseInv /\ CleanInv /\ [CapsuleNext]_capsuleVars => (Typed /\ UseInv /\ CleanInv)'
    BY ReaderSteps, NextTyped, NextUses, NextClean
  <1> QED
    BY <1>1, <1>2, PTL DEF CapsuleSpec

=============================================================================
