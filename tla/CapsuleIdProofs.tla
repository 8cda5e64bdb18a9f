-------------------------- MODULE CapsuleIdProofs ---------------------------
(***************************************************************************)
(* Proofs about the identifiers that the capsule reader gives out.  The    *)
(* inductive invariant says where every mapped identifier comes from: it   *)
(* is that of an external name which the capsule binds to it, or it is     *)
(* private, shared with no name and with no other identifier.              *)
(***************************************************************************)
EXTENDS CapsuleProofs

USE DEF Stages, Bits, LocalIds

Locals == Capsules \X Shapes \X LocalIds

\* Identifiers that were given out are below the count of their shape.
MapsInRange == \A x \in Locals : idmap[x] # IdMax => idmap[x] < idcount[x[2]]

Bound(x) ==
  \E n \in direct : /\ id[n] = idmap[x] /\ ShapeOf[n] = x[2]
                    /\ Binds(x[1], x[2], x[3], n)

Private(x) ==
  /\ \A n \in direct : ShapeOf[n] = x[2] => id[n] # idmap[x]
  /\ \A y \in Locals : y # x /\ y[2] = x[2] => idmap[y] # idmap[x]

Origins == \A x \in Locals : idmap[x] # IdMax => Bound(x) \/ Private(x)

IdInv == IdsDistinct /\ MapsInRange /\ Origins /\ LinksInRange

idVars == <<file, indirect, direct, id, idcount, idmap, units>>

\* Only four steps change what the invariant is about.
IdStep ==
  \/ capsule_read_external_names
  \/ unit_entry_add_unit
  \/ capsule_read_unit_maps
  \/ unit_set_contents

-----------------------------------------------------------------------------
LEMMA OtherSteps == ReaderStep => IdStep \/ UNCHANGED idVars
  <1> SUFFICES ASSUME ReaderStep, ~IdStep PROVE UNCHANGED idVars
    OBVIOUS
  <1> USE DEF idVars, fixedVars, tableVars
  <1>1. ASSUME NEW c \in Capsules, Open(c) PROVE UNCHANGED idVars
    BY <1>1 DEF Open
  <1>2. CASE Malformed \/ capsule_read_header \/ capsule_read_unit_set_names \/ capsule_read_shapes
    BY <1>2 DEF Malformed, capsule_read_header, capsule_read_unit_set_names, capsule_read_shapes
  <1>3. CASE capsule_read_usage \/ EndStage \/ capsule_read_end
    BY <1>3 DEF capsule_read_usage, EndStage, capsule_read_end
  <1>4. ASSUME NEW s \in Shapes, shape_entry_get_from_list(s) PROVE UNCHANGED idVars
    BY <1>4 DEF shape_entry_get_from_list
  <1>5. CASE CallerStep \/ UNCHANGED capsuleVars
    BY <1>5 DEF CallerStep, capsuleVars
  <1> QED
    BY <1>1, <1>2, <1>3, <1>4, <1>5 DEF ReaderStep, ReadStep, IdStep

LEMMA UnchangedIds == IdInv /\ UNCHANGED idVars => IdInv'
  BY DEF IdInv, idVars, IdsDistinct, MapsInRange, Origins, Bound, Private, Binds, LinksInRange

\* Counts only grow when a name is added, and the name has an identifier of its
\* own (name-table.c:80).
LEMMA AddNameIds ==
  ASSUME TablesTypeOK, IdsDistinct, NEW n \in Names, ~NoIdLeft(n), AddName(n)
  PROVE  /\ IdsDistinct'
         /\ \A s \in Shapes : idcount[s] <= idcount'[s]
         /\ direct' = direct \cup {n}
         /\ \A m \in direct : id'[m] = id[m]
         /\ n \notin direct => id'[n] = idcount[ShapeOf[n]]
  <1> USE DEF TablesTypeOK
  <1>1. CASE n \in direct
    BY <1>1 DEF AddName, tableVars, IdsDistinct
  <1>2. CASE n \notin direct
    <2>1. ShapeOf[n] \in Shapes /\ idcount[ShapeOf[n]] \in Nat
      BY CapsuleAssumption
    <2>2. /\ direct' = direct \cup {n}
          /\ id' = [id EXCEPT ![n] = idcount[ShapeOf[n]]]
          /\ idcount' = [idcount EXCEPT ![ShapeOf[n]] = idcount[ShapeOf[n]] + 1]
      BY <1>2 DEF AddName
    <2>3. \A s \in Shapes : idcount[s] <= idcount'[s] /\ idcount[s] \in Nat /\ idcount'[s] \in Nat
      BY <2>1, <2>2, CapsuleAssumption
    <2>4. (\A m \in direct : id'[m] = id[m]) /\ id'[n] = idcount[ShapeOf[n]]
      BY <1>2, <2>2
    <2>5. idcount'[ShapeOf[n]] = idcount[ShapeOf[n]] + 1
      BY <2>1, <2>2
    <2>6. ASSUME NEW k \in direct' PROVE id'[k] < idcount'[ShapeOf[k]]
      <3>1. CASE k = n
        BY <3>1, <2>1, <2>4, <2>5
      <3>2. CASE k \in direct
        <4>1. ShapeOf[k] \in Shapes /\ id[k] < idcount[ShapeOf[k]] /\ id[k] \in Nat
          BY <3>2, CapsuleAssumption DEF IdsDistinct
        <4> QED
          BY <3>2, <4>1, <2>3, <2>4
      <3> QED
        BY <2>2, <3>1, <3>2
    <2>7. ASSUME NEW m \in direct', NEW k \in direct', m # k, ShapeOf[m] = ShapeOf[k]
          PROVE  id'[m] # id'[k]
      <3>1. ASSUME NEW j \in direct PROVE id[j] < idcount[ShapeOf[j]] /\ id[j] \in Nat
        BY CapsuleAssumption DEF IdsDistinct
      <3>2. CASE m \in direct /\ k \in direct
        BY <2>4, <2>7, <3>2 DEF IdsDistinct
      <3>3. CASE m = n \/ k = n
        BY <2>1, <2>2, <2>4, <2>7, <3>1, <3>3
      <3> QED
        BY <2>2, <3>2, <3>3
    <2>8. IdsDistinct'
      BY <2>6, <2>7 DEF IdsDistinct
    <2> QED
      BY <2>2, <2>3, <2>4, <2>8
  <1> QED
    BY <1>1, <1>2

\* Links stay in range while the counts grow and no link changes.
LEMMA LinksKept ==
  ASSUME TablesTypeOK, TablesTypeOK', UnitsTypeOK, LinksInRange, units' = units,
         \A s \in Shapes : idcount[s] <= idcount'[s]
  PROVE  LinksInRange'
  <1> SUFFICES ASSUME NEW j \in DOMAIN units, NEW k \in DOMAIN units[j].links
               PROVE  units[j].links[k].ext < idcount'[units[j].links[k].shape]
    BY DEF LinksInRange
  <1>1. units[j].links[k].ext < idcount[units[j].links[k].shape]
    BY DEF LinksInRange
  <1>2. units[j] \in UnitObject
    BY DEF UnitsTypeOK
  <1>3. units[j].links \in Seq(Link)
    BY <1>2 DEF UnitObject
  <1>4. units[j].links[k] \in Link
    BY <1>3
  <1>5. units[j].links[k].shape \in Shapes /\ units[j].links[k].ext \in Nat
    BY <1>4, CapsuleAssumption DEF Link
  <1> QED
    BY <1>1, <1>5, CapsuleAssumption DEF TablesTypeOK

-----------------------------------------------------------------------------
\* Adding a name, and binding an identifier of the current capsule to it, keeps
\* every private identifier private (capsule.c:472).
LEMMA ExternalNamesIds ==
  ASSUME Typed, Typed', IdInv, capsule_read_external_names
  PROVE  IdInv'
  <1> DEFINE e == C.externs[item]
             sh == ShapeOf[e.name]
             n == indirect[e.name]
             x0 == <<cap, sh, e.id>>
  <1>0. /\ TablesTypeOK /\ TablesTypeOK' /\ UnitsTypeOK /\ UnitsTypeOK'
        /\ IdsDistinct /\ MapsInRange /\ Origins /\ LinksInRange
    BY DEF Typed, CapsuleTypeOK, IdInv
  <1>1. /\ pc = "names" /\ cap \in Capsules /\ C.nids \in [Shapes -> 0 .. MaxLocal]
        /\ e.id \in Nat /\ sh \in Shapes /\ n \in Names \cup {NULL} /\ e.name \in Names
        /\ (n # NULL => ShapeOf[n] = sh)
    BY CurrentContent, CurrentExtern DEF capsule_read_external_names, AtItem, At
  <1>2. UNCHANGED <<file, indirect, units>>
    BY DEF capsule_read_external_names, fixedVars
  <1>3. CASE UNCHANGED <<tableVars, idmap>>
    BY <1>2, <1>3, UnchangedIds DEF idVars, tableVars
  <1>4. CASE /\ e.id < C.nids[sh] /\ n # NULL /\ ~NoIdLeft(n) /\ AddName(n)
             /\ IF idmap[x0] # IdMax THEN UNCHANGED idmap
                ELSE idmap' = [idmap EXCEPT ![x0] = id'[n]]
    <2>1. n \in Names /\ ShapeOf[n] = sh
      BY <1>1, <1>4
    <2>2. /\ IdsDistinct'
          /\ \A s \in Shapes : idcount[s] <= idcount'[s]
          /\ direct' = direct \cup {n}
          /\ \A m \in direct : id'[m] = id[m]
          /\ n \notin direct => id'[n] = idcount[sh]
      BY <1>0, <1>4, <2>1, AddNameIds
    <2>3. LinksInRange'
      BY <1>0, <1>2, <2>2, LinksKept
    <2>4. x0 \in Locals /\ x0[1] = cap /\ x0[2] = sh /\ x0[3] = e.id
      BY <1>1, <1>4, CapsuleAssumption DEF Locals
    <2>5. \A x \in Locals : x # x0 \/ idmap[x0] # IdMax => idmap'[x] = idmap[x]
      BY <1>0, <1>4 DEF UnitsTypeOK, Locals
    <2>6. idmap[x0] = IdMax => idmap'[x0] = id'[n]
      BY <1>0, <1>4, <2>4 DEF UnitsTypeOK, Locals
    <2>7. \A x \in Locals : x[2] \in Shapes /\ idmap[x] \in Nat /\ idcount[x[2]] \in Nat
                            /\ idcount'[x[2]] \in Nat
      BY <1>0, CapsuleAssumption DEF UnitsTypeOK, TablesTypeOK, Locals
    <2>8. id'[n] < idcount'[sh] /\ n \in direct'
      BY <2>1, <2>2 DEF IdsDistinct
    <2>9. MapsInRange'
      <3> SUFFICES ASSUME NEW x \in Locals, idmap'[x] # IdMax
                   PROVE  idmap'[x] < idcount'[x[2]]
        BY DEF MapsInRange
      <3>1. CASE x = x0 /\ idmap[x0] = IdMax
        BY <2>4, <2>6, <2>8, <3>1
      <3>2. CASE ~(x = x0 /\ idmap[x0] = IdMax)
        <4>1. idmap'[x] = idmap[x]
          BY <2>5, <3>2
        <4>2. idmap[x] < idcount[x[2]]
          BY <1>0, <4>1 DEF MapsInRange
        <4> QED
          BY <2>2, <2>7, <4>1, <4>2
      <3> QED
        BY <3>1, <3>2
    <2>10. \A c, s, l, m : Binds(c, s, l, m)' <=> Binds(c, s, l, m)
      BY <1>2 DEF Binds
    <2>11. item \in DOMAIN C.externs
      <3>1. C.externs \in Seq(Extern) /\ item \in Nat \ {0} /\ pc = "names"
        BY <1>1, CurrentContent DEF Typed, CapsuleTypeOK, ControlTypeOK
      <3>2. item <= Len(C.externs)
        BY <3>1 DEF capsule_read_external_names, AtItem, Items
      <3> QED
        BY <3>1, <3>2
    <2>12. Binds(cap, sh, e.id, n)
      BY <2>11 DEF Binds, C
    <2>13. ASSUME NEW x \in Locals, idmap[x] # IdMax, Private(x)
           PROVE  /\ id'[n] # idmap[x] \/ x[2] # sh
                  /\ \A m \in direct' : ShapeOf[m] = x[2] => id'[m] # idmap[x]
      <3>1. idmap[x] < idcount[x[2]]
        BY <1>0, <2>13 DEF MapsInRange
      <3>2. id'[n] # idmap[x] \/ x[2] # sh
        <4>1. CASE n \in direct
          BY <2>1, <2>2, <2>13, <4>1 DEF Private
        <4>2. CASE n \notin direct
          BY <2>2, <2>7, <3>1, <4>2
        <4> QED
          BY <4>1, <4>2
      <3>3. \A m \in direct : ShapeOf[m] = x[2] => id'[m] # idmap[x]
        BY <2>2, <2>13 DEF Private
      <3> QED
        BY <2>1, <2>2, <3>2, <3>3
    <2>14. Origins'
      <3> SUFFICES ASSUME NEW x \in Locals, idmap'[x] # IdMax
                   PROVE  Bound(x)' \/ Private(x)'
        BY DEF Origins
      <3>1. CASE x = x0 /\ idmap[x0] = IdMax
        <4>1. PICK m : m = n
          OBVIOUS
        <4>2. Binds(x[1], x[2], x[3], m)'
          BY <2>4, <2>10, <2>12, <3>1, <4>1
        <4> QED
          BY <2>1, <2>4, <2>6, <2>8, <3>1, <4>1, <4>2 DEF Bound
      <3>2. CASE ~(x = x0 /\ idmap[x0] = IdMax)
        <4>1. idmap'[x] = idmap[x]
          BY <2>5, <3>2
        <4>2. Bound(x) \/ Private(x)
          BY <1>0, <4>1 DEF Origins
        <4>3. CASE Bound(x)
          <5>1. PICK m \in direct : /\ id[m] = idmap[x] /\ ShapeOf[m] = x[2]
                                    /\ Binds(x[1], x[2], x[3], m)
            BY <4>3 DEF Bound
          <5>2. Binds(x[1], x[2], x[3], m)'
            BY <2>10, <5>1
          <5> QED
            BY <2>2, <4>1, <5>1, <5>2 DEF Bound
        <4>4. CASE Private(x)
          <5>1. \A m \in direct' : ShapeOf[m] = x[2] => id'[m] # idmap'[x]
            BY <2>13, <4>1, <4>4
          <5>2. ASSUME NEW y \in Locals, y # x, y[2] = x[2] PROVE idmap'[y] # idmap'[x]
            <6>1. CASE y = x0 /\ idmap[x0] = IdMax
              BY <2>4, <2>6, <2>13, <4>1, <4>4, <5>2, <6>1
            <6>2. CASE ~(y = x0 /\ idmap[x0] = IdMax)
              BY <2>5, <4>1, <4>4, <5>2, <6>2 DEF Private
            <6> QED
              BY <6>1, <6>2
          <5> QED
            BY <5>1, <5>2 DEF Private
        <4> QED
          BY <4>2, <4>3, <4>4
      <3> QED
        BY <3>1, <3>2
    <2> QED
      BY <2>2, <2>3, <2>9, <2>14 DEF IdInv
  <1> QED
    BY <1>3, <1>4 DEF capsule_read_external_names

\* A link that is added to the last unit is in range when it is below its count.
LEMMA LinkAdded ==
  ASSUME UnitsTypeOK, NEW l \in Link,
         units' = [units EXCEPT ![Len(units)].links = Append(@, l)],
         LinksInRange, l.ext < idcount'[l.shape],
         TablesTypeOK, TablesTypeOK', \A s \in Shapes : idcount[s] <= idcount'[s]
  PROVE  LinksInRange'
  <1> SUFFICES ASSUME NEW j \in DOMAIN units', NEW k \in DOMAIN units'[j].links
               PROVE  units'[j].links[k].ext < idcount'[units'[j].links[k].shape]
    BY DEF LinksInRange
  <1>1. j \in DOMAIN units /\ units \in Seq(UnitObject)
    BY DEF UnitsTypeOK
  <1>2. units[j].links \in Seq(Link)
    <2>1. units[j] \in UnitObject
      BY <1>1
    <2> QED
      BY <2>1 DEF UnitObject
  <1>3. ASSUME k \in DOMAIN units[j].links, units'[j].links[k] = units[j].links[k]
        PROVE  units'[j].links[k].ext < idcount'[units'[j].links[k].shape]
    <2>1. units[j].links[k] \in Link
      BY <1>2, <1>3
    <2>2. units[j].links[k].shape \in Shapes /\ units[j].links[k].ext \in Nat
      BY <2>1, CapsuleAssumption DEF Link
    <2>3. units[j].links[k].ext < idcount[units[j].links[k].shape]
      BY <1>1, <1>3 DEF LinksInRange
    <2>4. \A s \in Shapes : idcount[s] \in Nat /\ idcount'[s] \in Nat
      BY CapsuleAssumption DEF TablesTypeOK
    <2>5. units[j].links[k].ext < idcount'[units[j].links[k].shape]
      BY <2>2, <2>3, <2>4
    <2> QED
      BY <1>3, <2>5
  <1>4. CASE j # Len(units)
    <2>1. units'[j] = units[j]
      BY <1>1, <1>4
    <2> QED
      BY <1>3, <2>1
  <1>5. CASE j = Len(units)
    <2>1. units'[j].links = Append(units[j].links, l)
      <3>1. units[j] \in UnitObject
        BY <1>1
      <3>2. units'[j] = [units[j] EXCEPT !.links = Append(@, l)]
        BY <1>1, <1>5
      <3> QED
        BY <3>1, <3>2 DEF UnitObject
    <2>2. k \in 1 .. Len(units[j].links) + 1
      BY <1>2, <2>1
    <2>3. CASE k = Len(units[j].links) + 1
      BY <1>2, <2>1, <2>3
    <2>4. CASE k \in 1 .. Len(units[j].links)
      <3>1. units'[j].links[k] = units[j].links[k] /\ k \in DOMAIN units[j].links
        BY <1>2, <2>1, <2>4
      <3> QED
        BY <1>3, <3>1
    <2> QED
      BY <1>2, <2>2, <2>3, <2>4
  <1> QED
    BY <1>4, <1>5

\* Mapping an identifier of a unit for the first time makes it private; later it
\* is mapped in the same way (capsule.c:829).
LEMMA UnitMapsIds ==
  ASSUME Typed, Typed', IdInv, capsule_read_unit_maps
  PROVE  IdInv'
  <1> DEFINE u == C.units[item]
             x0 == <<cap, u.shape, u.ext>>
  <1>0. /\ TablesTypeOK /\ TablesTypeOK' /\ UnitsTypeOK /\ UnitsTypeOK'
        /\ IdsDistinct /\ MapsInRange /\ Origins /\ LinksInRange
    BY DEF Typed, CapsuleTypeOK, IdInv
  <1>1. /\ pc = "units" /\ cap \in Capsules /\ u.shape \in Shapes /\ u.ext \in Nat
        /\ C.nids \in [Shapes -> 0 .. MaxLocal]
    BY CurrentContent, CurrentUnit DEF capsule_read_unit_maps, AtItem, At
  <1>2. UNCHANGED <<file, indirect, direct, id>>
    BY DEF capsule_read_unit_maps, fixedVars
  <1>3. CASE UNCHANGED <<idcount, idmap, units>>
    BY <1>2, <1>3, UnchangedIds DEF idVars
  <1>4. CASE /\ u.ext < C.nids[u.shape] /\ LinkId(u) # IdMax
             /\ idcount' = [idcount EXCEPT ![u.shape] = IF idmap[x0] = IdMax THEN @ + 1 ELSE @]
             /\ idmap' = [idmap EXCEPT ![x0] = LinkId(u)]
             /\ units' = [units EXCEPT ![Len(units)].links =
                            Append(@, [shape |-> u.shape, ext |-> LinkId(u)])]
    <2>1. x0 \in Locals /\ x0[2] = u.shape
      BY <1>1, <1>4, CapsuleAssumption DEF Locals
    <2>2. \A x \in Locals : x[2] \in Shapes /\ idmap[x] \in 0 .. IdMax
      BY <1>0 DEF UnitsTypeOK, Locals
    <2>3. \A s \in Shapes : idcount[s] \in Nat /\ idcount'[s] \in Nat
      BY <1>0, CapsuleAssumption DEF TablesTypeOK
    <2>4. \A s \in Shapes : idcount[s] <= idcount'[s]
      BY <1>0, <1>4, <2>3 DEF TablesTypeOK
    <2>5. \A x \in Locals : idmap'[x] = IF x = x0 THEN LinkId(u) ELSE idmap[x]
      BY <1>0, <1>4 DEF UnitsTypeOK, Locals
    <2>6. CASE idmap[x0] # IdMax
      <3>1. LinkId(u) = idmap[x0] /\ idcount' = idcount
        BY <1>0, <1>4, <2>6 DEF LinkId, TablesTypeOK
      <3>2. \A x \in Locals : idmap'[x] = idmap[x]
        BY <2>5, <3>1
      <3>3. IdsDistinct' /\ MapsInRange'
        BY <1>0, <1>2, <3>1, <3>2 DEF IdsDistinct, MapsInRange
      <3>4. Origins'
        BY <1>0, <1>2, <3>2 DEF Origins, Bound, Private, Binds
      <3>5. LinkId(u) < idcount'[u.shape] /\ LinkId(u) \in 0 .. IdMax
        BY <1>0, <2>1, <2>2, <2>6, <3>1 DEF MapsInRange
      <3>6. [shape |-> u.shape, ext |-> LinkId(u)] \in Link
        BY <1>1, <3>5 DEF Link
      <3>7. LinksInRange'
        BY <1>0, <1>4, <2>4, <3>5, <3>6, LinkAdded
      <3> QED
        BY <3>3, <3>4, <3>7 DEF IdInv
    <2>7. CASE idmap[x0] = IdMax
      <3>1. LinkId(u) = idcount[u.shape] /\ idcount'[u.shape] = idcount[u.shape] + 1
        BY <1>0, <1>1, <1>4, <2>7 DEF LinkId, TablesTypeOK
      <3>2. ASSUME NEW m \in direct PROVE id[m] < idcount[ShapeOf[m]] /\ ShapeOf[m] \in Shapes /\ id[m] \in Nat
        BY <1>0, CapsuleAssumption DEF IdsDistinct, TablesTypeOK
      <3>3. IdsDistinct'
        <4>1. \A m \in direct : id[m] < idcount'[ShapeOf[m]]
          BY <2>3, <2>4, <3>2
        <4> QED
          BY <1>0, <1>2, <4>1 DEF IdsDistinct
      <3>4. ASSUME NEW x \in Locals, x # x0, idmap[x] # IdMax
            PROVE  idmap[x] < idcount[x[2]] /\ idmap[x] \in Nat
        BY <1>0, <2>2, <3>4, CapsuleAssumption DEF MapsInRange
      <3>5. MapsInRange'
        <4> SUFFICES ASSUME NEW x \in Locals, idmap'[x] # IdMax
                     PROVE  idmap'[x] < idcount'[x[2]]
          BY DEF MapsInRange
        <4>1. CASE x = x0
          BY <1>1, <2>1, <2>3, <2>5, <3>1, <4>1
        <4>2. CASE x # x0
          BY <2>2, <2>3, <2>4, <2>5, <3>4, <4>2
        <4> QED
          BY <4>1, <4>2
      <3>6. Origins'
        <4> SUFFICES ASSUME NEW x \in Locals, idmap'[x] # IdMax
                     PROVE  Bound(x)' \/ Private(x)'
          BY DEF Origins
        <4>1. CASE x = x0
          <5>1. idmap'[x] = idcount[x[2]]
            BY <2>1, <2>5, <3>1, <4>1
          <5>2. \A m \in direct' : ShapeOf[m] = x[2] => id'[m] # idmap'[x]
            BY <1>2, <2>2, <2>3, <3>2, <5>1
          <5>3. ASSUME NEW y \in Locals, y # x, y[2] = x[2] PROVE idmap'[y] # idmap'[x]
            <6>1. idmap'[y] = idmap[y]
              BY <2>5, <4>1, <5>3
            <6>2. CASE idmap[y] = IdMax
              BY <1>4, <2>1, <3>1, <4>1, <5>1, <6>1, <6>2
            <6>3. CASE idmap[y] # IdMax
              BY <2>2, <2>3, <3>4, <4>1, <5>1, <5>3, <6>1, <6>3
            <6> QED
              BY <6>2, <6>3
          <5> QED
            BY <5>2, <5>3 DEF Private
        <4>2. CASE x # x0
          <5>1. idmap'[x] = idmap[x]
            BY <2>5, <4>2
          <5>2. Bound(x) \/ Private(x)
            BY <1>0, <5>1 DEF Origins
          <5>3. CASE Bound(x)
            BY <1>2, <5>1, <5>3 DEF Bound, Binds
          <5>4. CASE Private(x)
            <6>1. \A m \in direct' : ShapeOf[m] = x[2] => id'[m] # idmap'[x]
              BY <1>2, <5>1, <5>4 DEF Private
            <6>2. ASSUME NEW y \in Locals, y # x, y[2] = x[2] PROVE idmap'[y] # idmap'[x]
              <7>1. CASE y = x0
                <8>1. idmap'[y] = idcount[x[2]]
                  BY <2>1, <2>5, <3>1, <6>2, <7>1
                <8>2. idmap[x] < idcount[x[2]]
                  BY <3>4, <4>2, <5>1
                <8> QED
                  BY <2>2, <2>3, <5>1, <8>1, <8>2, CapsuleAssumption
              <7>2. CASE y # x0
                BY <2>5, <5>1, <5>4, <6>2, <7>2 DEF Private
              <7> QED
                BY <7>1, <7>2
            <6> QED
              BY <6>1, <6>2 DEF Private
          <5> QED
            BY <5>2, <5>3, <5>4
        <4> QED
          BY <4>1, <4>2
      <3>7. LinkId(u) < idcount'[u.shape] /\ LinkId(u) \in 0 .. IdMax
        BY <1>0, <1>1, <2>3, <3>1 DEF TablesTypeOK
      <3>8. [shape |-> u.shape, ext |-> LinkId(u)] \in Link
        BY <1>1, <3>7 DEF Link
      <3>9. LinksInRange'
        BY <1>0, <1>4, <2>4, <3>7, <3>8, LinkAdded
      <3> QED
        BY <3>3, <3>5, <3>6, <3>9 DEF IdInv
    <2> QED
      BY <2>6, <2>7
  <1> QED
    BY <1>3, <1>4 DEF capsule_read_unit_maps

\* A new unit has no links, and a unit that becomes whole keeps its links
\* (unit-entry.c:57, 101).
LEMMA UnitsIds ==
  ASSUME Typed, Typed', IdInv, unit_entry_add_unit \/ unit_set_contents
  PROVE  IdInv'
  <1>0. UnitsTypeOK /\ UnitsTypeOK' /\ IdsDistinct /\ MapsInRange /\ Origins /\ LinksInRange
    BY DEF Typed, CapsuleTypeOK, IdInv
  <1>1. UNCHANGED <<file, indirect, direct, id, idcount, idmap>>
    BY DEF unit_entry_add_unit, unit_set_contents, fixedVars, tableVars
  <1>2. IdsDistinct' /\ MapsInRange' /\ Origins'
    BY <1>0, <1>1 DEF IdsDistinct, MapsInRange, Origins, Bound, Private, Binds
  <1>3. units \in Seq(UnitObject) /\ units' \in Seq(UnitObject)
    BY <1>0 DEF UnitsTypeOK
  <1>4. CASE unit_entry_add_unit
    <2> DEFINE new == [cap |-> cap, links |-> <<>>, counted |-> C.units[item].counted,
                       whole |-> FALSE]
    <2>1. units' = Append(units, new)
      BY <1>4 DEF unit_entry_add_unit
    <2>2. ASSUME NEW j \in DOMAIN units', j \notin DOMAIN units PROVE units'[j].links = <<>>
      BY <1>3, <2>1, <2>2
    <2>3. ASSUME NEW j \in DOMAIN units PROVE units'[j] = units[j]
      BY <1>3, <2>1
    <2> QED
      BY <1>0, <1>1, <1>2, <2>2, <2>3 DEF IdInv, LinksInRange
  <1>5. CASE unit_set_contents
    <2>1. units' = [units EXCEPT ![Len(units)].whole = TRUE]
      BY <1>5 DEF unit_set_contents
    <2>2. ASSUME NEW j \in DOMAIN units' PROVE j \in DOMAIN units /\ units'[j].links = units[j].links
      <3>1. j \in DOMAIN units /\ units[j] \in UnitObject
        BY <1>3, <2>1
      <3>2. units'[j] = IF j = Len(units) THEN [units[j] EXCEPT !.whole = TRUE] ELSE units[j]
        BY <1>3, <2>1, <3>1
      <3> QED
        BY <3>1, <3>2 DEF UnitObject
    <2> QED
      BY <1>0, <1>1, <1>2, <2>2 DEF IdInv, LinksInRange
  <1> QED
    BY <1>4, <1>5

\* Every step of the reader, in whatever program, keeps the invariant.
LEMMA NextIds == Typed /\ IdInv /\ ReaderStep => IdInv'
  BY NextTyped, OtherSteps, UnchangedIds, ExternalNamesIds, UnitMapsIds, UnitsIds DEF IdStep

LEMMA InitIds == CapsuleInit => IdInv
  <1> SUFFICES ASSUME CapsuleInit PROVE IdInv
    OBVIOUS
  <1>1. IdsDistinct
    BY DEF CapsuleInit, IdsDistinct
  <1>2. MapsInRange /\ Origins
    BY DEF CapsuleInit, MapsInRange, Origins, Locals
  <1>3. LinksInRange
    BY DEF CapsuleInit, LinksInRange
  <1> QED
    BY <1>1, <1>2, <1>3 DEF IdInv

\* The invariant about identifiers holds in every reachable state.
THEOREM IdInvariant == CapsuleSpec => [](Typed /\ IdInv)
  <1>1. CapsuleInit => Typed /\ IdInv
    BY InitTyped, InitIds
  <1>2. Typed /\ IdInv /\ [CapsuleNext]_capsuleVars => (Typed /\ IdInv)'
    BY ReaderSteps, NextTyped, NextIds
  <1> QED
    BY <1>1, <1>2, PTL DEF CapsuleSpec

\* Names of one shape have identifiers of their own, below the count that is
\* written for the shape (shape-entry.c:65).
THEOREM IdsDistinctInvariant == CapsuleSpec => []IdsDistinct
  <1>1. Typed /\ IdInv => IdsDistinct
    BY DEF IdInv
  <1> QED
    BY <1>1, IdInvariant, PTL

\* Every link of every unit is below the count of its shape (capsule.c:787).
THEOREM LinksInRangeInvariant == CapsuleSpec => []LinksInRange
  <1>1. Typed /\ IdInv => LinksInRange
    BY DEF IdInv
  <1> QED
    BY <1>1, IdInvariant, PTL

\* Linking captures no private identifier, for any number of capsules and
\* wherever reading was abandoned (capsule.c:829).
THEOREM NoCaptureInvariant == CapsuleSpec => []NoCapture
  <1>1. Typed /\ IdInv => NoCapture
    <2> SUFFICES ASSUME Typed, IdInv, NEW x \in DOMAIN idmap, NEW y \in DOMAIN idmap,
                        x # y, x[2] = y[2], idmap[x] # IdMax, idmap[x] = idmap[y]
                 PROVE  \E n \in direct : /\ id[n] = idmap[x]
                                          /\ Binds(x[1], x[2], x[3], n)
                                          /\ Binds(y[1], y[2], y[3], n)
      BY DEF NoCapture
    <2>1. x \in Locals /\ y \in Locals
      BY DEF Typed, CapsuleTypeOK, UnitsTypeOK, Locals
    <2>2. ~Private(x) /\ ~Private(y)
      BY <2>1 DEF Private
    <2>3. Bound(x) /\ Bound(y)
      BY <2>1, <2>2 DEF IdInv, Origins
    <2>4. PICK m \in direct : /\ id[m] = idmap[x] /\ ShapeOf[m] = x[2]
                              /\ Binds(x[1], x[2], x[3], m)
      BY <2>3 DEF Bound
    <2>5. PICK n \in direct : /\ id[n] = idmap[y] /\ ShapeOf[n] = y[2]
                              /\ Binds(y[1], y[2], y[3], n)
      BY <2>3 DEF Bound
    <2>6. m = n
      BY <2>4, <2>5 DEF IdInv, IdsDistinct
    <2> QED
      BY <2>4, <2>5, <2>6
  <1> QED
    BY <1>1, IdInvariant, PTL

-----------------------------------------------------------------------------
\* No step takes away an entry or changes its identifier.
LEMMA NamesKept ==
  ASSUME Typed, ReaderStep, NEW n \in direct
  PROVE  n \in direct' /\ id'[n] = id[n]
  <1>0. TablesTypeOK
    BY DEF Typed, CapsuleTypeOK
  <1>1. CASE UNCHANGED idVars \/ unit_entry_add_unit \/ unit_set_contents \/ capsule_read_unit_maps
    BY <1>1 DEF idVars, unit_entry_add_unit, unit_set_contents, capsule_read_unit_maps, tableVars
  <1>2. CASE capsule_read_external_names
    <2>1. ASSUME NEW m, AddName(m) PROVE n \in direct' /\ id'[n] = id[n]
      BY <1>0, <2>1 DEF AddName, tableVars, TablesTypeOK
    <2> QED
      BY <1>2, <2>1 DEF capsule_read_external_names, tableVars
  <1> QED
    BY <1>1, <1>2, OtherSteps DEF IdStep

\* An identifier that was mapped stays mapped to the same identifier.
LEMMA MapsKept ==
  ASSUME Typed, ReaderStep, NEW x \in Locals, idmap[x] # IdMax
  PROVE  idmap'[x] = idmap[x]
  <1>0. idmap \in [Locals -> 0 .. IdMax]
    BY DEF Typed, CapsuleTypeOK, UnitsTypeOK, Locals
  <1>1. CASE UNCHANGED idVars \/ unit_entry_add_unit \/ unit_set_contents
    BY <1>1 DEF idVars, unit_entry_add_unit, unit_set_contents
  <1>2. CASE capsule_read_external_names
    <2>1. CASE UNCHANGED idmap
      BY <2>1
    <2>2. CASE ~UNCHANGED idmap
      <3>1. PICK y, v : idmap[y] = IdMax /\ idmap' = [idmap EXCEPT ![y] = v]
        BY <1>2, <2>2 DEF capsule_read_external_names
      <3> QED
        BY <1>0, <3>1
    <2> QED
      BY <2>1, <2>2
  <1>3. CASE capsule_read_unit_maps
    <2>1. CASE UNCHANGED idmap
      BY <2>1
    <2>2. CASE ~UNCHANGED idmap
      <3> DEFINE y == <<cap, C.units[item].shape, C.units[item].ext>>
      <3>1. idmap' = [idmap EXCEPT ![y] = LinkId(C.units[item])]
        BY <1>3, <2>2 DEF capsule_read_unit_maps
      <3>2. idmap[y] # IdMax => LinkId(C.units[item]) = idmap[y]
        BY DEF LinkId
      <3> HIDE DEF y
      <3> QED
        BY <1>0, <3>1, <3>2
    <2> QED
      BY <2>1, <2>2
  <1> QED
    BY <1>1, <1>2, <1>3, OtherSteps DEF IdStep

\* The j-th external name of the capsule c has an entry, and the capsule's
\* identifier for it is mapped to the identifier of the entry.
Agrees(c, j) ==
  LET e == file[c].externs[j]
      n == indirect[e.name]
  IN /\ n \in direct /\ <<c, ShapeOf[e.name], e.id>> \in Locals
     /\ idmap[<<c, ShapeOf[e.name], e.id>>] = id[n]

\* The names that were read so far agree, of the current capsule and of all that
\* were read to the end.
AgreeInv ==
  /\ pc = "names" => \A j \in 1 .. item - 1 : Agrees(cap, j)
  /\ pc \in {"usage", "token", "tag", "units", "eof"} =>
       \A j \in DOMAIN C.externs : Agrees(cap, j)
  /\ \A c \in complete : \A j \in DOMAIN file[c].externs : Agrees(c, j)

\* The identifier of a name is never UINT_MAX, which stands for "none".
LEMMA IdBelowMax ==
  ASSUME Typed, IdInv, NEW n \in direct
  PROVE  id[n] # IdMax
  <1>1. /\ n \in Names /\ ShapeOf[n] \in Shapes /\ idcount[ShapeOf[n]] \in 0 .. IdMax
        /\ id[n] \in 0 .. IdMax
    BY CapsuleAssumption DEF Typed, CapsuleTypeOK, TablesTypeOK
  <1>2. id[n] < idcount[ShapeOf[n]]
    BY DEF IdInv, IdsDistinct
  <1> QED
    BY <1>1, <1>2

\* What agrees does so for ever.
LEMMA AgreesKept ==
  ASSUME Typed, IdInv, ReaderStep, NEW c, NEW j, Agrees(c, j)
  PROVE  Agrees(c, j)'
  <1> DEFINE e == file[c].externs[j]
             n == indirect[e.name]
             x == <<c, ShapeOf[e.name], e.id>>
  <1>1. n \in direct /\ x \in Locals /\ idmap[x] = id[n]
    BY DEF Agrees
  <1>2. id[n] # IdMax
    BY <1>1, IdBelowMax
  <1>3. n \in direct' /\ id'[n] = id[n]
    BY <1>1, NamesKept
  <1>4. idmap'[x] = idmap[x]
    BY <1>1, <1>2, MapsKept
  <1>5. UNCHANGED <<file, indirect>>
    <2>1. UNCHANGED idVars => UNCHANGED <<file, indirect>>
      BY DEF idVars
    <2>2. IdStep => UNCHANGED <<file, indirect>>
      BY DEF IdStep, capsule_read_external_names, unit_entry_add_unit, capsule_read_unit_maps,
             unit_set_contents, fixedVars
    <2> QED
      BY <2>1, <2>2, OtherSteps
  <1> QED
    BY <1>1, <1>3, <1>4, <1>5 DEF Agrees

\* A step that reads no further name keeps the agreement, if it brings the reader
\* to no later stage of the names.
LEMMA AgreeSame ==
  ASSUME Typed, IdInv, AgreeInv, ReaderStep, UNCHANGED <<file, complete>>,
         pc' \in {"usage", "token", "tag", "units", "eof"} =>
            pc \in {"usage", "token", "tag", "units", "eof"} /\ cap' = cap,
         pc' = "names" => item' = 1
  PROVE  AgreeInv'
  <1>1. \A c, j : Agrees(c, j) => Agrees(c, j)'
    BY AgreesKept
  <1>2. pc' = "names" => \A j \in 1 .. item' - 1 : FALSE
    OBVIOUS
  <1> QED
    BY <1>1, <1>2 DEF AgreeInv, C

LEMMA NextAgree ==
  ASSUME Typed, IdInv, AgreeInv, ReaderStep
  PROVE  AgreeInv'
  <1> USE DEF fixedVars
  <1> PICK k : k = cap
    OBVIOUS
  <1>0. ASSUME Throw PROVE pc' \in {"idle", "abort"} /\ UNCHANGED complete
    BY <1>0 DEF Throw, SeriousThen, SeriousErrors
  <1>1. ASSUME NEW c \in Capsules, Open(c) PROVE AgreeInv'
    BY <1>1, AgreeSame DEF Open
  <1>2. CASE Malformed
    BY <1>0, <1>2, AgreeSame DEF Malformed
  <1>3. CASE capsule_read_header
    BY <1>0, <1>3, AgreeSame DEF capsule_read_header
  <1>4. CASE capsule_read_unit_set_names
    BY <1>4, AgreeSame DEF capsule_read_unit_set_names, SeriousErrors
  <1>5. CASE capsule_read_shapes
    BY <1>0, <1>5, AgreeSame DEF capsule_read_shapes, Advance, AtItem, At
  <1>6. CASE capsule_read_external_names
    <2> DEFINE e == C.externs[item]
               n == indirect[e.name]
               x == <<cap, ShapeOf[e.name], e.id>>
    <2>1. CASE pc' \in {"idle", "abort", "crash"}
      BY <1>0, <1>6, <2>1, AgreeSame DEF capsule_read_external_names, Advance
    <2>2. CASE pc' \notin {"idle", "abort", "crash"}
      <3>1. /\ e.id < C.nids[ShapeOf[e.name]] /\ n # NULL /\ ~NoIdLeft(n) /\ AddName(n)
            /\ idmap' = [idmap EXCEPT ![x] = id'[n]] /\ Advance /\ pc = "names"
            /\ UNCHANGED <<file, indirect>>
        BY <1>0, <1>6, <2>2 DEF capsule_read_external_names, AtItem, At
      <3>2. /\ cap \in Capsules /\ C.nids \in [Shapes -> 0 .. MaxLocal]
            /\ e.id \in Nat /\ ShapeOf[e.name] \in Shapes /\ n \in Names
        BY <1>6, <3>1, CurrentContent, CurrentExtern DEF capsule_read_external_names, AtItem, At
      <3>3. x \in Locals
        BY <3>1, <3>2, CapsuleAssumption DEF Locals
      <3>4. n \in direct'
        BY <3>1, <3>2, AddNameTyped DEF Typed, CapsuleTypeOK
      <3>5. idmap'[x] = id'[n]
        BY <3>1, <3>3 DEF Typed, CapsuleTypeOK, UnitsTypeOK, Locals
      <3>6. \A j : j = item => Agrees(k, j)'
        BY <3>1, <3>3, <3>4, <3>5 DEF Agrees, C
      <3>7. \A j \in 1 .. item - 1 : Agrees(k, j)'
        BY <3>1, AgreesKept DEF AgreeInv
      <3>8. item \in Nat /\ item' = item + 1 /\ pc' = "names" /\ UNCHANGED <<cap, complete>>
        BY <3>1 DEF Typed, CapsuleTypeOK, ControlTypeOK, Advance
      <3>9. \A j \in 1 .. item' - 1 : j = item \/ j \in 1 .. item - 1
        BY <3>8
      <3>10. \A c \in complete : \A j \in DOMAIN file[c].externs : Agrees(c, j)'
        BY AgreesKept DEF AgreeInv
      <3>11. \A j \in 1 .. item' - 1 : Agrees(k, j)'
        BY <3>6, <3>7, <3>9
      <3>12. cap' = k /\ pc' \notin {"usage", "token", "tag", "units", "eof"}
        BY <3>8
      <3> QED
        BY <3>1, <3>8, <3>10, <3>11, <3>12 DEF AgreeInv
    <2> QED
      BY <2>1, <2>2
  <1>7. CASE capsule_read_usage
    BY <1>0, <1>7, AgreeSame DEF capsule_read_usage, Advance, SeriousErrors
  <1>8. CASE unit_entry_add_unit \/ unit_set_contents \/ capsule_read_unit_maps
    BY <1>0, <1>8, AgreeSame
    DEF unit_entry_add_unit, unit_set_contents, capsule_read_unit_maps, Advance, AtItem, At
  <1>9. CASE EndStage
    <2>1. CASE pc = "names"
      <3>1. C.externs \in Seq(Extern) /\ item \in Nat /\ item > Len(C.externs)
        BY <1>9, <2>1, CurrentContent DEF EndStage, Items, Typed, CapsuleTypeOK, ControlTypeOK
      <3>2. DOMAIN C.externs \subseteq 1 .. item - 1
        BY <3>1
      <3>3. \A j \in DOMAIN file[k].externs : Agrees(k, j)'
        BY <2>1, <3>2, AgreesKept DEF AgreeInv, C
      <3>4. \A c \in complete : \A j \in DOMAIN file[c].externs : Agrees(c, j)'
        BY AgreesKept DEF AgreeInv
      <3>5. UNCHANGED <<file, cap, complete>> /\ pc' # "names"
        BY <1>9, <2>1 DEF EndStage, NextStage
      <3> QED
        BY <3>3, <3>4, <3>5 DEF AgreeInv, C
    <2>2. CASE pc # "names"
      BY <1>9, <2>2, AgreeSame DEF EndStage, NextStage
    <2> QED
      BY <2>1, <2>2
  <1>10. CASE capsule_read_end
    <2>1. pc = "eof" /\ pc' = "idle" /\ complete' = complete \cup {cap} /\ UNCHANGED file
      BY <1>10 DEF capsule_read_end, At
    <2>2. \A j \in DOMAIN file[k].externs : Agrees(k, j)'
      BY <2>1, AgreesKept DEF AgreeInv, C
    <2>3. \A c \in complete : \A j \in DOMAIN file[c].externs : Agrees(c, j)'
      BY AgreesKept DEF AgreeInv
    <2> QED
      BY <2>1, <2>2, <2>3 DEF AgreeInv
  <1>11. ASSUME NEW s \in Shapes, shape_entry_get_from_list(s) PROVE AgreeInv'
    BY <1>11, AgreeSame DEF shape_entry_get_from_list
  <1>12. CASE CallerStep
    BY <1>12, AgreeSame DEF CallerStep
  <1>13. CASE UNCHANGED capsuleVars
    BY <1>13 DEF capsuleVars, AgreeInv, Agrees, C
  <1> QED
    BY <1>1, <1>2, <1>3, <1>4, <1>5, <1>6, <1>7, <1>8, <1>9, <1>10, <1>11, <1>12, <1>13
    DEF ReaderStep, ReadStep

LEMMA InitAgree == CapsuleInit => AgreeInv
  BY DEF CapsuleInit, AgreeInv

\* In every capsule that was read to the end, each identifier of an external name
\* is mapped to the identifier of that name (capsule.c:472).
THEOREM ExternalIdsAgreeInvariant == CapsuleSpec => []ExternalIdsAgree
  <1>1. CapsuleInit => Typed /\ IdInv /\ AgreeInv
    BY InitTyped, InitIds, InitAgree
  <1>2. Typed /\ IdInv /\ AgreeInv /\ [CapsuleNext]_capsuleVars => (Typed /\ IdInv /\ AgreeInv)'
    BY ReaderSteps, NextTyped, NextIds, NextAgree
  <1>3. AgreeInv => ExternalIdsAgree
    BY DEF AgreeInv, Agrees, ExternalIdsAgree
  <1> QED
    BY <1>1, <1>2, <1>3, PTL DEF CapsuleSpec

-----------------------------------------------------------------------------
\* Names are put on the lists and taken off them in two places only.
LEMMA ListSteps ==
  ReaderStep => \/ capsule_read_external_names
                \/ \E s \in Shapes : shape_entry_get_from_list(s)
                \/ UNCHANGED <<direct, list>>
  <1> SUFFICES ASSUME ReaderStep, ~capsule_read_external_names,
                      ~ \E s \in Shapes : shape_entry_get_from_list(s)
               PROVE  UNCHANGED <<direct, list>>
    OBVIOUS
  <1> USE DEF tableVars
  <1>1. ASSUME NEW c \in Capsules, Open(c) PROVE UNCHANGED <<direct, list>>
    BY <1>1 DEF Open
  <1>2. CASE Malformed \/ capsule_read_header \/ capsule_read_unit_set_names \/ capsule_read_shapes
    BY <1>2 DEF Malformed, capsule_read_header, capsule_read_unit_set_names, capsule_read_shapes
  <1>3. CASE capsule_read_usage \/ EndStage \/ capsule_read_end
    BY <1>3 DEF capsule_read_usage, EndStage, capsule_read_end
  <1>4. CASE unit_entry_add_unit \/ capsule_read_unit_maps \/ unit_set_contents
    BY <1>4 DEF unit_entry_add_unit, capsule_read_unit_maps, unit_set_contents
  <1>5. CASE CallerStep \/ UNCHANGED capsuleVars
    BY <1>5 DEF CallerStep, capsuleVars
  <1> QED
    BY <1>1, <1>2, <1>3, <1>4, <1>5 DEF ReaderStep, ReadStep

\* name_table_add puts a name on its list only with its entry, and the list is
\* emptied from the front (name-table.c:80, shape-entry.c:81).
LEMMA NextListed == Typed /\ ListedOnce /\ ReaderStep => ListedOnce'
  <1> SUFFICES ASSUME Typed, ListedOnce, ReaderStep PROVE ListedOnce'
    OBVIOUS
  <1>0. direct \subseteq Names /\ list \in [Shapes -> Seq(Names)]
    BY DEF Typed, CapsuleTypeOK, TablesTypeOK
  <1>1. CASE UNCHANGED <<direct, list>>
    BY <1>1 DEF ListedOnce
  <1>2. ASSUME NEW s \in Shapes, shape_entry_get_from_list(s) PROVE ListedOnce'
    <2>1. list[s] \in Seq(Names) /\ list[s] # <<>> /\ direct' = direct
      BY <1>0, <1>2 DEF shape_entry_get_from_list
    <2>2. \A r \in Shapes : list'[r] = IF r = s THEN Tail(list[s]) ELSE list[r]
      BY <1>0, <1>2 DEF shape_entry_get_from_list
    <2>3. /\ Len(Tail(list[s])) = Len(list[s]) - 1 /\ Len(list[s]) \in Nat
          /\ \A j \in 1 .. Len(list[s]) - 1 : Tail(list[s])[j] = list[s][j + 1]
      BY <2>1
    <2>4. ASSUME NEW r \in Shapes
          PROVE  /\ \A j \in DOMAIN list'[r] : list'[r][j] \in direct /\ ShapeOf[list'[r][j]] = r
                 /\ \A i, j \in DOMAIN list'[r] : list'[r][i] = list'[r][j] => i = j
      <3>1. CASE r # s
        BY <2>2, <3>1 DEF ListedOnce
      <3>2. CASE r = s
        <4>1. /\ \A j \in 1 .. Len(list[s]) : list[s][j] \in direct /\ ShapeOf[list[s][j]] = s
              /\ \A i, j \in 1 .. Len(list[s]) : list[s][i] = list[s][j] => i = j
          BY <2>1 DEF ListedOnce
        <4>2. list'[r] = Tail(list[s]) /\ DOMAIN list'[r] = 1 .. Len(list[s]) - 1
          <5>1. list'[r] = Tail(list[s])
            BY <2>2, <3>2
          <5>2. DOMAIN Tail(list[s]) = 1 .. Len(list[s]) - 1
            BY <2>1
          <5> QED
            BY <5>1, <5>2
        <4>3. \A j \in 1 .. Len(list[s]) - 1 : j + 1 \in 1 .. Len(list[s]) /\ j \in Nat
          BY <2>3
        <4> QED
          BY <2>3, <3>2, <4>1, <4>2, <4>3
      <3> QED
        BY <3>1, <3>2
    <2> QED
      BY <2>1, <2>4 DEF ListedOnce
  <1>3. CASE capsule_read_external_names
    <2> DEFINE n == indirect[C.externs[item].name]
    <2>1. UNCHANGED <<direct, list>> \/ (n # NULL /\ AddName(n) /\ n \notin direct)
      BY <1>3 DEF capsule_read_external_names, AddName, tableVars
    <2>2. n \in Names \cup {NULL}
      BY <1>3, CurrentExtern DEF capsule_read_external_names, AtItem, At
    <2> HIDE DEF n
    <2>3. CASE n # NULL /\ AddName(n) /\ n \notin direct
      <3>1. n \in Names /\ ShapeOf[n] \in Shapes
        BY <2>2, <2>3, CapsuleAssumption
      <3> DEFINE s == ShapeOf[n]
      <3>2. direct' = direct \cup {n} /\ list' = [list EXCEPT ![s] = Append(@, n)]
        BY <2>3 DEF AddName
      <3>3. list[s] \in Seq(Names) /\ Len(list[s]) \in Nat
        BY <1>0, <3>1
      <3> HIDE DEF s
      <3>4. /\ \A r \in Shapes : list'[r] = IF r = s THEN Append(list[s], n) ELSE list[r]
            /\ s \in Shapes /\ ShapeOf[n] = s
        BY <1>0, <3>1, <3>2 DEF s
      <3>5. ASSUME NEW r \in Shapes
            PROVE  /\ \A j \in DOMAIN list'[r] : list'[r][j] \in direct' /\ ShapeOf[list'[r][j]] = r
                   /\ \A i, j \in DOMAIN list'[r] : list'[r][i] = list'[r][j] => i = j
        <4>1. CASE r # s
          BY <3>2, <3>4, <4>1 DEF ListedOnce
        <4>2. CASE r = s
          <5>1. /\ \A j \in 1 .. Len(list[s]) : list[s][j] \in direct /\ ShapeOf[list[s][j]] = s
                /\ \A i, j \in 1 .. Len(list[s]) : list[s][i] = list[s][j] => i = j
            BY <3>3, <3>4 DEF ListedOnce
          <5>2. /\ list'[r] = Append(list[s], n) /\ DOMAIN list'[r] = 1 .. Len(list[s]) + 1
                /\ list'[r][Len(list[s]) + 1] = n
                /\ \A j \in 1 .. Len(list[s]) : list'[r][j] = list[s][j]
            <6>1. list'[r] = Append(list[s], n)
              BY <3>4, <4>2
            <6>2. /\ DOMAIN Append(list[s], n) = 1 .. Len(list[s]) + 1
                  /\ Append(list[s], n)[Len(list[s]) + 1] = n
                  /\ \A j \in 1 .. Len(list[s]) : Append(list[s], n)[j] = list[s][j]
              BY <3>3
            <6> QED
              BY <6>1, <6>2
          <5>3. \A j \in 1 .. Len(list[s]) + 1 : j = Len(list[s]) + 1 \/ j \in 1 .. Len(list[s])
            BY <3>3
          <5> QED
            BY <2>3, <3>2, <3>4, <4>2, <5>1, <5>2, <5>3
        <4> QED
          BY <4>1, <4>2
      <3> QED
        BY <3>5 DEF ListedOnce
    <2> QED
      BY <1>1, <2>1, <2>3
  <1> QED
    BY <1>1, <1>2, <1>3, ListSteps

LEMMA InitListed == CapsuleInit => ListedOnce
  BY DEF CapsuleInit, ListedOnce

\* A caller that empties the lists meets every name once (shape-entry.c:81).
THEOREM ListedOnceInvariant == CapsuleSpec => []ListedOnce
  <1>1. CapsuleInit => Typed /\ ListedOnce
    BY InitTyped, InitListed
  <1>2. Typed /\ ListedOnce /\ [CapsuleNext]_capsuleVars => (Typed /\ ListedOnce)'
    BY ReaderSteps, NextTyped, NextListed
  <1> QED
    BY <1>1, <1>2, PTL DEF CapsuleSpec

-----------------------------------------------------------------------------
\* The shapes of the capsule that is being read are in the table once they have
\* been read, and so are the shapes of all names and of all links of units.
ShapesRead ==
  /\ pc \in {"header", "sets"} => item = 1
  /\ pc = "shapes" => \A k \in 1 .. item - 1 : C.shapes[k] \in shapes
  /\ pc \in {"names", "usage", "token", "tag", "units", "eof"} =>
       \A k \in DOMAIN C.shapes : C.shapes[k] \in shapes

NamesShaped == \A n \in direct : ShapeOf[n] \in shapes

LinksShaped ==
  \A j \in DOMAIN units : \A k \in DOMAIN units[j].links : units[j].links[k].shape \in shapes

ShapeInv == ShapesRead /\ NamesShaped /\ LinksShaped

\* Shapes are never taken out of the table (shape-table.c).
LEMMA ShapesGrow == ReaderStep => shapes \subseteq shapes'
  <1> SUFFICES ASSUME ReaderStep PROVE shapes \subseteq shapes'
    OBVIOUS
  <1>1. ASSUME NEW c \in Capsules, Open(c) PROVE UNCHANGED shapes
    BY <1>1 DEF Open
  <1>2. CASE Malformed \/ capsule_read_header \/ capsule_read_unit_set_names
    BY <1>2 DEF Malformed, capsule_read_header, capsule_read_unit_set_names
  <1>3. CASE capsule_read_shapes
    BY <1>3 DEF capsule_read_shapes
  <1>4. CASE capsule_read_external_names \/ capsule_read_usage \/ EndStage \/ capsule_read_end
    BY <1>4 DEF capsule_read_external_names, capsule_read_usage, EndStage, capsule_read_end
  <1>5. CASE unit_entry_add_unit \/ capsule_read_unit_maps \/ unit_set_contents
    BY <1>5 DEF unit_entry_add_unit, capsule_read_unit_maps, unit_set_contents
  <1>6. ASSUME NEW s \in Shapes, shape_entry_get_from_list(s) PROVE UNCHANGED shapes
    BY <1>6 DEF shape_entry_get_from_list
  <1>7. CASE CallerStep \/ UNCHANGED capsuleVars
    BY <1>7 DEF CallerStep, capsuleVars
  <1> QED
    BY <1>1, <1>2, <1>3, <1>4, <1>5, <1>6, <1>7 DEF ReaderStep, ReadStep

\* A step within a stage, or out of all of them, keeps what was read of the shapes.
LEMMA ShapesSame ==
  ASSUME ShapesRead, ReaderStep, file' = file,
         pc' \in {"header", "sets", "shapes"} => item' = 1,
         pc' \in {"names", "usage", "token", "tag", "units", "eof"} =>
            pc \in {"names", "usage", "token", "tag", "units", "eof"} /\ cap' = cap
  PROVE  ShapesRead'
  <1>1. pc' = "shapes" => \A k \in 1 .. item' - 1 : FALSE
    OBVIOUS
  <1> QED
    BY <1>1, ShapesGrow DEF ShapesRead, C

\* The shapes of a capsule are entered one by one (capsule.c:398).
LEMMA NextShapesRead == Typed /\ ShapesRead /\ ReaderStep => ShapesRead'
  <1> SUFFICES ASSUME Typed, ShapesRead, ReaderStep PROVE ShapesRead'
    OBVIOUS
  <1> USE DEF fixedVars
  <1>0. ASSUME Throw PROVE pc' \in {"idle", "abort"}
    BY <1>0 DEF Throw, SeriousThen, SeriousErrors
  <1>1. ASSUME NEW c \in Capsules, Open(c) PROVE ShapesRead'
    BY <1>1, ShapesSame DEF Open
  <1>2. CASE Malformed
    BY <1>0, <1>2, ShapesSame DEF Malformed
  <1>3. CASE capsule_read_header
    BY <1>0, <1>3, ShapesSame DEF capsule_read_header, At, ShapesRead
  <1>4. CASE capsule_read_unit_set_names
    BY <1>4, ShapesSame DEF capsule_read_unit_set_names, SeriousErrors, At, ShapesRead
  <1>5. CASE capsule_read_shapes
    <2>1. CASE Throw
      BY <1>0, <1>5, <2>1, ShapesSame DEF capsule_read_shapes
    <2>2. CASE Advance
      <3>1. /\ pc = "shapes" /\ pc' = "shapes" /\ item' = item + 1 /\ UNCHANGED <<file, cap>>
            /\ shapes' = shapes \cup {C.shapes[item]} /\ item \in Nat
        BY <1>5, <2>2 DEF capsule_read_shapes, Advance, AtItem, At, Typed, CapsuleTypeOK, ControlTypeOK
      <3>2. \A k \in 1 .. item' - 1 : k = item \/ k \in 1 .. item - 1
        BY <3>1
      <3>3. C' = C
        BY <3>1 DEF C
      <3> QED
        BY <3>1, <3>2, <3>3 DEF ShapesRead
    <2> QED
      BY <1>5, <2>1, <2>2 DEF capsule_read_shapes
  <1>6. CASE capsule_read_external_names
    BY <1>0, <1>6, ShapesSame DEF capsule_read_external_names, Advance, AtItem, At
  <1>7. CASE capsule_read_usage
    BY <1>0, <1>7, ShapesSame DEF capsule_read_usage, Advance, SeriousErrors
  <1>8. CASE unit_entry_add_unit \/ unit_set_contents \/ capsule_read_unit_maps
    BY <1>0, <1>8, ShapesSame
    DEF unit_entry_add_unit, unit_set_contents, capsule_read_unit_maps, Advance, AtItem, At
  <1>9. CASE EndStage
    <2>1. CASE pc = "shapes"
      <3>1. C.shapes \in Seq(Shapes) /\ item \in Nat /\ item > Len(C.shapes)
        BY <1>9, <2>1, CurrentContent DEF EndStage, Items, Typed, CapsuleTypeOK, ControlTypeOK
      <3>2. DOMAIN C.shapes \subseteq 1 .. item - 1
        BY <3>1
      <3>3. UNCHANGED <<file, cap, shapes>> /\ pc' = "names"
        BY <1>9, <2>1 DEF EndStage, NextStage
      <3> QED
        BY <2>1, <3>2, <3>3 DEF ShapesRead, C
    <2>2. CASE pc # "shapes"
      BY <1>9, <2>2, ShapesSame DEF EndStage, NextStage
    <2> QED
      BY <2>1, <2>2
  <1>10. CASE capsule_read_end
    BY <1>10, ShapesSame DEF capsule_read_end
  <1>11. ASSUME NEW s \in Shapes, shape_entry_get_from_list(s) PROVE ShapesRead'
    BY <1>11, ShapesSame DEF shape_entry_get_from_list
  <1>12. CASE CallerStep
    BY <1>12, ShapesSame DEF CallerStep
  <1>13. CASE UNCHANGED capsuleVars
    BY <1>13 DEF capsuleVars, ShapesRead, C
  <1> QED
    BY <1>1, <1>2, <1>3, <1>4, <1>5, <1>6, <1>7, <1>8, <1>9, <1>10, <1>11, <1>12, <1>13
    DEF ReaderStep, ReadStep

\* An external name comes under a shape that the capsule lists (capsule.c:436).
LEMMA NextNamesShaped ==
  ASSUME Typed, ShapesRead, NamesShaped, ReaderStep
  PROVE  NamesShaped'
  <1>1. CASE UNCHANGED direct
    BY <1>1, ShapesGrow DEF NamesShaped
  <1>2. CASE capsule_read_external_names /\ ~UNCHANGED direct
    <2> DEFINE e == C.externs[item]
               n == indirect[e.name]
    <2>1. pc = "names" /\ n # NULL /\ direct' = direct \cup {n}
      BY <1>2 DEF capsule_read_external_names, AddName, tableVars, AtItem, At
    <2>2. cap \in Capsules /\ C.externs \in Seq(Extern) /\ item \in 1 .. Len(C.externs)
      <3>1. C.externs \in Seq(Extern) /\ cap \in Capsules
        BY <2>1, CurrentContent
      <3> QED
        BY <1>2, <2>1, <3>1 DEF capsule_read_external_names, AtItem, Items, Typed, CapsuleTypeOK,
                                ControlTypeOK
    <2>3. WellFormed(C)
      BY <2>2, CapsuleAssumption DEF C, Typed, CapsuleTypeOK
    <2>4. \E k \in DOMAIN C.shapes : C.shapes[k] = ShapeOf[e.name]
      BY <2>2, <2>3 DEF WellFormed
    <2>5. ShapeOf[e.name] \in shapes
      BY <2>1, <2>4 DEF ShapesRead
    <2>6. ShapeOf[n] = ShapeOf[e.name]
      BY <1>2, <2>1, CurrentExtern DEF capsule_read_external_names, AtItem, At
    <2> QED
      BY <2>1, <2>5, <2>6, ShapesGrow DEF NamesShaped
  <1>3. ASSUME NEW s \in Shapes, shape_entry_get_from_list(s) PROVE UNCHANGED direct
    BY <1>3 DEF shape_entry_get_from_list
  <1> QED
    BY <1>1, <1>2, <1>3, ListSteps

\* The links of the units are the old ones but for the link that is being read.
LEMMA LinkOrigin ==
  ASSUME Typed, ReaderStep, NEW j \in DOMAIN units', NEW k \in DOMAIN units'[j].links
  PROVE  \/ /\ j \in DOMAIN units /\ k \in DOMAIN units[j].links
            /\ units'[j].links[k] = units[j].links[k]
         \/ /\ pc = "units" /\ C.units[item].ext < C.nids[C.units[item].shape]
            /\ units'[j].links[k].shape = C.units[item].shape /\ AtItem("units")
  <1>0. units \in Seq(UnitObject)
    BY DEF Typed, CapsuleTypeOK, UnitsTypeOK
  <1>1. CASE UNCHANGED units
    BY <1>1
  <1>2. CASE unit_entry_add_unit
    <2>1. PICK v : units' = Append(units, v) /\ v.links = <<>>
      BY <1>2 DEF unit_entry_add_unit
    <2>2. j \in 1 .. Len(units) + 1
      BY <1>0, <2>1
    <2>3. CASE j = Len(units) + 1
      BY <1>0, <2>1, <2>3
    <2>4. CASE j \in 1 .. Len(units)
      BY <1>0, <2>1, <2>4
    <2> QED
      BY <1>0, <2>2, <2>3, <2>4
  <1>3. CASE unit_set_contents
    <2>1. units' = [units EXCEPT ![Len(units)].whole = TRUE]
      BY <1>3 DEF unit_set_contents
    <2>2. j \in DOMAIN units /\ units[j] \in UnitObject
      BY <1>0, <2>1
    <2>3. units'[j] = IF j = Len(units) THEN [units[j] EXCEPT !.whole = TRUE] ELSE units[j]
      BY <1>0, <2>1, <2>2
    <2>4. units'[j].links = units[j].links
      BY <2>2, <2>3 DEF UnitObject
    <2> QED
      BY <2>2, <2>4
  <1>4. CASE capsule_read_unit_maps /\ ~UNCHANGED units
    <2> DEFINE u == C.units[item]
               l == [shape |-> u.shape, ext |-> LinkId(u)]
    <2>1. /\ units' = [units EXCEPT ![Len(units)].links = Append(@, l)]
          /\ pc = "units" /\ u.ext < C.nids[u.shape] /\ AtItem("units")
      BY <1>4 DEF capsule_read_unit_maps, AtItem, At
    <2>2. l.shape = u.shape
      OBVIOUS
    <2> HIDE DEF l
    <2>3. j \in DOMAIN units /\ units[j] \in UnitObject
      BY <1>0, <2>1
    <2>4. units[j].links \in Seq(Link)
      BY <2>3 DEF UnitObject
    <2>5. CASE j # Len(units)
      BY <1>0, <2>1, <2>3, <2>5
    <2>6. CASE j = Len(units)
      <3>1. units'[j] = [units[j] EXCEPT !.links = Append(@, l)]
        BY <1>0, <2>1, <2>3, <2>6
      <3>2. units'[j].links = Append(units[j].links, l)
        BY <2>3, <3>1 DEF UnitObject
      <3>3. k \in 1 .. Len(units[j].links) + 1
        BY <2>4, <3>2
      <3>4. CASE k = Len(units[j].links) + 1
        <4>1. units'[j].links[k] = l
          BY <2>4, <3>2, <3>4
        <4> QED
          BY <2>1, <2>2, <4>1
      <3>5. CASE k \in 1 .. Len(units[j].links)
        BY <2>3, <2>4, <3>2, <3>5
      <3> QED
        BY <2>4, <3>3, <3>4, <3>5
    <2> QED
      BY <2>5, <2>6
  <1>5. CASE capsule_read_external_names
    BY <1>1, <1>5 DEF capsule_read_external_names
  <1> QED
    BY <1>1, <1>2, <1>3, <1>4, <1>5, OtherSteps DEF IdStep, idVars

\* A link is to an identifier of a shape that the capsule lists (capsule.c:813).
LEMMA NextLinksShaped ==
  ASSUME Typed, ShapesRead, LinksShaped, ReaderStep
  PROVE  LinksShaped'
  <1> SUFFICES ASSUME NEW j \in DOMAIN units', NEW k \in DOMAIN units'[j].links
               PROVE  units'[j].links[k].shape \in shapes'
    BY DEF LinksShaped
  <1>1. CASE /\ j \in DOMAIN units /\ k \in DOMAIN units[j].links
             /\ units'[j].links[k] = units[j].links[k]
    BY <1>1, ShapesGrow DEF LinksShaped
  <1>2. CASE /\ pc = "units" /\ C.units[item].ext < C.nids[C.units[item].shape]
             /\ units'[j].links[k].shape = C.units[item].shape /\ AtItem("units")
    <2> DEFINE s == C.units[item].shape
    <2>1. /\ cap \in Capsules /\ s \in Shapes /\ C.units[item].ext \in Nat
          /\ C.nids \in [Shapes -> 0 .. MaxLocal]
      BY <1>2, CurrentContent, CurrentUnit
    <2>2. C.nids[s] > 0
      BY <1>2, <2>1, CapsuleAssumption
    <2>3. WellFormed(C)
      BY <2>1, CapsuleAssumption DEF C, Typed, CapsuleTypeOK
    <2>4. \E i \in DOMAIN C.shapes : C.shapes[i] = s
      BY <2>1, <2>2, <2>3 DEF WellFormed
    <2> QED
      BY <1>2, <2>4, ShapesGrow DEF ShapesRead
  <1> QED
    BY <1>1, <1>2, LinkOrigin

LEMMA NextShapes == Typed /\ ShapeInv /\ ReaderStep => ShapeInv'
  BY NextShapesRead, NextNamesShaped, NextLinksShaped DEF ShapeInv

LEMMA InitShapes == CapsuleInit => ShapeInv
  BY DEF CapsuleInit, ShapeInv, ShapesRead, NamesShaped, LinksShaped

\* The shape of every external name and of every link is in the table of shapes
\* that will be written (capsule.c:398, 813).
THEOREM ShapeInvariant == CapsuleSpec => [](Typed /\ ShapeInv)
  <1>1. CapsuleInit => Typed /\ ShapeInv
    BY InitTyped, InitShapes
  <1>2. Typed /\ ShapeInv /\ [CapsuleNext]_capsuleVars => (Typed /\ ShapeInv)'
    BY ReaderSteps, NextTyped, NextShapes
  <1> QED
    BY <1>1, <1>2, PTL DEF CapsuleSpec

=============================================================================
