--------------------------- MODULE RenamesProofs ----------------------------
(***************************************************************************)
(* Proofs about Renames, for any set of keys, any rename options and any   *)
(* limit on the number of errors.                                          *)
(***************************************************************************)
EXTENDS Renames, SequenceTheorems, FiniteSetTheorems, WellFoundedInduction, TLAPS

\* What the code knows between its steps: before the table is resolved no entry
\* is resolved or being resolved; a call is made on an entry of the table; an
\* unresolved entry points to an entry of the table; a call returns nil or a
\* place holder.
Progress ==
  /\ pc \in {"parse", "enter"} => /\ stack = <<>>
                                  /\ \A k \in Keys : type[k] \in {"absent", "place", "indirect"}
  /\ pc \in {"scan", "done"} => stack = <<>>
  /\ pc = "call" => arg \in Keys /\ type[arg] # "absent"
  /\ \A k \in Keys : type[k] = "indirect" =>
        indirect[k] \in Keys /\ type[indirect[k]] # "absent"
  /\ pc = "return" => ret = NULL \/ type[ret] = "place"

IInv == TypeOK /\ CyclingIsOnStack /\ ResolvedInOneStep /\ Progress

LEMMA InitIInv == Init => IInv
  BY RenamesAssumption DEF Init, IInv, TypeOK, CyclingIsOnStack, ResolvedInOneStep, Progress,
     EntryTypes

\* The step lemma, one step per action.
LEMMA NextIInv == IInv /\ [Next]_vars => IInv'
  <1> SUFFICES ASSUME IInv, [Next]_vars PROVE IInv'
      OBVIOUS
  <1> USE RenamesAssumption, MaxErrorsAssumption DEF EntryTypes
  <1>1. CASE arg_data_add_rename
    <2>1. requests[parsed + 1] \in Pair
      BY <1>1 DEF arg_data_add_rename, IInv, TypeOK
    <2>a. <<requests[parsed + 1]>> \in Seq(Pair) /\ pairs \in Seq(Pair)
      BY <2>1 DEF IInv, TypeOK
    <2>b. <<requests[parsed + 1]>> \o pairs \in Seq(Pair)
      BY <2>a, ConcatProperties, Zenon
    <2>c. pairs' \in Seq(Pair)
      BY <1>1, <2>a, <2>b DEF arg_data_add_rename
    <2>d. errors' \in Nat /\ pc' \in {"parse", "abort"}
      BY <1>1 DEF arg_data_add_rename, SeriousThen, SeriousErrors, IInv, TypeOK
    <2>e. Len(requests) \in Nat /\ parsed' \in 0 .. Len(requests)
      BY <1>1 DEF arg_data_add_rename, IInv, TypeOK
    <2>2. TypeOK'
      BY <1>1, <2>c, <2>d, <2>e DEF arg_data_add_rename, IInv, TypeOK
    <2>3. QED
      BY <1>1, <2>2 DEF arg_data_add_rename, SeriousThen, SeriousErrors, IInv, TypeOK,
         CyclingIsOnStack, ResolvedInOneStep, Progress
  <1>2. CASE StartRename
    BY <1>2 DEF StartRename, IInv, TypeOK, CyclingIsOnStack, ResolvedInOneStep, Progress
  <1>3. CASE name_table_add_rename
    <2>1. Head(todo) \in Pair /\ Tail(todo) \in Seq(Pair)
      BY <1>3 DEF name_table_add_rename, IInv, TypeOK
    <2>2. Head(todo).from \in Keys /\ Head(todo).to \in Keys
      BY <2>1 DEF Pair
    <2>3. TypeOK'
      BY <1>3, <2>1, <2>2 DEF name_table_add_rename, IInv, TypeOK
    <2>4. \A k \in Keys : type'[k] \in {"absent", "place", "indirect"}
      BY <1>3, <2>2 DEF name_table_add_rename, IInv, TypeOK, Progress
    <2>5. \A k \in Keys : type'[k] = "indirect" =>
             indirect'[k] \in Keys /\ type'[indirect'[k]] # "absent"
      BY <1>3, <2>2 DEF name_table_add_rename, IInv, TypeOK, Progress
    <2>6. stack' = <<>> /\ pc' = "enter"
      BY <1>3 DEF name_table_add_rename, IInv, Progress
    <2>7. QED
      BY <2>3, <2>4, <2>5, <2>6 DEF IInv, CyclingIsOnStack, ResolvedInOneStep, Progress
  <1>4. CASE StartResolve
    BY <1>4 DEF StartResolve, IInv, TypeOK, CyclingIsOnStack, ResolvedInOneStep, Progress
  <1>5. ASSUME NEW k \in Keys, ScanEntry(k) PROVE IInv'
    BY <1>5 DEF ScanEntry, IInv, TypeOK, CyclingIsOnStack, ResolvedInOneStep, Progress
  <1>6. CASE EndScan
    BY <1>6 DEF EndScan, IInv, TypeOK, CyclingIsOnStack, ResolvedInOneStep, Progress
  <1>7. CASE CallReturns
    <2>1. arg \in Keys /\ type[arg] \in {"place", "done", "cycling"}
      BY <1>7 DEF CallReturns, IInv, Progress
    <2>2. ret' = NULL \/ (ret' \in Keys /\ type[ret'] = "place")
      BY <1>7, <2>1 DEF CallReturns, IInv, TypeOK, ResolvedInOneStep
    <2>3. TypeOK'
      BY <1>7, <2>2 DEF CallReturns, SeriousThen, SeriousErrors, IInv, TypeOK
    <2>4. QED
      BY <1>7, <2>2, <2>3 DEF CallReturns, SeriousThen, SeriousErrors, IInv, TypeOK,
         CyclingIsOnStack, ResolvedInOneStep, Progress
  <1>8. CASE CallRecurses
    <2>1. arg \in Keys /\ type[arg] = "indirect" /\ indirect[arg] \in Keys
      BY <1>8 DEF CallRecurses, IInv, Progress
    <2>2. TypeOK'
      BY <1>8, <2>1 DEF CallRecurses, IInv, TypeOK
    <2>a. /\ DOMAIN stack = 1 .. Len(stack) /\ Len(stack) \in Nat
          /\ DOMAIN stack' = 1 .. (Len(stack) + 1)
          /\ \A j \in 1 .. Len(stack) : stack'[j] = stack[j]
          /\ stack'[Len(stack) + 1] = arg
      BY <1>8, <2>1 DEF CallRecurses, IInv, TypeOK
    <2>b. \A j \in 1 .. Len(stack) : stack[j] \in Keys /\ stack[j] # arg
      <3>1. \A j \in 1 .. Len(stack) : stack[j] \in Keys
        BY DEF IInv, TypeOK
      <3>2. QED
        BY <3>1, <2>1, <2>a DEF IInv, CyclingIsOnStack
    <2>c. \A k \in Keys : type'[k] = IF k = arg THEN "cycling" ELSE type[k]
      BY <1>8, <2>1 DEF CallRecurses, IInv, TypeOK
    <2>d. \A k \in Keys : type'[k] = "cycling" <=> \E j \in DOMAIN stack' : stack'[j] = k
      <3> SUFFICES ASSUME NEW k \in Keys
                   PROVE  type'[k] = "cycling" <=> \E j \in DOMAIN stack' : stack'[j] = k
        OBVIOUS
      <3>1. CASE k = arg
        BY <3>1, <2>a, <2>c
      <3>2. CASE k # arg
        <4>1. type[k] = "cycling" <=> \E j \in 1 .. Len(stack) : stack[j] = k
          BY <2>a DEF IInv, CyclingIsOnStack
        <4>2. (\E j \in 1 .. Len(stack) : stack[j] = k)
                 <=> \E j \in DOMAIN stack' : stack'[j] = k
          BY <3>2, <2>a
        <4>3. QED
          BY <3>2, <4>1, <4>2, <2>c
      <3>3. QED
        BY <3>1, <3>2
    <2>3. CyclingIsOnStack'
      BY <2>a, <2>b, <2>d DEF IInv, CyclingIsOnStack
    <2>4. ResolvedInOneStep' /\ Progress'
      BY <1>8, <2>1 DEF CallRecurses, IInv, TypeOK, ResolvedInOneStep, Progress
    <2>5. QED
      BY <2>2, <2>3, <2>4 DEF IInv
  <1>9. CASE ReturnInner
    <2> DEFINE top == stack[Len(stack)]
    <2>1. Len(stack) \in Nat \ {0} /\ top \in Keys /\ type[top] = "cycling"
      BY <1>9 DEF ReturnInner, IInv, TypeOK, CyclingIsOnStack
    <2>2. TypeOK'
      BY <1>9, <2>1 DEF ReturnInner, IInv, TypeOK
    <2>a. /\ DOMAIN stack = 1 .. Len(stack) /\ Len(stack) \in Nat \ {0}
          /\ DOMAIN stack' = 1 .. (Len(stack) - 1)
          /\ \A j \in 1 .. (Len(stack) - 1) : stack'[j] = stack[j]
      BY <1>9, <2>1 DEF ReturnInner, IInv, TypeOK
    <2>b. \A j \in 1 .. (Len(stack) - 1) : stack[j] \in Keys /\ stack[j] # top
      <3>1. \A j \in 1 .. Len(stack) : stack[j] \in Keys
        BY DEF IInv, TypeOK
      <3>2. QED
        BY <3>1, <2>1, <2>a DEF IInv, CyclingIsOnStack
    <2>c. \A k \in Keys : type'[k] = IF k = top THEN "done" ELSE type[k]
      BY <1>9, <2>1 DEF ReturnInner, IInv, TypeOK
    <2>d. \A k \in Keys : type'[k] = "cycling" <=> \E j \in DOMAIN stack' : stack'[j] = k
      <3> SUFFICES ASSUME NEW k \in Keys
                   PROVE  type'[k] = "cycling" <=> \E j \in DOMAIN stack' : stack'[j] = k
        OBVIOUS
      <3>1. CASE k = top
        BY <3>1, <2>a, <2>b, <2>c
      <3>2. CASE k # top
        <4>1. type[k] = "cycling" <=> \E j \in 1 .. Len(stack) : stack[j] = k
          BY <2>a DEF IInv, CyclingIsOnStack
        <4>2. (\E j \in 1 .. Len(stack) : stack[j] = k)
                 <=> \E j \in 1 .. (Len(stack) - 1) : stack[j] = k
          BY <3>2, <2>a
        <4>3. QED
          BY <3>2, <4>1, <4>2, <2>a, <2>c
      <3>3. QED
        BY <3>1, <3>2
    <2>3. CyclingIsOnStack'
      BY <2>a, <2>d DEF IInv, CyclingIsOnStack
    <2>4. ret = NULL \/ (ret \in Keys /\ type[ret] = "place")
      BY <1>9 DEF ReturnInner, IInv, TypeOK, Progress
    <2>5. ResolvedInOneStep' /\ Progress'
      BY <1>9, <2>1, <2>4 DEF ReturnInner, IInv, TypeOK, ResolvedInOneStep, Progress
    <2>6. QED
      BY <2>2, <2>3, <2>5 DEF IInv
  <1>10. CASE ReturnOuter
    BY <1>10 DEF ReturnOuter, IInv, TypeOK, CyclingIsOnStack, ResolvedInOneStep, Progress
  <1>11. CASE UNCHANGED vars
    BY <1>11 DEF vars, IInv, TypeOK, CyclingIsOnStack, ResolvedInOneStep, Progress
  <1>12. QED
    BY <1>1, <1>2, <1>3, <1>4, <1>5, <1>6, <1>7, <1>8, <1>9, <1>10, <1>11
       DEF Next, Step, Terminated

THEOREM IInvInvariant == Spec => []IInv
  BY InitIInv, NextIInv, PTL DEF Spec

\* name_entry_resolve_renames leaves one step to follow from any resolved
\* entry, in every state and for every order of the table (name-entry.c:95).
THEOREM ResolvedInOneStepInvariant == Spec => []ResolvedInOneStep
  <1>1. IInv => ResolvedInOneStep
    BY DEF IInv
  <1>2. QED
    BY <1>1, IInvInvariant, PTL

\* The mark NT_INDIRECT_CYCLING is set exactly on the entries that are being
\* resolved, each by one call (name-entry.c:113).
THEOREM CyclingIsOnStackInvariant == Spec => []CyclingIsOnStack
  <1>1. IInv => CyclingIsOnStack
    BY DEF IInv
  <1>2. QED
    BY <1>1, IInvInvariant, PTL

-----------------------------------------------------------------------------
(* What a list of renamings means *)

NumKeys == Cardinality(Keys)

LEMMA NumKeysNat == NumKeys \in Nat /\ IsFiniteSet(Keys)
  BY RenamesAssumption, FS_CardinalityType DEF NumKeys

\* Induction, in the only form that needs no formula as a parameter.
LEMMA LeastNumber ==
  ASSUME NEW S \in SUBSET Nat, S # {}
  PROVE  \E x \in S : \A y \in S : x <= y
  <1>1. PICK x \in S : \A y \in S : <<y, x>> \notin OpToRel(<, Nat)
    BY WFMin, NatLessThanWellFounded, Zenon
  <1>2. \A y \in S : ~(y < x)
    BY <1>1, Zenon DEF OpToRel
  <1> QED
    BY <1>2

LEMMA RenamedToKey ==
  ASSUME NEW ps \in Seq(Pair), NEW k \in Keys
  PROVE  RenamedTo(ps, k) \in Keys
  <1>1. CASE \E j \in DOMAIN ps : ps[j].from = k
    <2>1. PICK j : j = CHOOSE i \in DOMAIN ps : ps[i].from = k
      OBVIOUS
    <2>2. j \in DOMAIN ps
      BY <1>1, <2>1
    <2>3. ps[j] \in Pair
      BY <2>2
    <2> QED
      BY <1>1, <2>1, <2>3 DEF RenamedTo, Pair
  <1> QED
    BY <1>1 DEF RenamedTo

\* One more renaming than in row n - 1.
Row(ps, w, n) ==
  IF n = 0 THEN [k \in Keys |-> k] ELSE [k \in Keys |-> RenamedTo(ps, w[n - 1][k])]

\* The recursion that defines Walk has a solution, row by row.
LEMMA WalkExists ==
  ASSUME NEW ps
  PROVE  \A m \in Nat : \E w : w = [n \in 0 .. m |-> Row(ps, w, n)]
  <1> DEFINE Bad == {m \in Nat : ~\E w : w = [n \in 0 .. m |-> Row(ps, w, n)]}
  <1> SUFFICES ASSUME Bad # {} PROVE FALSE
    OBVIOUS
  <1>1. PICK m \in Bad : \A y \in Bad : m <= y
    BY LeastNumber
  <1>2. m # 0
    <2>1. PICK w : w = [n \in 0 .. 0 |-> [k \in Keys |-> k]]
      OBVIOUS
    <2>2. w = [n \in 0 .. 0 |-> Row(ps, w, n)]
      BY <2>1 DEF Row
    <2> QED
      BY <1>1, <2>2
  <1>3. m \in Nat /\ m - 1 \in Nat /\ m - 1 \notin Bad
    BY <1>1, <1>2
  <1>4. PICK w : w = [n \in 0 .. m - 1 |-> Row(ps, w, n)]
    BY <1>3
  <1>5. PICK v : v = [n \in 0 .. m |-> IF n < m THEN w[n] ELSE Row(ps, w, m)]
    OBVIOUS
  <1>6. ASSUME NEW n \in 0 .. m PROVE v[n] = Row(ps, v, n)
    <2>1. n # 0 => n - 1 \in 0 .. m - 1 /\ v[n - 1] = w[n - 1]
      BY <1>3, <1>5
    <2>2. Row(ps, v, n) = Row(ps, w, n)
      BY <2>1 DEF Row
    <2>3. CASE n < m
      <3>1. n \in 0 .. m - 1
        BY <1>3, <2>3
      <3>2. w[n] = Row(ps, w, n)
        BY <1>4, <3>1
      <3> QED
        BY <1>5, <2>2, <2>3, <3>2
    <2>4. CASE n = m
      BY <1>3, <1>5, <2>2, <2>4
    <2> QED
      BY <1>3, <2>3, <2>4
  <1>7. v = [n \in 0 .. m |-> Row(ps, v, n)]
    <2>1. v = [n \in 0 .. m |-> v[n]]
      BY <1>5
    <2> QED
      BY <1>6, <2>1
  <1> QED
    BY <1>1, <1>7

LEMMA WalkIs ==
  ASSUME NEW ps
  PROVE  Walk(ps) = [n \in 0 .. NumKeys |-> Row(ps, Walk(ps), n)]
  <1>1. \E w : w = [n \in 0 .. NumKeys |-> Row(ps, w, n)]
    BY WalkExists, NumKeysNat
  <1> QED
    BY <1>1 DEF Walk, NumKeys, Row

LEMMA WalkRows ==
  ASSUME NEW ps \in Seq(Pair), NEW k \in Keys
  PROVE  /\ Walk(ps)[0][k] = k
         /\ \A n \in 1 .. NumKeys : Walk(ps)[n][k] = RenamedTo(ps, Walk(ps)[n - 1][k])
  <1>1. \A n \in 0 .. NumKeys : Walk(ps)[n] = Row(ps, Walk(ps), n)
    BY WalkIs, Zenon
  <1>2. 0 \in 0 .. NumKeys /\ \A n \in 1 .. NumKeys : n \in 0 .. NumKeys /\ n # 0
    BY NumKeysNat
  <1> QED
    BY <1>1, <1>2 DEF Row

\* The names on the way stay in a set that renaming does not leave.
LEMMA WalkStays ==
  ASSUME NEW ps \in Seq(Pair), NEW S \in SUBSET Keys, \A x \in S : RenamedTo(ps, x) \in S,
         NEW k \in S
  PROVE  \A n \in 0 .. NumKeys : Walk(ps)[n][k] \in S
  <1> DEFINE Bad == {n \in 0 .. NumKeys : Walk(ps)[n][k] \notin S}
  <1> SUFFICES ASSUME Bad # {} PROVE FALSE
    OBVIOUS
  <1>0. Bad \in SUBSET Nat /\ NumKeys \in Nat
    BY NumKeysNat
  <1>1. PICK m \in Bad : \A y \in Bad : m <= y
    BY <1>0, LeastNumber
  <1>2. m # 0 /\ m \in 0 .. NumKeys
    BY <1>1, WalkRows
  <1>3. m - 1 \in 0 .. NumKeys /\ m \in 1 .. NumKeys /\ m - 1 \notin Bad
    BY <1>0, <1>1, <1>2
  <1>4. Walk(ps)[m - 1][k] \in S
    BY <1>3
  <1> QED
    BY <1>1, <1>3, <1>4, WalkRows

LEMMA WalkKey ==
  ASSUME NEW ps \in Seq(Pair), NEW k \in Keys, NEW n \in 0 .. NumKeys
  PROVE  Walk(ps)[n][k] \in Keys
  BY WalkStays, RenamedToKey

\* A chain of renamings can be followed from its second name.
LEMMA WalkOn ==
  ASSUME NEW ps \in Seq(Pair), NEW k \in Keys
  PROVE  \A n \in 1 .. NumKeys : Walk(ps)[n][k] = Walk(ps)[n - 1][RenamedTo(ps, k)]
  <1> DEFINE t == RenamedTo(ps, k)
             Bad == {n \in 1 .. NumKeys : Walk(ps)[n][k] # Walk(ps)[n - 1][t]}
  <1> SUFFICES ASSUME Bad # {} PROVE FALSE
    OBVIOUS
  <1>0. Bad \in SUBSET Nat /\ NumKeys \in Nat /\ t \in Keys
    BY NumKeysNat, RenamedToKey
  <1>1. PICK m \in Bad : \A y \in Bad : m <= y
    BY <1>0, LeastNumber
  <1>2. m \in 1 .. NumKeys /\ Walk(ps)[m][k] = RenamedTo(ps, Walk(ps)[m - 1][k])
    BY <1>1, WalkRows
  <1>3. m # 1
    <2>1. Walk(ps)[0][k] = k /\ Walk(ps)[0][t] = t
      BY <1>0, WalkRows
    <2> QED
      BY <1>1, <1>2, <2>1
  <1>4. m - 1 \in 1 .. NumKeys /\ m - 1 \notin Bad
    BY <1>0, <1>1, <1>2, <1>3
  <1>5. Walk(ps)[m - 1][k] = Walk(ps)[m - 2][t]
    BY <1>4
  <1>6. Walk(ps)[m - 1][t] = RenamedTo(ps, Walk(ps)[m - 2][t])
    <2> HIDE DEF t
    <2> QED
      BY <1>0, <1>4, WalkRows
  <1> QED
    BY <1>1, <1>2, <1>5, <1>6

\* A name that is not renamed is the end of the chain.
LEMMA WalkEnds ==
  ASSUME NEW ps \in Seq(Pair), NEW k \in Keys, NEW m \in 0 .. NumKeys,
         ~IsRenamed(ps, Walk(ps)[m][k])
  PROVE  \A n \in m .. NumKeys : Walk(ps)[n][k] = Walk(ps)[m][k]
  <1> DEFINE p == Walk(ps)[m][k]
             Bad == {n \in m .. NumKeys : Walk(ps)[n][k] # p}
  <1> SUFFICES ASSUME Bad # {} PROVE FALSE
    OBVIOUS
  <1>0. Bad \in SUBSET Nat /\ NumKeys \in Nat
    BY NumKeysNat
  <1>1. PICK x \in Bad : \A y \in Bad : x <= y
    BY <1>0, LeastNumber
  <1>2. x \in m .. NumKeys /\ x # m
    BY <1>1
  <1>3. x - 1 \in m .. NumKeys /\ x \in 1 .. NumKeys /\ x - 1 \notin Bad
    BY <1>0, <1>1, <1>2
  <1>4. Walk(ps)[x - 1][k] = p
    BY <1>3
  <1>5. RenamedTo(ps, p) = p
    BY DEF RenamedTo, IsRenamed
  <1> QED
    BY <1>1, <1>3, <1>4, <1>5, WalkRows

\* The names after the first on the way from k.
Ahead(ps, k) == {Walk(ps)[n][k] : n \in 1 .. NumKeys}

\* The way from a name that comes back to it does not end.
LEMMA CyclicNeverEnds ==
  ASSUME NEW ps \in Seq(Pair), NEW k \in Keys, IsRenamed(ps, k), k \in Ahead(ps, k)
  PROVE  \A n \in 0 .. NumKeys : IsRenamed(ps, Walk(ps)[n][k])
  <1>0. NumKeys \in Nat
    BY NumKeysNat
  <1>1. PICK c \in 1 .. NumKeys : Walk(ps)[c][k] = k
    BY DEF Ahead
  <1> DEFINE S == {Walk(ps)[d][k] : d \in 0 .. c - 1}
  <1>2. S \in SUBSET Keys /\ k \in S
    BY <1>0, WalkKey, WalkRows
  <1>3. ASSUME NEW x \in S PROVE RenamedTo(ps, x) \in S
    <2>1. PICK d \in 0 .. c - 1 : x = Walk(ps)[d][k]
      OBVIOUS
    <2>2. d + 1 \in 1 .. NumKeys /\ d + 1 - 1 = d
      BY <1>0
    <2>3. RenamedTo(ps, x) = Walk(ps)[d + 1][k]
      BY <2>1, <2>2, WalkRows
    <2>4. d + 1 \in 0 .. c - 1 \/ d + 1 = c
      OBVIOUS
    <2> QED
      BY <1>1, <1>2, <2>3, <2>4
  <1>4. ASSUME NEW x \in S PROVE IsRenamed(ps, x)
    <2>1. PICK d \in 0 .. c - 1 : x = Walk(ps)[d][k]
      OBVIOUS
    <2>2. d \in 0 .. NumKeys /\ c \in d .. NumKeys
      BY <1>0
    <2> QED
      BY <1>1, <2>1, <2>2, WalkEnds
  <1> HIDE DEF S
  <1> QED
    BY <1>2, <1>3, <1>4, WalkStays

\* Names that follow each other are those that Walk passes.
LEMMA WalkAlong ==
  ASSUME NEW ps \in Seq(Pair), NEW l \in Nat, l <= NumKeys, NEW f \in [0 .. l -> Keys],
         \A d \in 0 .. l - 1 : RenamedTo(ps, f[d]) = f[d + 1]
  PROVE  \A d \in 0 .. l : Walk(ps)[d][f[0]] = f[d]
  <1> DEFINE Bad == {d \in 0 .. l : Walk(ps)[d][f[0]] # f[d]}
  <1> SUFFICES ASSUME Bad # {} PROVE FALSE
    OBVIOUS
  <1>0. Bad \in SUBSET Nat /\ NumKeys \in Nat /\ f[0] \in Keys
    BY NumKeysNat
  <1>1. PICK m \in Bad : \A y \in Bad : m <= y
    BY <1>0, LeastNumber
  <1>2. m \in 0 .. l /\ m # 0
    BY <1>0, <1>1, WalkRows
  <1>3. m - 1 \in 0 .. l - 1 /\ m \in 1 .. NumKeys /\ m - 1 \notin Bad /\ m - 1 + 1 = m
    BY <1>0, <1>1, <1>2
  <1>4. Walk(ps)[m - 1][f[0]] = f[m - 1]
    BY <1>3
  <1>5. Walk(ps)[m][f[0]] = RenamedTo(ps, f[m - 1])
    BY <1>0, <1>3, <1>4, WalkRows
  <1> QED
    BY <1>1, <1>3, <1>5

\* The names of s follow each other, and the last one leads back to place j.
LeadsBack(ps, s, j) ==
  /\ j \in 1 .. Len(s) /\ Len(s) <= NumKeys
  /\ \A m \in 1 .. Len(s) - 1 : RenamedTo(ps, s[m]) = s[m + 1]
  /\ RenamedTo(ps, s[Len(s)]) = s[j]

\* Each name of a closed chain leads to exactly these names.
LEMMA AheadIsCycle ==
  ASSUME NEW ps \in Seq(Pair), NEW s \in Seq(Keys), NEW j, LeadsBack(ps, s, j),
         NEW i \in j .. Len(s)
  PROVE  Ahead(ps, s[i]) = {s[m] : m \in j .. Len(s)}
  <1> USE DEF LeadsBack
  <1> DEFINE L == Len(s)
             C == {s[m] : m \in j .. L}
  <1>0. NumKeys \in Nat /\ L \in Nat /\ \A m \in 1 .. L : s[m] \in Keys
    BY NumKeysNat
  <1>1. C \in SUBSET Keys /\ s[i] \in C
    BY <1>0
  <1>2. ASSUME NEW y \in C PROVE RenamedTo(ps, y) \in C
    <2>1. PICK m \in j .. L : y = s[m]
      OBVIOUS
    <2>2. CASE m = L
      <3>1. RenamedTo(ps, y) = s[j] /\ j \in j .. L
        BY <1>0, <2>1, <2>2
      <3> QED
        BY <3>1
    <2>3. CASE m # L
      <3>1. m \in 1 .. L - 1 /\ m + 1 \in j .. L
        BY <1>0, <2>3
      <3>2. RenamedTo(ps, y) = s[m + 1]
        BY <2>1, <3>1
      <3> QED
        BY <3>1, <3>2
    <2> QED
      BY <2>2, <2>3
  <1>3. Ahead(ps, s[i]) \subseteq C
    <2>1. \A n \in 1 .. NumKeys : n \in 0 .. NumKeys
      BY <1>0
    <2> HIDE DEF C
    <2>2. \A n \in 0 .. NumKeys : Walk(ps)[n][s[i]] \in C
      BY <1>1, <1>2, WalkStays
    <2> QED
      BY <2>1, <2>2 DEF Ahead
  <1>4. C \subseteq Ahead(ps, s[i])
    <2> DEFINE c == L - j + 1
               at(d) == IF i + d <= L THEN i + d ELSE i + d - c
               f == [d \in 0 .. c |-> s[at(d)]]
    <2>1. c \in Nat /\ c <= NumKeys /\ \A d \in 0 .. c : at(d) \in j .. L
      BY <1>0
    <2>2. f \in [0 .. c -> Keys] /\ f[0] = s[i]
      BY <1>0, <2>1
    <2>3. ASSUME NEW d \in 0 .. c - 1 PROVE RenamedTo(ps, f[d]) = f[d + 1]
      <3>1. d \in 0 .. c /\ d + 1 \in 0 .. c
        BY <2>1
      <3>2. CASE at(d) = L
        <4>1. i + d = L
          <5>1. i \in j .. L /\ d \in 0 .. L - j /\ i \in Nat /\ j \in Nat /\ d \in Nat
            BY <1>0
          <5>2. i + d <= L + L - j
            BY <1>0, <5>1
          <5> QED
            BY <1>0, <3>2, <5>1, <5>2
        <4>2. at(d + 1) = j
          <5>1. i \in Int /\ d \in Int /\ j \in Int /\ L \in Int
            BY <1>0
          <5>2. ~(i + (d + 1) <= L) /\ i + (d + 1) - (L - j + 1) = j
            <6> HIDE DEF L
            <6>1. d = L - i
              BY <4>1, <5>1
            <6> QED
              BY <5>1, <6>1
          <5> QED
            BY <5>2
        <4> QED
          BY <3>1, <3>2, <4>2
      <3>3. CASE at(d) # L
        <4>1. at(d + 1) = at(d) + 1 /\ at(d) \in 1 .. L - 1
          BY <1>0, <2>1, <3>1, <3>3
        <4> HIDE DEF at
        <4> QED
          BY <3>1, <4>1
      <3> QED
        BY <3>2, <3>3
    <2>4. \A d \in 0 .. c : Walk(ps)[d][s[i]] = s[at(d)]
      <3> HIDE DEF f, c, at
      <3>1. \A d \in 0 .. c : Walk(ps)[d][f[0]] = f[d]
        BY <2>1, <2>2, <2>3, WalkAlong
      <3> QED
        BY <2>2, <3>1 DEF f
    <2>5. ASSUME NEW m \in j .. L PROVE \E n \in 1 .. c : at(n) = m
      <3>1. CASE i < m
        <4>1. m - i \in 1 .. c /\ at(m - i) = m
          BY <1>0, <3>1
        <4> QED
          BY <4>1
      <3>2. CASE m <= i
        <4>1. m - i + c \in 1 .. c /\ at(m - i + c) = m
          BY <1>0, <3>2
        <4> QED
          BY <4>1
      <3> QED
        BY <1>0, <3>1, <3>2
    <2>6. \A n \in 1 .. c : n \in 1 .. NumKeys /\ n \in 0 .. c
      BY <1>0, <2>1
    <2> HIDE DEF at, c
    <2> QED
      BY <2>4, <2>5, <2>6 DEF Ahead
  <1> QED
    BY <1>3, <1>4

\* A name is not ahead of itself if what it is renamed to leads elsewhere.
LEMMA NotAhead ==
  ASSUME NEW ps \in Seq(Pair), NEW k \in Keys, NEW S \in SUBSET Keys,
         \A x \in S : RenamedTo(ps, x) \in S, RenamedTo(ps, k) \in S, k \notin S
  PROVE  k \notin Ahead(ps, k)
  <1>1. \A n \in 1 .. NumKeys : n - 1 \in 0 .. NumKeys
    BY NumKeysNat
  <1>2. \A n \in 1 .. NumKeys : Walk(ps)[n][k] \in S
    BY <1>1, WalkStays, WalkOn
  <1> QED
    BY <1>2 DEF Ahead

-----------------------------------------------------------------------------
(* What the table holds *)

To(k) == RenamedTo(pairs, k)

Entered == IF pc = "enter" THEN Len(pairs) - Len(todo) ELSE Len(pairs)

\* The pairs are a function, todo is the rest of them, and an entry is renamed if
\* its pair was entered; until it is resolved it points to its new name.
TableInv ==
  /\ pc \notin {"parse", "abort"} => parsed = Len(requests)
  /\ \A i, j \in DOMAIN pairs : pairs[i].from = pairs[j].from => i = j
  /\ pc \in {"parse", "enter"} => visited = {}
  /\ pc = "parse" => \A k \in Keys : type[k] = "absent"
  /\ pc = "enter" => /\ Len(todo) <= Len(pairs)
                     /\ \A j \in 1 .. Len(todo) : todo[j] = pairs[Len(pairs) - Len(todo) + j]
  /\ pc \notin {"parse", "abort"} =>
       \A k \in Keys :
          /\ type[k] \in {"indirect", "cycling", "done"} <=>
                \E j \in 1 .. Entered : pairs[j].from = k
          /\ type[k] \in {"indirect", "cycling"} => indirect[k] = To(k)

\* Each call was made for the name that the one before it leads to.
StackInv ==
  /\ \A i \in 1 .. Len(stack) - 1 : To(stack[i]) = stack[i + 1]
  /\ pc = "call" /\ stack # <<>> => To(stack[Len(stack)]) = arg

\* An entry that the loop has been at is resolved when its call returns.
VisitInv ==
  /\ \A k \in visited : type[k] = "indirect" => pc = "call" /\ arg = k
  /\ pc = "done" => \A k \in Keys : type[k] # "absent" => k \in visited

LEMMA RenamedToFirst ==
  ASSUME NEW ps \in Seq(Pair), \A i, j \in DOMAIN ps : ps[i].from = ps[j].from => i = j,
         NEW j \in DOMAIN ps
  PROVE  RenamedTo(ps, ps[j].from) = ps[j].to
  <1>1. (CHOOSE i \in DOMAIN ps : ps[i].from = ps[j].from) = j
    OBVIOUS
  <1> QED
    BY <1>1 DEF RenamedTo

\* Steps that leave the table and the list of pairs alone.
LEMMA TableSame ==
  ASSUME TableInv, UNCHANGED <<requests, parsed, pairs, todo, type, indirect>>,
         pc \notin {"parse", "enter", "abort"}, pc' \notin {"parse", "enter"}
  PROVE  TableInv'
  BY DEF TableInv, Entered, To

LEMMA NextTable ==
  ASSUME IInv, TableInv, [Next]_vars
  PROVE  TableInv'
  <1>0. /\ pairs \in Seq(Pair) /\ todo \in Seq(Pair) /\ requests \in Seq(Pair)
        /\ type \in [Keys -> EntryTypes] /\ indirect \in [Keys -> Keys \cup {NULL}]
        /\ DOMAIN pairs = 1 .. Len(pairs) /\ Len(pairs) \in Nat /\ Len(todo) \in Nat
    BY DEF IInv, TypeOK
  <1>1. CASE arg_data_add_rename
    <2>1. PICK r, ps : r = requests[parsed + 1] /\ ps = pairs
      OBVIOUS
    <2>2. /\ r \in Pair /\ pc = "parse" /\ pc' \in {"parse", "abort"} /\ UNCHANGED <<type, visited>>
      <3>1. r \in Pair
        BY <1>1, <2>1 DEF arg_data_add_rename, IInv, TypeOK
      <3> QED
        BY <1>1, <3>1 DEF arg_data_add_rename, SeriousThen, SeriousErrors
    <2>3. \A i, j \in DOMAIN pairs' : pairs'[i].from = pairs'[j].from => i = j
      <3>1. CASE pairs' = pairs
        BY <3>1 DEF TableInv
      <3>2. CASE pairs' = <<r>> \o ps /\ \A j \in DOMAIN ps : ps[j].from # r.from
        <4>1. /\ DOMAIN (<<r>> \o ps) = 1 .. Len(ps) + 1 /\ Len(ps) \in Nat
              /\ (<<r>> \o ps)[1] = r
              /\ \A i \in 1 .. Len(ps) + 1 : i # 1 => /\ i - 1 \in 1 .. Len(ps)
                                                      /\ (<<r>> \o ps)[i] = ps[i - 1]
          BY <1>0, <2>1
        <4>2. \A i, j \in 1 .. Len(ps) : ps[i].from = ps[j].from => i = j
          BY <1>0, <2>1 DEF TableInv
        <4>3. ASSUME NEW i \in 1 .. Len(ps) + 1, NEW j \in 1 .. Len(ps) + 1,
                     pairs'[i].from = pairs'[j].from
              PROVE  i = j
          <5>1. /\ i = 1 => pairs'[i] = r
                /\ j = 1 => pairs'[j] = r
                /\ i # 1 => i - 1 \in 1 .. Len(ps) /\ pairs'[i] = ps[i - 1]
                /\ j # 1 => j - 1 \in 1 .. Len(ps) /\ pairs'[j] = ps[j - 1]
            BY <3>2, <4>1
          <5>2. \A m \in 1 .. Len(ps) : ps[m].from # r.from
            BY <1>0, <2>1, <3>2
          <5>3. CASE i # 1 /\ j # 1
            <6>1. i - 1 = j - 1
              BY <4>2, <4>3, <5>1, <5>3
            <6> QED
              BY <6>1
          <5>4. CASE i = 1 \/ j = 1
            BY <4>3, <5>1, <5>2, <5>4
          <5> QED
            BY <5>3, <5>4
        <4> QED
          BY <3>2, <4>1, <4>3
      <3> QED
        BY <1>1, <2>1, <3>1, <3>2 DEF arg_data_add_rename
    <2> QED
      BY <2>2, <2>3 DEF TableInv
  <1>2. CASE StartRename
    <2>1. pc = "parse" /\ pc' = "enter" /\ todo' = pairs /\ parsed' = Len(requests)
          /\ UNCHANGED <<requests, pairs, type, visited>>
      BY <1>2 DEF StartRename
    <2>2. \A k \in Keys : type[k] = "absent"
      BY <2>1 DEF TableInv
    <2>3. Entered' = 0
      BY <1>0, <2>1 DEF Entered
    <2> QED
      BY <1>0, <2>1, <2>2, <2>3 DEF TableInv
  <1>3. CASE name_table_add_rename
    <2>1. PICK r, q : r = Head(todo) /\ q = todo
      OBVIOUS
    <2>2. /\ pc = "enter" /\ pc' = "enter" /\ q # <<>> /\ todo' = Tail(q)
          /\ UNCHANGED <<requests, parsed, pairs, visited>>
      BY <1>3, <2>1 DEF name_table_add_rename
    <2>3. /\ q[1] = r /\ r \in Pair /\ Len(q) \in Nat \ {0} /\ Len(Tail(q)) = Len(q) - 1
          /\ \A j \in 1 .. Len(Tail(q)) : Tail(q)[j] = q[j + 1]
      BY <1>0, <2>1, <2>2
    <2>4. r.from \in Keys /\ r.to \in Keys
      BY <2>3 DEF Pair
    <2>5. \A k \in Keys :
            /\ indirect'[k] = IF k = r.from THEN r.to ELSE indirect[k]
            /\ type'[k] = IF k = r.from THEN "indirect"
                          ELSE IF k = r.to /\ type[k] = "absent" THEN "place" ELSE type[k]
      BY <1>0, <1>3, <2>1, <2>4 DEF name_table_add_rename
    <2> DEFINE n == Len(pairs) - Len(q) + 1
    <2>6. /\ Len(q) <= Len(pairs) /\ \A j \in 1 .. Len(q) : q[j] = pairs[Len(pairs) - Len(q) + j]
          /\ Entered = n - 1
      BY <1>0, <2>1, <2>2, <2>3 DEF TableInv, Entered
    <2>7. /\ Entered' = n /\ n \in DOMAIN pairs /\ pairs[n] = r /\ Len(todo') <= Len(pairs)
          /\ \A j \in 1 .. Len(todo') : todo'[j] = pairs[Len(pairs) - Len(todo') + j]
      <3>1. Entered' = Len(pairs) - Len(Tail(q))
        BY <2>2 DEF Entered
      <3>2. 1 \in 1 .. Len(q) /\ Len(pairs) - Len(q) + 1 \in 1 .. Len(pairs)
        BY <1>0, <2>3, <2>6
      <3>3. ASSUME NEW j \in 1 .. Len(Tail(q))
            PROVE  Tail(q)[j] = pairs[Len(pairs) - Len(Tail(q)) + j]
        <4>1. j + 1 \in 1 .. Len(q)
              /\ Len(pairs) - Len(Tail(q)) + j = Len(pairs) - Len(q) + (j + 1)
          BY <1>0, <2>3
        <4> QED
          BY <2>3, <2>6, <4>1
      <3>4. Entered' = n /\ Len(Tail(q)) <= Len(pairs)
        BY <1>0, <2>3, <2>6, <3>1
      <3>5. pairs[n] = r /\ n \in DOMAIN pairs
        BY <1>0, <2>3, <2>6, <3>2
      <3> QED
        BY <2>2, <3>3, <3>4, <3>5
    <2>8. To(r.from) = r.to /\ \A k : To(k)' = To(k)
      <3>1. \A i, j \in DOMAIN pairs : pairs[i].from = pairs[j].from => i = j
        BY DEF TableInv
      <3> HIDE DEF n
      <3>2. RenamedTo(pairs, pairs[n].from) = pairs[n].to
        BY <1>0, <2>7, <3>1, RenamedToFirst
      <3> QED
        BY <2>2, <2>7, <3>2 DEF To
    <2>9. ASSUME NEW k \in Keys
          PROVE  (\E j \in 1 .. n : pairs[j].from = k) <=>
                   (k = r.from \/ \E j \in 1 .. n - 1 : pairs[j].from = k)
      <3>1. n \in Nat \ {0}
        BY <1>0, <2>7
      <3> HIDE DEF n
      <3>2. \A j \in 1 .. n : j = n \/ j \in 1 .. n - 1
        BY <3>1
      <3>3. \A j \in 1 .. n - 1 : j \in 1 .. n
        BY <3>1
      <3> QED
        BY <2>7, <3>1, <3>2, <3>3
    <2>10. ASSUME NEW k \in Keys
           PROVE  /\ type'[k] \in {"indirect", "cycling", "done"} <=>
                        \E j \in 1 .. n : pairs[j].from = k
                  /\ type'[k] \in {"indirect", "cycling"} => indirect'[k] = To(k)
      <3>1. /\ type[k] \in {"indirect", "cycling", "done"} <=>
                 \E j \in 1 .. n - 1 : pairs[j].from = k
            /\ type[k] \in {"indirect", "cycling"} => indirect[k] = To(k)
        BY <2>2, <2>6 DEF TableInv
      <3> HIDE DEF n
      <3> QED
        BY <2>5, <2>8, <2>9, <3>1
    <2> HIDE DEF n
    <2> QED
      BY <2>2, <2>7, <2>8, <2>10 DEF TableInv
  <1>4. CASE StartResolve
    <2>1. pc = "enter" /\ pc' = "scan" /\ todo = <<>>
          /\ UNCHANGED <<requests, parsed, pairs, type, indirect>>
      BY <1>4 DEF StartResolve
    <2>2. Entered' = Entered
      BY <1>0, <2>1 DEF Entered
    <2> QED
      BY <2>1, <2>2 DEF TableInv, To
  <1>5. CASE (\E k \in Keys : ScanEntry(k)) \/ EndScan \/ CallReturns \/ ReturnOuter
    <2>1. /\ pc \in {"scan", "call", "return"} /\ pc' \in {"call", "done", "return", "abort", "scan"}
          /\ UNCHANGED <<requests, parsed, pairs, todo, type, indirect>>
      BY <1>5 DEF ScanEntry, EndScan, CallReturns, ReturnOuter, SeriousThen, SeriousErrors
    <2> QED
      BY <2>1, TableSame
  <1>6. CASE CallRecurses
    <2>1. /\ pc = "call" /\ pc' = pc /\ arg \in Keys /\ type[arg] = "indirect"
          /\ UNCHANGED <<requests, parsed, pairs, indirect>>
      BY <1>6 DEF CallRecurses, IInv, Progress
    <2>2. \A k \in Keys : type'[k] = IF k = arg THEN "cycling" ELSE type[k]
      BY <1>0, <1>6 DEF CallRecurses
    <2>3. Entered' = Entered /\ \A k : To(k)' = To(k)
      BY <2>1 DEF Entered, To
    <2> QED
      BY <2>1, <2>2, <2>3 DEF TableInv
  <1>7. CASE ReturnInner
    <2>1. PICK t : t = stack[Len(stack)]
      OBVIOUS
    <2>2. t \in Keys /\ type[t] = "cycling"
      <3>1. stack \in Seq(Keys) /\ stack # <<>>
        BY <1>7 DEF ReturnInner, IInv, TypeOK
      <3>2. Len(stack) \in DOMAIN stack
        BY <3>1
      <3> QED
        BY <2>1, <3>1, <3>2 DEF IInv, CyclingIsOnStack
    <2>3. /\ pc = "return" /\ pc' = pc /\ UNCHANGED <<requests, parsed, pairs>>
          /\ \A k \in Keys : /\ type'[k] = IF k = t THEN "done" ELSE type[k]
                             /\ k # t => indirect'[k] = indirect[k]
      BY <1>0, <1>7, <2>1 DEF ReturnInner
    <2>4. Entered' = Entered /\ \A k : To(k)' = To(k)
      BY <2>3 DEF Entered, To
    <2> QED
      BY <2>2, <2>3, <2>4 DEF TableInv
  <1>8. CASE UNCHANGED vars
    BY <1>8 DEF vars, TableInv, Entered, To
  <1> QED
    BY <1>1, <1>2, <1>3, <1>4, <1>5, <1>6, <1>7, <1>8 DEF Next, Step, Terminated

LEMMA NextVisit ==
  ASSUME IInv, TableInv, VisitInv, [Next]_vars
  PROVE  VisitInv'
  <1>0. type \in [Keys -> EntryTypes] /\ visited \subseteq Keys
    BY DEF IInv, TypeOK
  <1>1. CASE arg_data_add_rename \/ StartRename \/ name_table_add_rename \/ StartResolve
    <2>1. visited' = {} /\ pc' # "done"
      BY <1>1 DEF arg_data_add_rename, StartRename, name_table_add_rename, StartResolve, TableInv,
                  SeriousThen, SeriousErrors
    <2> QED
      BY <2>1 DEF VisitInv
  <1>2. ASSUME NEW k \in Keys, ScanEntry(k) PROVE VisitInv'
    BY <1>2 DEF ScanEntry, VisitInv
  <1>3. CASE EndScan
    BY <1>3 DEF EndScan, VisitInv
  <1>4. CASE CallReturns
    <2>1. /\ type[arg] # "indirect" /\ pc' \in {"return", "abort"} /\ UNCHANGED <<type, visited>>
      BY <1>4 DEF CallReturns, SeriousThen, SeriousErrors
    <2> QED
      BY <2>1 DEF VisitInv
  <1>5. CASE CallRecurses
    <2>1. /\ pc = "call" /\ pc' = "call" /\ visited' = visited
          /\ \A k \in Keys : type'[k] = IF k = arg THEN "cycling" ELSE type[k]
      BY <1>0, <1>5 DEF CallRecurses
    <2> QED
      BY <1>0, <2>1 DEF VisitInv
  <1>6. CASE ReturnInner
    <2>1. /\ pc = "return" /\ pc' = "return" /\ visited' = visited
          /\ \A k \in Keys : type'[k] \in {"done", type[k]}
      BY <1>0, <1>6 DEF ReturnInner
    <2> QED
      BY <1>0, <2>1 DEF VisitInv
  <1>7. CASE ReturnOuter
    BY <1>7 DEF ReturnOuter, VisitInv
  <1>8. CASE UNCHANGED vars
    BY <1>8 DEF vars, VisitInv
  <1> QED
    BY <1>1, <1>2, <1>3, <1>4, <1>5, <1>6, <1>7, <1>8 DEF Next, Step, Terminated

\* The facts about the last call that most steps need.
LEMMA StackFacts ==
  ASSUME IInv
  PROVE  /\ DOMAIN stack = 1 .. Len(stack) /\ Len(stack) \in Nat
         /\ \A j \in 1 .. Len(stack) : stack[j] \in Keys /\ type[stack[j]] = "cycling"
         /\ \A i, j \in 1 .. Len(stack) : stack[i] = stack[j] => i = j
         /\ stack # <<>> => Len(stack) \in 1 .. Len(stack)
  <1>1. stack \in Seq(Keys)
    BY DEF IInv, TypeOK
  <1> QED
    BY <1>1 DEF IInv, CyclingIsOnStack

LEMMA NextStack ==
  ASSUME IInv, TableInv, StackInv, [Next]_vars
  PROVE  StackInv'
  <1>0. stack \in Seq(Keys) /\ Len(stack) \in Nat /\ DOMAIN stack = 1 .. Len(stack)
    BY StackFacts DEF IInv, TypeOK
  <1>1. CASE arg_data_add_rename \/ StartRename \/ name_table_add_rename \/ StartResolve
    <2>1. stack' = <<>>
      BY <1>1 DEF arg_data_add_rename, StartRename, name_table_add_rename, StartResolve, IInv,
                  Progress
    <2> QED
      BY <2>1 DEF StackInv
  <1>2. CASE (\E k \in Keys : ScanEntry(k)) \/ EndScan
    <2>1. stack' = <<>>
      BY <1>2 DEF ScanEntry, EndScan, IInv, Progress
    <2> QED
      BY <2>1 DEF StackInv
  <1>3. CASE CallReturns \/ ReturnOuter
    <2>1. pc' # "call" /\ UNCHANGED <<stack, pairs>>
      BY <1>3 DEF CallReturns, ReturnOuter, SeriousThen, SeriousErrors
    <2> QED
      BY <2>1 DEF StackInv, To
  <1>4. CASE CallRecurses
    <2>1. PICK s, a : s = stack /\ a = arg
      OBVIOUS
    <2>2. /\ stack' = Append(s, a) /\ arg' = To(a) /\ pairs' = pairs /\ pc = "call" /\ a \in Keys
      BY <1>4, <2>1 DEF CallRecurses, TableInv, IInv, Progress
    <2>3. /\ Len(Append(s, a)) = Len(s) + 1 /\ Append(s, a)[Len(s) + 1] = a
          /\ \A i \in 1 .. Len(s) : Append(s, a)[i] = s[i]
      BY <1>0, <2>1, <2>2
    <2>4. \A k : To(k)' = To(k)
      BY <2>2 DEF To
    <2>5. ASSUME NEW i \in 1 .. Len(s) PROVE To(Append(s, a)[i]) = Append(s, a)[i + 1]
      <3>1. CASE i = Len(s)
        <4>1. s # <<>>
          BY <3>1
        <4> QED
          BY <2>1, <2>2, <2>3, <3>1, <4>1 DEF StackInv
      <3>2. CASE i # Len(s)
        <4>1. i \in 1 .. Len(s) - 1 /\ i + 1 \in 1 .. Len(s)
          <5>1. Len(s) \in Nat /\ i \in Int
            BY <1>0, <2>1
          <5> QED
            BY <3>2, <5>1
        <4> QED
          BY <2>1, <2>3, <4>1 DEF StackInv
      <3> QED
        BY <3>1, <3>2
    <2>6. Len(s) + 1 - 1 = Len(s)
      BY <1>0, <2>1
    <2>7. /\ \A i \in 1 .. Len(Append(s, a)) - 1 : To(Append(s, a)[i]) = Append(s, a)[i + 1]
          /\ To(Append(s, a)[Len(Append(s, a))]) = arg'
      BY <2>2, <2>3, <2>5, <2>6
    <2> QED
      BY <2>2, <2>4, <2>7 DEF StackInv
  <1>5. CASE ReturnInner
    <2>1. PICK s : s = stack
      OBVIOUS
    <2>2. /\ pc' = "return" /\ pairs' = pairs /\ stack' = SubSeq(s, 1, Len(s) - 1)
          /\ Len(s) \in Nat \ {0}
      BY <1>0, <1>5, <2>1 DEF ReturnInner
    <2>3. /\ Len(SubSeq(s, 1, Len(s) - 1)) = Len(s) - 1
          /\ \A i \in 1 .. Len(s) - 1 : SubSeq(s, 1, Len(s) - 1)[i] = s[i]
      BY <1>0, <2>1, <2>2
    <2>4. \A i \in 1 .. Len(s) - 2 : To(stack'[i]) = stack'[i + 1]
      <3>1. \A i \in 1 .. Len(s) - 2 : i \in 1 .. Len(s) - 1 /\ i + 1 \in 1 .. Len(s) - 1
        BY <2>2
      <3> QED
        BY <2>1, <2>2, <2>3, <3>1 DEF StackInv
    <2>5. Len(stack') - 1 = Len(s) - 2
      BY <2>2, <2>3
    <2> QED
      BY <2>2, <2>4, <2>5 DEF StackInv, To
  <1>6. CASE UNCHANGED vars
    BY <1>6 DEF vars, StackInv, To
  <1> QED
    BY <1>1, <1>2, <1>3, <1>4, <1>5, <1>6 DEF Next, Step, Terminated

-----------------------------------------------------------------------------
(* What is resolved *)

Done == {k \in Keys : type[k] = "done"}

\* The name p is reached from k without passing more names than are resolved.
Reaches(k, p) == \E n \in 0 .. Cardinality(Done) : Walk(pairs)[n][k] = p

\* A resolved entry names the end of its chain; so does the call that returns.
DoneInv ==
  /\ \A k \in Done : indirect[k] # NULL => Reaches(k, indirect[k])
  /\ pc = "return" /\ stack # <<>> /\ ret # NULL => Reaches(To(stack[Len(stack)]), ret)

\* The entries that are nil, and those that will be when the calls return.
Doomed ==
  {k \in Done : indirect[k] = NULL}
  \cup (IF pc = "return" /\ ret = NULL THEN {stack[j] : j \in DOMAIN stack} ELSE {})

DoomInv == \A k \in Doomed : To(k) \in Doomed

LEMMA DoneFinite ==
  IsFiniteSet(Done) /\ Cardinality(Done) \in Nat /\ Cardinality(Done) <= NumKeys
  <1>1. Done \subseteq Keys
    BY DEF Done
  <1> QED
    BY <1>1, NumKeysNat, FS_Subset, FS_CardinalityType DEF NumKeys

LEMMA DoneSame ==
  ASSUME DoneInv, UNCHANGED <<pairs, type, indirect>>, pc' # "return"
  PROVE  DoneInv'
  <1>1. Done' = Done
    BY DEF Done
  <1>2. \A k, p : Reaches(k, p)' <=> Reaches(k, p)
    BY <1>1 DEF Reaches
  <1> QED
    BY <1>1, <1>2 DEF DoneInv

LEMMA NextDone ==
  ASSUME IInv, TableInv, StackInv, DoneInv, [Next]_vars
  PROVE  DoneInv'
  <1>0. /\ pairs \in Seq(Pair) /\ type \in [Keys -> EntryTypes]
        /\ indirect \in [Keys -> Keys \cup {NULL}] /\ NumKeys \in Nat
    BY NumKeysNat DEF IInv, TypeOK
  <1>1. CASE arg_data_add_rename \/ name_table_add_rename
    <2>1. pc' # "return" /\ Done' = {}
      <3>1. CASE arg_data_add_rename
        BY <3>1 DEF arg_data_add_rename, SeriousThen, SeriousErrors, Done, IInv, Progress
      <3>2. CASE name_table_add_rename
        <4>1. pc' = "enter" /\ IInv'
          BY <3>2, NextIInv DEF name_table_add_rename
        <4> QED
          BY <4>1 DEF IInv, Progress, Done
      <3> QED
        BY <1>1, <3>1, <3>2
    <2> QED
      BY <2>1 DEF DoneInv
  <1>2. CASE StartRename \/ StartResolve \/ (\E k \in Keys : ScanEntry(k)) \/ EndScan \/ ReturnOuter
    <2>1. UNCHANGED <<pairs, type, indirect>> /\ pc' # "return"
      BY <1>2 DEF StartRename, StartResolve, ScanEntry, EndScan, ReturnOuter
    <2> QED
      BY <2>1, DoneSame
  <1>3. CASE CallReturns
    <2>1. UNCHANGED <<pairs, type, indirect, stack, arg>> /\ pc = "call" /\ arg \in Keys
      BY <1>3 DEF CallReturns, IInv, Progress
    <2>2. Done' = Done /\ (\A k, p : Reaches(k, p)' <=> Reaches(k, p)) /\ \A k : To(k)' = To(k)
      BY <2>1 DEF Done, Reaches, To
    <2>3. ASSUME stack # <<>>, ret' # NULL PROVE Reaches(To(stack[Len(stack)]), ret')
      <3>1. To(stack[Len(stack)]) = arg
        BY <2>1, <2>3 DEF StackInv
      <3>2. CASE type[arg] = "place"
        <4>1. ret' = arg /\ Walk(pairs)[0][arg] = arg
          BY <1>0, <1>3, <2>1, <3>2, WalkRows DEF CallReturns
        <4>2. 0 \in 0 .. Cardinality(Done)
          BY DoneFinite
        <4> QED
          BY <3>1, <4>1, <4>2 DEF Reaches
      <3>3. CASE type[arg] = "done"
        <4>1. ret' = indirect[arg] /\ arg \in Done
          BY <1>3, <2>1, <3>3 DEF CallReturns, Done
        <4> QED
          BY <2>3, <3>1, <4>1 DEF DoneInv
      <3> QED
        BY <1>3, <2>3, <3>2, <3>3 DEF CallReturns
    <2> QED
      BY <2>1, <2>2, <2>3 DEF DoneInv
  <1>4. CASE CallRecurses
    <2>1. UNCHANGED <<pairs, indirect>> /\ pc' = "call" /\ Done' = Done
      BY <1>0, <1>4 DEF CallRecurses, Done
    <2>2. \A k, p : Reaches(k, p)' <=> Reaches(k, p)
      BY <2>1 DEF Reaches
    <2> QED
      BY <2>1, <2>2 DEF DoneInv
  <1>5. CASE ReturnInner
    <2>1. PICK s, t, l : s = stack /\ t = stack[Len(stack)] /\ l = Len(stack)
      OBVIOUS
    <2>2. /\ pc = "return" /\ s # <<>> /\ stack' = SubSeq(s, 1, l - 1) /\ UNCHANGED <<pairs, ret>>
          /\ s \in Seq(Keys) /\ l \in Nat \ {0} /\ t \in Keys /\ type[t] = "cycling"
      BY <1>5, <2>1, StackFacts DEF ReturnInner, IInv, TypeOK
    <2>3. /\ \A k \in Keys : /\ type'[k] = IF k = t THEN "done" ELSE type[k]
                             /\ indirect'[k] = IF k = t THEN ret ELSE indirect[k]
      BY <1>0, <1>5, <2>1, <2>2 DEF ReturnInner
    <2>4. Done' = Done \cup {t} /\ t \notin Done
      BY <2>2, <2>3 DEF Done
    <2>5. Cardinality(Done') = Cardinality(Done) + 1 /\ Cardinality(Done) \in Nat
          /\ Cardinality(Done) + 1 <= NumKeys
      <3>1. Cardinality(Done') = Cardinality(Done) + 1 /\ Cardinality(Done) \in Nat
        BY <2>4, DoneFinite, FS_AddElement
      <3>2. Done' \subseteq Keys
        BY DEF Done
      <3>3. Cardinality(Done') <= NumKeys
        BY <3>2, NumKeysNat, FS_Subset DEF NumKeys
      <3> QED
        BY <3>1, <3>3
    <2>6. \A k, p : Reaches(k, p) => Reaches(k, p)'
      BY <2>2, <2>5 DEF Reaches
    <2>7. ASSUME NEW p, p = ret, p # NULL PROVE Reaches(t, p)'
      <3>1. PICK n \in 0 .. Cardinality(Done) : Walk(pairs)[n][To(t)] = p
        BY <2>1, <2>2, <2>7 DEF DoneInv, Reaches
      <3>2. PICK m : m = n + 1
        OBVIOUS
      <3>3. m \in 1 .. NumKeys /\ m - 1 = n /\ m \in 0 .. Cardinality(Done')
        BY <1>0, <2>5, <3>2
      <3>4. Walk(pairs)[m][t] = Walk(pairs)[m - 1][RenamedTo(pairs, t)]
        BY <1>0, <2>2, <3>3, WalkOn
      <3>5. Walk(pairs)[m][t] = p
        BY <3>1, <3>3, <3>4 DEF To
      <3> QED
        BY <2>2, <3>3, <3>5 DEF Reaches
    <2>8. ASSUME stack' # <<>> PROVE To(stack'[Len(stack')]) = t
      <3>1. Len(stack') = l - 1
        BY <2>1, <2>2
      <3>2. l - 1 \in 1 .. l - 1 /\ l - 1 + 1 = l
        BY <2>2, <2>8, <3>1
      <3>3. stack'[l - 1] = s[l - 1]
        BY <2>1, <2>2, <3>2
      <3> QED
        BY <2>1, <3>1, <3>2, <3>3 DEF StackInv
    <2>9. \A k : To(k)' = To(k)
      BY <2>2 DEF To
    <2>10. ASSUME NEW k \in Done', NEW p, p = indirect'[k], p # NULL PROVE Reaches(k, p)'
      <3>1. k \in Keys
        BY DEF Done
      <3>2. CASE k = t
        <4>1. p = ret
          BY <2>3, <2>10, <3>1, <3>2
        <4> QED
          BY <2>7, <2>10, <3>2, <4>1
      <3>3. CASE k # t
        <4>1. p = indirect[k] /\ k \in Done
          BY <2>3, <2>4, <2>10, <3>1, <3>3
        <4> QED
          BY <2>6, <2>10, <4>1 DEF DoneInv
      <3> QED
        BY <3>2, <3>3
    <2>11. ASSUME stack' # <<>>, ret' # NULL, NEW k, k = To(stack'[Len(stack')]), NEW p, p = ret'
           PROVE  Reaches(k, p)'
      BY <2>2, <2>7, <2>8, <2>11
    <2> QED
      BY <2>2, <2>9, <2>10, <2>11 DEF DoneInv
  <1>6. CASE UNCHANGED vars
    <2>1. UNCHANGED <<pairs, type, indirect, pc, stack, ret>>
      BY <1>6 DEF vars
    <2>2. Done' = Done /\ (\A k, p : Reaches(k, p)' <=> Reaches(k, p)) /\ \A k : To(k)' = To(k)
      BY <2>1 DEF Done, Reaches, To
    <2> QED
      BY <2>1, <2>2 DEF DoneInv
  <1> QED
    BY <1>1, <1>2, <1>3, <1>4, <1>5, <1>6 DEF Next, Step, Terminated

-----------------------------------------------------------------------------
(* Names that lead into a cycle *)

OnStack == {stack[j] : j \in DOMAIN stack}

\* More names are doomed only when a call returns nil to calls that are not finished:
\* the name that it was made for is being resolved, or is nil already.
DoomStep ==
  \/ Doomed' = {} /\ Doomed = {}
  \/ Doomed' = Doomed /\ pairs' = pairs
  \/ /\ CallReturns /\ arg \in Keys /\ ret' = NULL /\ pc' = "return" /\ pairs' = pairs
     /\ Doomed = {k \in Done : indirect[k] = NULL} /\ Doomed' = Doomed \cup OnStack
     /\ type[arg] = "cycling" \/ arg \in Doomed

LEMMA DoomSteps ==
  ASSUME IInv, TableInv, [Next]_vars
  PROVE  DoomStep
  <1>0. type \in [Keys -> EntryTypes] /\ indirect \in [Keys -> Keys \cup {NULL}] /\ NULL \notin Keys
    BY RenamesAssumption DEF IInv, TypeOK
  <1> DEFINE Nil == {k \in Done : indirect[k] = NULL}
  <1>1. CASE arg_data_add_rename \/ StartRename \/ name_table_add_rename \/ StartResolve
    <2>1. /\ pc \in {"parse", "enter"} /\ pc' # "return"
          /\ \A k \in Keys : type[k] # "done" /\ type'[k] # "done"
      <3>1. CASE name_table_add_rename
        <4>1. pc = "enter" /\ pc' = "enter" /\ IInv'
          BY <3>1, NextIInv DEF name_table_add_rename
        <4> QED
          BY <4>1 DEF IInv, Progress
      <3>2. CASE arg_data_add_rename \/ StartRename \/ StartResolve
        <4>1. pc \in {"parse", "enter"} /\ pc' # "return" /\ type' = type
          BY <3>2 DEF arg_data_add_rename, StartRename, StartResolve, SeriousThen, SeriousErrors
        <4> QED
          BY <4>1 DEF IInv, Progress
      <3> QED
        BY <1>1, <3>1, <3>2
    <2> QED
      BY <2>1 DEF Doomed, Done, DoomStep
  <1>2. CASE (\E k \in Keys : ScanEntry(k)) \/ EndScan
    <2>1. pc = "scan" /\ pc' \in {"call", "done"} /\ UNCHANGED <<pairs, type, indirect>>
      BY <1>2 DEF ScanEntry, EndScan
    <2> QED
      BY <2>1 DEF Doomed, Done, DoomStep
  <1>3. CASE CallReturns
    <2>1. /\ pc = "call" /\ arg \in Keys /\ UNCHANGED <<pairs, type, indirect, stack>>
          /\ type[arg] \in {"place", "done", "cycling"}
          /\ ret' = CASE type[arg] = "place" -> arg
                      [] type[arg] = "done" -> indirect[arg]
                      [] OTHER -> NULL
      BY <1>3 DEF CallReturns, IInv, Progress
    <2>2. Doomed = Nil /\ Done' = Done
      BY <2>1 DEF Doomed, Done
    <2>3. CASE pc' = "return" /\ ret' = NULL
      <3>1. type[arg] = "cycling" \/ arg \in Nil
        BY <1>0, <2>1, <2>3 DEF Done
      <3>2. Doomed' = Nil \cup OnStack
        BY <2>1, <2>2, <2>3 DEF Doomed, OnStack
      <3> QED
        BY <1>3, <2>1, <2>2, <2>3, <3>1, <3>2 DEF DoomStep
    <2>4. CASE ~(pc' = "return" /\ ret' = NULL)
      <3>1. Doomed' = Nil
        BY <2>1, <2>2, <2>4 DEF Doomed
      <3> QED
        BY <2>1, <2>2, <3>1 DEF DoomStep
    <2> QED
      BY <2>3, <2>4
  <1>4. CASE CallRecurses
    <2>1. pc = "call" /\ pc' = "call" /\ UNCHANGED <<pairs, indirect>> /\ Done' = Done
      BY <1>0, <1>4 DEF CallRecurses, Done
    <2> QED
      BY <2>1 DEF Doomed, DoomStep
  <1>5. CASE ReturnInner
    <2>1. PICK s, t, l : s = stack /\ t = stack[Len(stack)] /\ l = Len(stack)
      OBVIOUS
    <2>2. /\ pc = "return" /\ pc' = "return" /\ s # <<>> /\ stack' = SubSeq(s, 1, l - 1)
          /\ UNCHANGED <<pairs, ret>>
          /\ s \in Seq(Keys) /\ l \in Nat \ {0} /\ t \in Keys /\ type[t] = "cycling"
      BY <1>5, <2>1, StackFacts DEF ReturnInner, IInv, TypeOK
    <2>3. \A k \in Keys : /\ type'[k] = IF k = t THEN "done" ELSE type[k]
                          /\ indirect'[k] = IF k = t THEN ret ELSE indirect[k]
      BY <1>0, <1>5, <2>1, <2>2 DEF ReturnInner
    <2>4. Done' = Done \cup {t} /\ t \notin Done /\ Done \subseteq Keys
      BY <2>2, <2>3 DEF Done
    <2>5. OnStack = OnStack' \cup {t}
      <3>1. /\ DOMAIN s = 1 .. l /\ DOMAIN SubSeq(s, 1, l - 1) = 1 .. l - 1
            /\ \A j \in 1 .. l - 1 : SubSeq(s, 1, l - 1)[j] = s[j]
        BY <2>1, <2>2
      <3>2. \A j \in 1 .. l : j = l \/ j \in 1 .. l - 1
        BY <2>2
      <3>3. l \in 1 .. l /\ \A j \in 1 .. l - 1 : j \in 1 .. l
        BY <2>2
      <3> QED
        BY <2>1, <2>2, <3>1, <3>2, <3>3 DEF OnStack
    <2>6. CASE ret = NULL
      <3>1. {k \in Done' : indirect'[k] = NULL} = Nil \cup {t}
        BY <2>2, <2>3, <2>4, <2>6
      <3>2. Doomed = Nil \cup OnStack
        BY <2>2, <2>6 DEF Doomed, OnStack
      <3>3. Doomed' = {k \in Done' : indirect'[k] = NULL} \cup OnStack'
        BY <2>2, <2>6 DEF Doomed, OnStack
      <3> QED
        BY <2>2, <2>5, <3>1, <3>2, <3>3 DEF DoomStep
    <2>7. CASE ret # NULL
      <3>1. {k \in Done' : indirect'[k] = NULL} = Nil
        BY <2>2, <2>3, <2>4, <2>7
      <3> QED
        BY <2>2, <2>7, <3>1 DEF Doomed, DoomStep
    <2> QED
      BY <2>6, <2>7
  <1>6. CASE ReturnOuter
    <2>1. pc = "return" /\ pc' = "scan" /\ stack = <<>> /\ UNCHANGED <<pairs, type, indirect>>
      BY <1>6 DEF ReturnOuter
    <2>2. Doomed = Nil /\ Doomed' = Nil
      BY <2>1 DEF Doomed, Done
    <2> QED
      BY <2>1, <2>2 DEF DoomStep
  <1>7. CASE UNCHANGED vars
    BY <1>7 DEF vars, Doomed, Done, DoomStep
  <1> QED
    BY <1>1, <1>2, <1>3, <1>4, <1>5, <1>6, <1>7 DEF Next, Step, Terminated

\* Whoever leads to a cycle that is being closed, or to a nil entry, is doomed.
LEMMA StackLeadsOn ==
  ASSUME IInv, StackInv, pc = "call", NEW i \in 1 .. Len(stack)
  PROVE  /\ i # Len(stack) => i + 1 \in 1 .. Len(stack) /\ To(stack[i]) = stack[i + 1]
         /\ i = Len(stack) => To(stack[i]) = arg
  <1>1. Len(stack) \in Nat /\ stack # <<>>
    BY StackFacts
  <1>2. i # Len(stack) => i \in 1 .. Len(stack) - 1 /\ i + 1 \in 1 .. Len(stack)
    BY <1>1
  <1> QED
    BY <1>1, <1>2 DEF StackInv

LEMMA NextDoom ==
  ASSUME IInv, TableInv, StackInv, DoomInv, [Next]_vars
  PROVE  DoomInv'
  <1>1. CASE Doomed' = {} \/ (Doomed' = Doomed /\ pairs' = pairs)
    BY <1>1 DEF DoomInv, To
  <1>2. CASE /\ CallReturns /\ arg \in Keys /\ pairs' = pairs
             /\ Doomed' = Doomed \cup OnStack /\ (type[arg] = "cycling" \/ arg \in Doomed)
    <2>1. pc = "call" /\ DOMAIN stack = 1 .. Len(stack)
      BY <1>2, StackFacts DEF CallReturns
    <2>2. arg \in Doomed \cup OnStack
      BY <1>2 DEF OnStack, IInv, CyclingIsOnStack
    <2>3. ASSUME NEW j \in 1 .. Len(stack) PROVE To(stack[j]) \in Doomed \cup OnStack
      BY <2>1, <2>2, StackLeadsOn DEF OnStack
    <2>4. \A k \in Doomed \cup OnStack : To(k) \in Doomed \cup OnStack
      BY <2>1, <2>3 DEF DoomInv, OnStack
    <2> QED
      BY <1>2, <2>4 DEF DoomInv, To
  <1> QED
    BY <1>1, <1>2, DoomSteps DEF DoomStep

RenameInv == IInv /\ TableInv /\ StackInv /\ VisitInv /\ DoneInv /\ DoomInv

LEMMA InitRename == Init => RenameInv
  <1> SUFFICES ASSUME Init PROVE RenameInv
    OBVIOUS
  <1>1. TableInv /\ StackInv /\ VisitInv
    BY DEF Init, TableInv, StackInv, VisitInv
  <1>2. Done = {} /\ Doomed = {}
    BY DEF Init, Done, Doomed
  <1>3. DoneInv /\ DoomInv
    BY <1>2 DEF Init, DoneInv, DoomInv
  <1> QED
    BY <1>1, <1>3, InitIInv DEF RenameInv

LEMMA NextRename == RenameInv /\ [Next]_vars => RenameInv'
  BY NextIInv, NextTable, NextStack, NextVisit, NextDone, NextDoom DEF RenameInv

LEMMA DoomedKeys == IInv => Doomed \subseteq Keys
  BY StackFacts DEF Doomed, Done

\* What the table says when it has been resolved.
LEMMA TableAtEnd ==
  ASSUME RenameInv, pc = "done", NEW k \in Keys
  PROVE  /\ type[k] = "done" <=> IsRenamed(pairs, k)
         /\ type[k] \in {"absent", "place", "done"}
         /\ k \in Doomed <=> type[k] = "done" /\ indirect[k] = NULL
         /\ type[k] = "done" /\ indirect[k] = NULL => FinalName(pairs, k) = NULL
         /\ type[k] = "done" /\ indirect[k] # NULL =>
              FinalName(pairs, k) = indirect[k] /\ ~IsRenamed(pairs, Walk(pairs)[NumKeys][k])
  <1>0. /\ pairs \in Seq(Pair) /\ type \in [Keys -> EntryTypes] /\ NumKeys \in Nat
        /\ indirect \in [Keys -> Keys \cup {NULL}] /\ stack = <<>>
    BY NumKeysNat DEF RenameInv, IInv, TypeOK, Progress
  <1>1. ASSUME NEW x \in Keys
        PROVE  /\ type[x] \in {"absent", "place", "done"}
               /\ type[x] = "done" <=> IsRenamed(pairs, x)
    <2>1. type[x] # "cycling" /\ type[x] # "indirect"
      BY <1>0 DEF RenameInv, IInv, CyclingIsOnStack, VisitInv
    <2>2. type[x] \in {"indirect", "cycling", "done"} <=> IsRenamed(pairs, x)
      BY <1>0 DEF RenameInv, TableInv, Entered, IsRenamed
    <2> QED
      BY <1>0, <2>1, <2>2 DEF EntryTypes
  <1>2. \A x \in Keys : x \in Doomed <=> type[x] = "done" /\ indirect[x] = NULL
    BY <1>0 DEF Doomed, Done
  <1>3. FinalName(pairs, k) = IF IsRenamed(pairs, Walk(pairs)[NumKeys][k]) THEN NULL
                              ELSE Walk(pairs)[NumKeys][k]
    BY DEF FinalName, NumKeys
  <1>4. ASSUME type[k] = "done", indirect[k] = NULL PROVE FinalName(pairs, k) = NULL
    <2>1. Doomed \in SUBSET Keys /\ k \in Doomed /\ NumKeys \in 0 .. NumKeys
      BY <1>0, <1>2, <1>4, DoomedKeys DEF RenameInv
    <2>2. \A x \in Doomed : RenamedTo(pairs, x) \in Doomed
      BY DEF RenameInv, DoomInv, To
    <2>3. Walk(pairs)[NumKeys][k] \in Doomed
      BY <1>0, <2>1, <2>2, WalkStays
    <2> QED
      BY <1>1, <1>2, <1>3, <2>1, <2>3
  <1>5. ASSUME type[k] = "done", indirect[k] # NULL
        PROVE  FinalName(pairs, k) = indirect[k] /\ ~IsRenamed(pairs, Walk(pairs)[NumKeys][k])
    <2>1. indirect[k] \in Keys /\ type[indirect[k]] = "place"
      BY <1>0, <1>5 DEF RenameInv, IInv, ResolvedInOneStep
    <2>2. ~IsRenamed(pairs, indirect[k])
      BY <1>1, <2>1
    <2>3. PICK n \in 0 .. Cardinality(Done) : Walk(pairs)[n][k] = indirect[k]
      BY <1>5 DEF RenameInv, DoneInv, Done, Reaches
    <2>4. n \in 0 .. NumKeys /\ NumKeys \in n .. NumKeys
      BY <1>0, DoneFinite
    <2>5. Walk(pairs)[NumKeys][k] = indirect[k]
      BY <1>0, <2>2, <2>3, <2>4, WalkEnds
    <2> QED
      BY <1>3, <2>2, <2>5
  <1> QED
    BY <1>1, <1>2, <1>4, <1>5

\* The result of resolving the renames does not depend on the order of the table:
\* every renamed name leads to the end of its chain, or is nil if the chain leads
\* into a cycle (name-entry.c:95-140, name-table.c:180).
THEOREM LeadsToFinalNameInvariant == Spec => []LeadsToFinalName
  <1>1. RenameInv => LeadsToFinalName
    BY TableAtEnd DEF LeadsToFinalName
  <1> QED
    BY <1>1, InitRename, NextRename, PTL DEF Spec

-----------------------------------------------------------------------------
(* The errors that are reported *)

\* The cycles among the doomed names.
Reported == {Ahead(pairs, k) : k \in {x \in Doomed : x \in Ahead(pairs, x)}}

CountInv ==
  pc # "abort" => errors = (parsed - Len(pairs)) + Cardinality(Reported)

LEMMA ReportedFinite ==
  IInv => IsFiniteSet(Reported) /\ Cardinality(Reported) \in Nat
  <1> SUFFICES ASSUME IInv PROVE IsFiniteSet(Reported) /\ Cardinality(Reported) \in Nat
    OBVIOUS
  <1>1. Doomed \subseteq Keys /\ pairs \in Seq(Pair)
    BY DoomedKeys DEF IInv, TypeOK
  <1>2. ASSUME NEW k \in Keys PROVE Ahead(pairs, k) \subseteq Keys
    <2>1. \A n \in 1 .. NumKeys : n \in 0 .. NumKeys
      BY NumKeysNat
    <2> QED
      BY <1>1, <2>1, WalkKey DEF Ahead
  <1>3. Reported \subseteq SUBSET Keys
    BY <1>1, <1>2 DEF Reported
  <1>4. IsFiniteSet(SUBSET Keys)
    BY NumKeysNat, FS_SUBSET
  <1> QED
    BY <1>3, <1>4, FS_Subset, FS_CardinalityType

\* The recursion is no deeper than there are names.
LEMMA StackBounded == IInv => Len(stack) <= NumKeys
  <1> SUFFICES ASSUME IInv PROVE Len(stack) <= NumKeys
    OBVIOUS
  <1>1. stack \in [1 .. Len(stack) -> Keys] /\ Len(stack) \in Nat
    BY StackFacts DEF IInv, TypeOK
  <1>2. \A i, j \in 1 .. Len(stack) : stack[i] = stack[j] => i = j
    BY StackFacts
  <1>3. stack \in Injection(1 .. Len(stack), Keys)
    BY <1>1, <1>2 DEF Injection, IsInjective
  <1>4. Cardinality(1 .. Len(stack)) <= NumKeys
    BY <1>3, NumKeysNat, FS_Injection DEF NumKeys
  <1>5. Cardinality(1 .. Len(stack)) = Len(stack)
    <2>1. \A l \in Nat : Cardinality(1 .. l) = IF 1 > l THEN 0 ELSE l - 1 + 1
      BY FS_Interval
    <2> QED
      BY <1>1, <2>1
  <1> QED
    BY <1>4, <1>5

\* When a cycle is closed, it is new, and it is the only new one.
LEMMA NewCycle ==
  ASSUME RenameInv, pc = "call", type[arg] = "cycling", Doomed = {k \in Done : indirect[k] = NULL}
  PROVE  \E C : /\ C \notin Reported
                /\ {Ahead(pairs, k) : k \in {x \in Doomed \cup OnStack : x \in Ahead(pairs, x)}}
                     = Reported \cup {C}
  <1>a. PICK s, L : s = stack /\ L = Len(stack)
    OBVIOUS
  <1>0. /\ IInv /\ StackInv /\ pairs \in Seq(Pair) /\ arg \in Keys /\ s \in Seq(Keys)
        /\ Doomed \in SUBSET Keys /\ L \in Nat /\ DOMAIN s = 1 .. L
        /\ \A i \in 1 .. L : s[i] \in Keys /\ type[s[i]] = "cycling"
        /\ \A i, j \in 1 .. L : s[i] = s[j] => i = j
        /\ \A x \in Doomed : RenamedTo(pairs, x) \in Doomed
    BY <1>a, DoomedKeys, StackFacts DEF RenameInv, IInv, TypeOK, Progress, DoomInv, To
  <1>1. PICK j \in 1 .. L : s[j] = arg
    BY <1>0, <1>a DEF IInv, CyclingIsOnStack
  <1>2. ASSUME NEW i \in 1 .. L
        PROVE  /\ i # L => i + 1 \in 1 .. L /\ RenamedTo(pairs, s[i]) = s[i + 1]
               /\ i = L => RenamedTo(pairs, s[i]) = s[j]
    BY <1>0, <1>1, <1>a, StackLeadsOn DEF To
  <1> DEFINE C == {s[m] : m \in j .. L}
  <1>3. L <= NumKeys /\ L \in 1 .. L /\ j \in j .. L
    BY <1>0, <1>a, StackBounded
  <1>4. ASSUME NEW i \in j .. L PROVE Ahead(pairs, s[i]) = C
    <2>1. \A m \in 1 .. L - 1 : RenamedTo(pairs, s[m]) = s[m + 1]
      <3>1. \A m \in 1 .. L - 1 : m \in 1 .. L /\ m # L
        BY <1>0
      <3> QED
        BY <1>2, <3>1
    <2>2. RenamedTo(pairs, s[L]) = s[j]
      BY <1>2, <1>3
    <2>3. L = Len(s)
      BY <1>a
    <2>4. LeadsBack(pairs, s, j) /\ i \in j .. Len(s)
      BY <1>0, <1>3, <2>1, <2>2, <2>3 DEF LeadsBack
    <2>5. Ahead(pairs, s[i]) = {s[m] : m \in j .. Len(s)}
      <3>1. pairs \in Seq(Pair) /\ s \in Seq(Keys)
        BY <1>0
      <3> HIDE DEF C
      <3> QED
        BY <2>4, <3>1, AheadIsCycle
    <2> QED
      BY <2>3, <2>5
  <1>5. ASSUME NEW i \in 1 .. L, i < j PROVE s[i] \notin Ahead(pairs, s[i])
    <2> DEFINE S == {s[m] : m \in i + 1 .. L}
    <2>0. i + 1 \in i + 1 .. L /\ j \in i + 1 .. L /\ i # L
      BY <1>0, <1>5
    <2>1. \A m \in i + 1 .. L : m \in 1 .. L /\ m # i
      BY <1>0
    <2>2. S \in SUBSET Keys /\ s[i] \notin S
      BY <1>0, <2>1
    <2>3. ASSUME NEW x \in S PROVE RenamedTo(pairs, x) \in S
      <3>1. PICK m \in i + 1 .. L : x = s[m]
        OBVIOUS
      <3>2. m # L => m + 1 \in i + 1 .. L
        BY <1>0
      <3> QED
        BY <1>2, <2>0, <2>1, <3>1, <3>2
    <2>4. RenamedTo(pairs, s[i]) \in S
      BY <1>2, <2>0
    <2> HIDE DEF S
    <2> QED
      BY <1>0, <2>2, <2>3, <2>4, NotAhead
  <1>6. C \notin Reported
    <2>1. s[j] \in C /\ s[j] \notin Doomed
      BY <1>0, <1>3 DEF Done
    <2>2. ASSUME NEW k \in Doomed PROVE Ahead(pairs, k) \subseteq Doomed
      <3>1. \A n \in 1 .. NumKeys : n \in 0 .. NumKeys
        BY NumKeysNat
      <3> QED
        BY <1>0, <3>1, WalkStays DEF Ahead
    <2> QED
      BY <2>1, <2>2 DEF Reported
  <1>7. {Ahead(pairs, k) : k \in {x \in Doomed \cup OnStack : x \in Ahead(pairs, x)}}
          = Reported \cup {C}
    <2>1. \A x \in OnStack : \E i \in 1 .. L : x = s[i]
      BY <1>0, <1>a DEF OnStack
    <2>2. \A i \in 1 .. L : i \in j .. L \/ i < j
      BY <1>0
    <2>3. \A x \in OnStack : x \in Ahead(pairs, x) => Ahead(pairs, x) = C
      BY <1>4, <1>5, <2>1, <2>2
    <2>4. s[j] \in OnStack /\ Ahead(pairs, s[j]) = C /\ s[j] \in C
      BY <1>0, <1>3, <1>4, <1>a DEF OnStack
    <2> HIDE DEF C
    <2> QED
      BY <2>3, <2>4 DEF Reported
  <1> QED
    BY <1>6, <1>7

\* Names that lead to a nil entry are on no cycle.
LEMMA NoNewCycle ==
  ASSUME RenameInv, pc = "call", arg \in Doomed, Doomed = {k \in Done : indirect[k] = NULL}
  PROVE  {Ahead(pairs, k) : k \in {x \in Doomed \cup OnStack : x \in Ahead(pairs, x)}} = Reported
  <1>a. PICK s, L : s = stack /\ L = Len(stack)
    OBVIOUS
  <1>0. /\ IInv /\ StackInv /\ pairs \in Seq(Pair) /\ s \in Seq(Keys)
        /\ Doomed \in SUBSET Keys /\ L \in Nat /\ DOMAIN s = 1 .. L
        /\ \A i \in 1 .. L : s[i] \in Keys /\ type[s[i]] = "cycling"
        /\ \A i, j \in 1 .. L : s[i] = s[j] => i = j
        /\ \A x \in Doomed : RenamedTo(pairs, x) \in Doomed
    BY <1>a, DoomedKeys, StackFacts DEF RenameInv, IInv, TypeOK, DoomInv, To
  <1>1. ASSUME NEW i \in 1 .. L
        PROVE  /\ i # L => i + 1 \in 1 .. L /\ RenamedTo(pairs, s[i]) = s[i + 1]
               /\ i = L => RenamedTo(pairs, s[i]) \in Doomed
    BY <1>0, <1>a, StackLeadsOn DEF To
  <1>2. ASSUME NEW i \in 1 .. L PROVE s[i] \notin Ahead(pairs, s[i])
    <2> DEFINE S == Doomed \cup {s[m] : m \in i + 1 .. L}
    <2>1. \A m \in i + 1 .. L : m \in 1 .. L /\ m # i
      BY <1>0
    <2>2. S \in SUBSET Keys /\ s[i] \notin S
      BY <1>0, <2>1 DEF Done
    <2>3. ASSUME NEW m \in i .. L PROVE RenamedTo(pairs, s[m]) \in S
      <3>1. m \in 1 .. L /\ (m # L => m + 1 \in i + 1 .. L)
        BY <1>0
      <3> QED
        BY <1>1, <3>1
    <2>4. ASSUME NEW x \in S PROVE RenamedTo(pairs, x) \in S
      <3>1. \A m \in i + 1 .. L : m \in i .. L
        BY <1>0
      <3> QED
        BY <1>0, <2>3, <3>1
    <2>5. RenamedTo(pairs, s[i]) \in S
      <3>1. i \in i .. L
        BY <1>0
      <3> QED
        BY <2>3, <3>1
    <2> HIDE DEF S
    <2> QED
      BY <1>0, <2>2, <2>4, <2>5, NotAhead
  <1>3. \A x \in OnStack : x \notin Ahead(pairs, x)
    BY <1>0, <1>2, <1>a DEF OnStack
  <1> QED
    BY <1>3 DEF Reported

LEMMA NextCount ==
  ASSUME RenameInv, CountInv, [Next]_vars
  PROVE  CountInv'
  <1>0. /\ IInv /\ TableInv /\ errors \in Nat /\ pairs \in Seq(Pair) /\ Len(pairs) \in Nat
        /\ parsed \in Nat
    BY DEF RenameInv, IInv, TypeOK
  <1>1. CASE arg_data_add_rename
    <2>1. pc = "parse" /\ pc' \in {"parse", "abort"} /\ parsed' = parsed + 1
      BY <1>1 DEF arg_data_add_rename, SeriousThen, SeriousErrors
    <2>2. Doomed = {} /\ Doomed' = {}
      <3>1. \A k \in Keys : type[k] = "absent" /\ type'[k] = "absent"
        BY <1>0, <1>1, <2>1 DEF TableInv, arg_data_add_rename
      <3> QED
        BY <2>1, <3>1 DEF Doomed, Done
    <2>3. Cardinality(Reported) = 0 /\ Cardinality(Reported') = 0
      BY <2>2, FS_EmptySet DEF Reported
    <2>4. pc' # "abort" => errors' - errors = 1 - (Len(pairs') - Len(pairs)) /\ errors' \in Nat
      <3>1. requests[parsed + 1] \in Pair
        BY <1>1 DEF arg_data_add_rename, RenameInv, IInv, TypeOK
      <3>2. Len(<<requests[parsed + 1]>> \o pairs) = Len(pairs) + 1
        BY <1>0, <3>1
      <3> QED
        BY <1>0, <1>1, <3>2 DEF arg_data_add_rename, SeriousThen, SeriousErrors
    <2>5. pc' # "abort" => Len(pairs') \in Nat
      <3>1. pairs' \in Seq(Pair)
        BY <1>0, NextIInv DEF IInv, TypeOK
      <3> QED
        BY <3>1
    <2> QED
      BY <1>0, <2>1, <2>3, <2>4, <2>5 DEF CountInv
  <1>2. CASE CallReturns /\ Doomed' = Doomed \cup OnStack /\ ret' = NULL /\ pc' = "return"
             /\ Doomed = {k \in Done : indirect[k] = NULL}
             /\ (type[arg] = "cycling" \/ (arg \in Doomed /\ type[arg] # "cycling"))
    <2>1. UNCHANGED <<pairs, parsed>> /\ pc = "call"
      BY <1>2 DEF CallReturns
    <2>2. Reported' =
            {Ahead(pairs, k) : k \in {x \in Doomed \cup OnStack : x \in Ahead(pairs, x)}}
      BY <1>2, <2>1 DEF Reported
    <2>3. CASE type[arg] = "cycling"
      <3>1. PICK C : C \notin Reported /\ Reported' = Reported \cup {C}
        BY <1>2, <2>1, <2>2, <2>3, NewCycle
      <3>2. Cardinality(Reported') = Cardinality(Reported) + 1 /\ Cardinality(Reported) \in Nat
        BY <1>0, <3>1, ReportedFinite, FS_AddElement
      <3>3. errors' = errors + 1
        BY <1>2, <2>3 DEF CallReturns, SeriousThen, SeriousErrors
      <3> QED
        BY <1>0, <2>1, <3>2, <3>3 DEF CountInv
    <2>4. CASE arg \in Doomed /\ type[arg] # "cycling"
      <3>1. Reported' = Reported
        BY <1>2, <2>1, <2>2, <2>4, NoNewCycle
      <3>2. errors' = errors
        BY <1>2, <2>4 DEF CallReturns
      <3> QED
        BY <2>1, <3>1, <3>2 DEF CountInv
    <2> QED
      BY <1>2, <2>3, <2>4
  <1>3. CASE ~arg_data_add_rename /\ Doomed' = Doomed /\ (pairs' = pairs \/ Doomed = {})
    <2>1. Reported' = Reported
      BY <1>3 DEF Reported
    <2>2. UNCHANGED <<pairs, parsed>> /\ (pc' # "abort" => pc # "abort" /\ errors' = errors)
      <3>1. CASE CallReturns /\ type[arg] = "cycling" /\ pc' # "abort"
        <4>1. ret' = NULL /\ pc' = "return" /\ pc = "call" /\ arg \in OnStack /\ stack' = stack
              /\ UNCHANGED <<type, indirect>> /\ arg \in Keys
          BY <3>1 DEF CallReturns, SeriousThen, SeriousErrors, RenameInv, IInv, CyclingIsOnStack,
                      Progress, OnStack
        <4>2. arg \in Doomed' /\ arg \notin Doomed
          BY <3>1, <4>1 DEF Doomed, Done, OnStack
        <4> QED
          BY <1>3, <4>2
      <3>2. CASE CallReturns /\ type[arg] # "cycling"
        BY <3>2 DEF CallReturns
      <3>3. CASE CallReturns /\ pc' = "abort"
        BY <3>3 DEF CallReturns
      <3> QED
        BY <1>3, <3>1, <3>2, <3>3 DEF Next, Step, Terminated, StartRename, name_table_add_rename,
           StartResolve, ScanEntry, EndScan, CallRecurses, ReturnInner, ReturnOuter, vars
    <2> QED
      BY <2>1, <2>2 DEF CountInv
  <1> QED
    BY <1>0, <1>1, <1>2, <1>3, DoomSteps DEF DoomStep

\* A cycle of renamings is reported exactly once, when the recursion comes back to
\* an entry that is marked (name-entry.c:113); all other errors are renamings that
\* were dropped (arg-data.c).
THEOREM EachCycleReportedOnceInvariant == Spec => []EachCycleReportedOnce
  <1>1. Init => CountInv
    <2> SUFFICES ASSUME Init PROVE CountInv
      OBVIOUS
    <2>1. Doomed = {}
      BY DEF Init, Doomed, Done
    <2>2. Cardinality(Reported) = 0
      BY <2>1, FS_EmptySet DEF Reported
    <2>3. Len(pairs) = 0 /\ parsed = 0 /\ errors = 0
      BY DEF Init
    <2> QED
      BY <2>2, <2>3 DEF CountInv
  <1>2. RenameInv /\ CountInv => EachCycleReportedOnce
    <2> SUFFICES ASSUME RenameInv, CountInv, pc = "done"
                 PROVE  errors = (Len(requests) - Len(pairs)) + Cardinality(Cycles(pairs))
      BY DEF EachCycleReportedOnce
    <2>0. pairs \in Seq(Pair) /\ NumKeys \in Nat /\ NumKeys \in 0 .. NumKeys
      BY NumKeysNat DEF RenameInv, IInv, TypeOK
    <2>1. Cycles(pairs) =
            {Ahead(pairs, k) : k \in {x \in Keys : IsRenamed(pairs, x) /\ x \in Ahead(pairs, x)}}
      BY DEF Cycles, Ahead, NumKeys
    <2>2. ASSUME NEW k \in Keys, k \in Ahead(pairs, k)
          PROVE  IsRenamed(pairs, k) <=> k \in Doomed
      <3>1. ASSUME IsRenamed(pairs, k) PROVE k \in Doomed
        <4>1. IsRenamed(pairs, Walk(pairs)[NumKeys][k])
          BY <2>0, <2>2, <3>1, CyclicNeverEnds
        <4> QED
          BY <3>1, <4>1, TableAtEnd
      <3> QED
        BY <3>1, TableAtEnd
    <2>3. Doomed \subseteq Keys
      BY DoomedKeys DEF RenameInv
    <2>4. Cycles(pairs) = Reported
      BY <2>1, <2>2, <2>3 DEF Reported
    <2>5. parsed = Len(requests)
      BY DEF RenameInv, TableInv
    <2> QED
      BY <2>4, <2>5 DEF CountInv
  <1> QED
    BY <1>1, <1>2, InitRename, NextRename, NextCount, PTL DEF Spec
=============================================================================
