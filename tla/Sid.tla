---------------------------------- MODULE Sid ----------------------------------
(***************************************************************************)
(* The parser generator sid: the phases of main.c that turn the grammar of *)
(* the user into one that a recursive descent parser can follow, or reject *)
(* it.  Grammars have basics (terminals), rules and actions, without       *)
(* parameters, results, predicates, exception handlers and non local       *)
(* names.  A rule has a list of alternatives, none of them empty, and may  *)
(* have the empty alternative as well.                                     *)
(*                                                                         *)
(* A fatal error ends sid; after any other error it goes on.  The gates    *)
(* between the phases (main_abort_if_errored) ask libexds for the severity *)
(* of the errors it has reported, but errors are reported by shared: they  *)
(* never fire, and there is no action for them.                            *)
(***************************************************************************)
EXTENDS Naturals, Sequences, SequencesExt

CONSTANTS
  Grammars,     \* the grammars to look at
  Generated,    \* the names of generated rules, in the order of their creation
  FactorLimit,  \* -f: how many rules factorisation may create (1000 in main.c)
  NULL

ASSUME SidAssumption == FactorLimit \in Nat /\ NULL \notin Range(Generated)

VARIABLES
  source,   \* the input: its rules, basics, actions and entry points
  phase,    \* what main_1 does next
  errored,  \* an error has been reported
  rules,    \* the rules of the table: alternatives and whether one is empty
  serial,   \* number of rules that were generated
  todo,     \* rules that the iteration over the table has still to reach
  cycles,   \* left recursive cycles that are to be removed
  sets,     \* first sets, see through rules and priorities
  visit,    \* entries that the traversal of the grammar has still to reach
  traced,   \* rules that it has reached
  factored, \* rules whose factorisation has begun
  stack,    \* calls of the recursive functions, the innermost first
  created,  \* number of rules that factorisation created
  follows   \* follow sets; NULL: none yet

sidVars == <<source, phase, errored, rules, serial, todo, cycles, sets, visit, traced,
             factored, stack, created, follows>>

Rules == DOMAIN rules
IsRule(x) == x \notin source.basics \cup source.actions
Alts(r) == rules[r].alts
HasEmptyAlt(r) == rules[r].empty
HasOneAlt(r) == Len(Alts(r)) = (IF HasEmptyAlt(r) THEN 0 ELSE 1)
NewRule(alts, empty) == [alts |-> alts, empty |-> empty]
Items(rs, r) == UNION {Range(a) : a \in Range(rs[r].alts)}

\* Everything that can be reached from the entry points (entry_iter).
RECURSIVE Trace(_, _)
Trace(rs, seen) ==
  LET new == UNION {Items(rs, r) : r \in seen \cap DOMAIN rs} \ seen
  IN IF new = {} THEN seen ELSE Trace(rs, seen \cup new)
Reached(rs) == Trace(rs, Range(source.entries))
Unlinked(rs) == [r \in DOMAIN rs \cap Reached(rs) |-> rs[r]]

NoSets == [first |-> <<>>, through |-> {}, priority |-> <<>>]

SidInit ==
  /\ source \in Grammars /\ phase = "complete" /\ errored = FALSE /\ rules = source.rules
  /\ serial = 0 /\ todo = {} /\ cycles = {} /\ sets = NoSets /\ visit = <<>>
  /\ traced = {} /\ factored = {} /\ stack = <<>> /\ created = 0 /\ follows = <<>>

--------------------------------------------------------------------------------
\* grammar_check_complete: everything is used.
grammar_check_complete ==
  /\ phase = "complete"
  /\ errored' = ~((Rules \cup source.basics \cup source.actions) \subseteq Reached(rules))
  /\ phase' = "cycles"
  /\ UNCHANGED <<source, rules, serial, todo, cycles, sets, visit, traced, factored, stack,
                 created, follows>>

--------------------------------------------------------------------------------
\* Left recursion.

\* The rules that the alternatives of r begin with.
Leading(r) == {Head(a) : a \in Range(Alts(r))} \cap Rules

RECURSIVE LeadsTo(_)
LeadsTo(seen) ==
  LET new == UNION {Leading(r) : r \in seen} \ seen
  IN IF new = {} THEN seen ELSE LeadsTo(seen \cup new)

\* The cycles that the two depth first searches find: the rules that lead to r and
\* that r leads to.
Cycle(r) == {s \in LeadsTo(Leading(r)) : r \in LeadsTo(Leading(s))}

grammar_find_cycles ==
  /\ phase = "cycles" /\ phase' = "remove"
  /\ cycles' = {Cycle(r) : r \in Rules} \ {{}}
  /\ UNCHANGED <<source, errored, rules, serial, todo, sets, visit, traced, factored, stack,
                 created, follows>>

\* A rule of its own: A = A B, $ becomes A = B A, $; and A = A C B, B becomes
\* A = B X and X = C A, $.
Rotated(r) == NewRule(<<Append(Tail(Alts(r)[1]), Head(Alts(r)[1]))>>, TRUE)

Recursive(r) == SelectSeq(Alts(r), LAMBDA a : Head(a) = r)
NonRecursive(r) == SelectSeq(Alts(r), LAMBDA a : Head(a) # r)

SuffixApplies(r) ==
  /\ ~HasEmptyAlt(r) /\ Len(Alts(r)) = 2 /\ Len(Recursive(r)) = 1
  /\ Len(Recursive(r)[1]) > Len(NonRecursive(r)[1])
  /\ IsSuffix(NonRecursive(r)[1], Recursive(r)[1])

rule_left_cycle_special_case(r) ==
  IF HasEmptyAlt(r) THEN [rules EXCEPT ![r] = Rotated(r)]
  ELSE LET rec == Recursive(r)[1]
           non == NonRecursive(r)[1]
           x == Generated[serial + 1]
       IN [rules EXCEPT ![r] = NewRule(<<Append(non, x)>>, FALSE)]
            @@ (x :> NewRule(<<Append(SubSeq(rec, 2, Len(rec) - Len(non)), r)>>, TRUE))

\* The general case for Ai = Aj Bji, Ci.  Vector(list, i) is Ci, and the matrix has
\* Bji at size * (j - 1) + i; both lists are in reverse order.
Vector(list, i) == Reverse(SelectSeq(Alts(list[i]), LAMBDA a : Head(a) \notin Range(list)))
Matrix(list, index) ==
  LET j == ((index - 1) \div Len(list)) + 1
      i == ((index - 1) % Len(list)) + 1
      calls == SelectSeq(Alts(list[i]), LAMBDA a : Head(a) = list[j])
  IN Reverse([n \in DOMAIN calls |-> Tail(calls[n])])

\* Xji for the rule Ai, whose generated rules begin after the first ones of A1 ...
Extra(list, i, j) == Generated[serial + (i - 1) * Len(list) + j]

\* rule_left_cycle_general_case_4: the index into the matrix begins at its first
\* row for each of the generated rules.
ExtraAlts(list, i, j) ==
  FlattenSeq([k \in DOMAIN list |->
     [n \in DOMAIN Matrix(list, k) |-> Append(Matrix(list, k)[n], Extra(list, i, k))]])

\* rule_left_cycle_general_case_3: Ai = Cj Xji.
CycleAlts(list, i) ==
  FlattenSeq([j \in DOMAIN list |->
     (IF HasEmptyAlt(list[j]) THEN << <<Extra(list, i, j)>> >> ELSE <<>>)
       \o [n \in DOMAIN Vector(list, j) |-> Append(Vector(list, j)[n], Extra(list, i, j))]])

rule_left_cycle_general_case(list) ==
  LET size == Len(list)
      Position(r) == CHOOSE i \in 1 .. size : list[i] = r
      Made(x) == CHOOSE p \in (1 .. size) \X (1 .. size) : Extra(list, p[1], p[2]) = x
      new == {Extra(list, i, j) : i, j \in 1 .. size}
  IN [r \in Rules \cup new |->
        IF r \in Range(list) THEN NewRule(CycleAlts(list, Position(r)), FALSE)
        ELSE IF r \in new THEN LET p == Made(r)
                               IN NewRule(ExtraAlts(list, p[1], p[2]), p[1] = p[2])
        ELSE rules[r]]

\* rule_remove_left_cycle.  The order of the cycles and of the rules of a cycle comes
\* from the hash values of their names: any order.  gen_result is only set where an
\* alternative without recursion is found, and is used and destroyed in any case.
rule_remove_left_cycle ==
  /\ phase = "remove"
  /\ \E c \in cycles : \E list \in SetToSeqs(c) :
       LET r == list[1]
           rotates == Len(list) = 1 /\ HasEmptyAlt(r) /\ Len(Alts(r)) = 1
           splits == Len(list) = 1 /\ SuffixApplies(r)
           plain == {i \in DOMAIN list : Vector(list, i) # <<>>}
           empties == {i \in DOMAIN list : HasEmptyAlt(list[i])}
       IN /\ cycles' = cycles \ {c}
          /\ IF rotates \/ splits
             THEN /\ rules' = rule_left_cycle_special_case(r)
                  /\ serial' = serial + (IF splits THEN 1 ELSE 0)
                  /\ UNCHANGED <<errored, phase>>
             ELSE IF plain \cup empties = {}
             THEN /\ rules' = [q \in Rules |-> IF q \in c THEN NewRule(<<>>, FALSE) ELSE rules[q]]
                  /\ errored' = TRUE /\ UNCHANGED serial
                  /\ phase' \in {phase, "undefined"}
             ELSE /\ rules' = rule_left_cycle_general_case(list)
                  /\ serial' = serial + Len(list) * Len(list)
                  /\ phase' \in {phase} \cup (IF plain = {} THEN {"undefined"} ELSE {})
                  /\ UNCHANGED errored
  /\ UNCHANGED <<source, todo, sets, visit, traced, factored, stack, created, follows>>

CyclesRemoved ==
  /\ phase = "remove" /\ cycles = {} /\ phase' = "firsts"
  /\ todo' = Rules
  /\ UNCHANGED <<source, errored, rules, serial, cycles, sets, visit, traced, factored, stack,
                 created, follows>>

--------------------------------------------------------------------------------
\* First sets.

\* What is seen from the start of a list of items: up to and including the first
\* one that cannot be seen through.
Seen(items) ==
  {j \in DOMAIN items : \A k \in 1 .. j - 1 : items[k] \in source.actions \cup sets.through}
IsThrough(items) == Range(items) \subseteq source.actions \cup sets.through

ItemFirst(x) ==
  IF x \in source.basics THEN {x} ELSE IF x \in source.actions THEN {} ELSE sets.first[x]
FirstOf(items) == UNION {ItemFirst(items[j]) : j \in Seen(items)}

\* The highest priority of a rule that is seen and has no action before it.
Priority(items) ==
  Max({0} \cup {sets.priority[items[j]] : j \in {k \in Seen(items) :
                   IsRule(items[k]) /\ \A i \in 1 .. k : items[i] \notin source.actions}})

\* The sets of a rule r of rs whose items all have their sets; it is a fatal error if
\* r is see through and starts with every basic.
FirstSet(rs, r) ==
  LET alts == Range(rs[r].alts)
  IN [first |-> sets.first @@ (r :> UNION {FirstOf(a) : a \in alts}),
      through |-> IF rs[r].empty \/ \E a \in alts : IsThrough(a)
                  THEN sets.through \cup {r} ELSE sets.through,
      priority |-> sets.priority @@ (r :> 1 + Max({0} \cup {Priority(a) : a \in alts}))]
IsRedundant(r, st) == r \in st.through /\ st.first[r] = source.basics

\* A call of rule_compute_first_set_1: where it is in the alternatives of the rule, and
\* the highest priority it has met.  The sets of the rule grow while it runs, and the
\* priority is zero until it ends.
FirstCall(r) == [rule |-> r, alt |-> 1, item |-> 1, priority |-> 0]
Begun(r) ==
  [sets EXCEPT !.first = @ @@ (r :> {}), !.priority = @ @@ (r :> 0)]
IsBegun(x) == x \in DOMAIN sets.first
Computing == {stack[k].rule : k \in DOMAIN stack}

\* rule_compute_first_set for a rule of the table.
rule_compute_first_set ==
  /\ phase = "firsts" /\ stack = <<>>
  /\ \E r \in todo :
       /\ todo' = todo \ {r}
       /\ IF IsBegun(r) THEN UNCHANGED <<stack, sets>>
          ELSE stack' = <<FirstCall(r)>> /\ sets' = Begun(r)
  /\ UNCHANGED <<source, phase, errored, rules, serial, cycles, visit, traced, factored,
                 created, follows>>

NextAlt(f) == [f EXCEPT !.alt = @ + 1, !.item = 1]
NextItem(f) == [f EXCEPT !.item = @ + 1]

\* Where the innermost call is.
Call == Head(stack)
InAlt == phase = "firsts" /\ stack # <<>> /\ Call.alt <= Len(Alts(Call.rule))
CurrentAlt == Alts(Call.rule)[Call.alt]
AtItem == InAlt /\ Call.item <= Len(CurrentAlt)
CurrentItem == CurrentAlt[Call.item]

\* rule_compute_first_set_1: the sets of a rule are computed when it is met first.
CallItem ==
  /\ AtItem /\ IsRule(CurrentItem) /\ ~IsBegun(CurrentItem)
  /\ stack' = <<FirstCall(CurrentItem)>> \o stack /\ sets' = Begun(CurrentItem)
  /\ UNCHANGED <<source, phase, errored, rules, serial, todo, cycles, visit, traced, factored,
                 created, follows>>

\* What an item starts with is added.  It is an error if the sets of the item are still
\* being computed; what has been found of them so far is used, and sid goes on.
SeeItem ==
  /\ AtItem /\ (IsRule(CurrentItem) => IsBegun(CurrentItem))
  /\ LET x == CurrentItem
         counts == IsRule(x) /\ Range(SubSeq(CurrentAlt, 1, Call.item)) \cap source.actions = {}
         f == IF counts THEN [Call EXCEPT !.priority = Max({@, sets.priority[x]})] ELSE Call
         through == x \in source.actions \cup sets.through
     IN /\ errored' = (errored \/ x \in Computing)
        /\ sets' = [sets EXCEPT !.first[Call.rule] = @ \cup ItemFirst(x)]
        /\ stack' = <<IF through THEN NextItem(f) ELSE NextAlt(f)>> \o Tail(stack)
  /\ UNCHANGED <<source, phase, rules, serial, todo, cycles, visit, traced, factored, created,
                 follows>>

AltIsThrough ==
  /\ InAlt /\ Call.item > Len(CurrentAlt)
  /\ sets' = [sets EXCEPT !.through = @ \cup {Call.rule}]
  /\ stack' = <<NextAlt(Call)>> \o Tail(stack)
  /\ UNCHANGED <<source, phase, errored, rules, serial, todo, cycles, visit, traced, factored,
                 created, follows>>

FirstSetComputed ==
  /\ phase = "firsts" /\ stack # <<>> /\ ~InAlt
  /\ LET r == Call.rule
     IN /\ sets' = [sets EXCEPT !.through = IF HasEmptyAlt(r) THEN @ \cup {r} ELSE @,
                               !.priority[r] = Call.priority + 1]
        /\ phase' = IF IsRedundant(r, sets') THEN "fatal" ELSE phase
  /\ stack' = Tail(stack)
  /\ UNCHANGED <<source, errored, rules, serial, todo, cycles, visit, traced, factored, created,
                 follows>>

FirstSetsComputed ==
  /\ phase = "firsts" /\ stack = <<>> /\ todo = {} /\ phase' = "factor"
  /\ visit' = source.entries
  /\ UNCHANGED <<source, errored, rules, serial, todo, cycles, sets, traced, factored, stack,
                 created, follows>>

--------------------------------------------------------------------------------
\* Factorisation.

\* The first items of the groups, in order, and the members of a group.
Groups(alts) ==
  LET heads == [i \in DOMAIN alts |-> Head(alts[i])]
      begins == {i \in DOMAIN heads : \A j \in 1 .. i - 1 : heads[j] # heads[i]}
  IN [n \in 1 .. Cardinality(begins) |->
        heads[CHOOSE i \in begins : Cardinality({j \in begins : j < i}) = n - 1]]
Group(alts, g) == SelectSeq(alts, LAMBDA a : Head(a) = g)
Others(alts, g) == SelectSeq(alts, LAMBDA a : Head(a) # g)

\* rule_group_by_initial_item: alternatives with the same first item are put
\* together, each new one in front of its group.
Grouped(alts, new) ==
  LET gs == Groups(alts \o new)
  IN FlattenSeq([n \in DOMAIN gs |-> Reverse(Group(new, gs[n])) \o Group(alts, gs[n])])

GroupFirst(alts, g) == UNION {FirstOf(a) : a \in Range(Group(alts, g))}
GroupPriority(alts, g) == 1 + Max({Priority(a) : a \in Range(Group(alts, g))})

\* The rule g can be seen through to a basic that also starts it.
SeesThrough(alts, g) ==
  /\ g \in sets.through
  /\ \E a \in Range(Group(alts, g)) : sets.first[g] \cap FirstOf(Tail(a)) # {}

\* rule_expand_item_clashes: the group whose first item is to be expanded, or NULL.
Clash(alts) ==
  LET gs == Groups(alts)
      Clashing(g) == SelectSeq(gs, LAMBDA h : h # g /\ GroupFirst(alts, g) \cap GroupFirst(alts, h) # {})
      bad == SelectSeq(gs, LAMBDA g : IsRule(g) /\ (SeesThrough(alts, g) \/ Clashing(g) # <<>>))
      g == Head(bad)
      h == Head(Clashing(g))
  IN IF bad = <<>> THEN NULL
     ELSE IF SeesThrough(alts, g) \/ GroupPriority(alts, g) > GroupPriority(alts, h) THEN g
     ELSE h

\* rule_expand: the rule g is replaced by each of its alternatives in a group of the
\* rule r, which has been taken out of r.
Expansions(r, g) ==
  LET inner == IF g = r THEN Others(Alts(r), r) ELSE Alts(g)
      Replace(a) == (IF HasEmptyAlt(g) THEN <<Tail(a)>> ELSE <<>>)
                      \o [n \in DOMAIN inner |-> inner[n] \o Tail(a)]
      group == Group(Alts(r), g)
  IN FlattenSeq([n \in DOMAIN group |-> Replace(group[n])])

\* A rule that is expanded into itself: the new alternatives go to the end of the list
\* that the loop runs over, so it has no end if there is anything in the list.
IsEndless(r) ==
  \/ Others(Alts(r), r) # <<>>
  \/ HasEmptyAlt(r) /\ Len(Group(Alts(r), r)) > 1

\* The traversal reaches the next entry; a rule is factorised unless that has begun.
rule_factor ==
  /\ phase = "factor" /\ stack = <<>> /\ visit # <<>>
  /\ LET r == Head(visit)
     IN IF r \in traced \/ ~IsRule(r)
        THEN visit' = Tail(visit) /\ UNCHANGED <<traced, factored, stack, rules>>
        ELSE IF r \in factored
        THEN /\ traced' = traced \cup {r}
             /\ visit' = FlattenSeq(Alts(r)) \o Tail(visit)
             /\ UNCHANGED <<factored, stack, rules>>
        ELSE /\ stack' = <<r>> /\ factored' = factored \cup {r}
             /\ rules' = [rules EXCEPT ![r].alts = Grouped(<<>>, @)]
             /\ UNCHANGED <<traced, visit>>
  /\ UNCHANGED <<source, phase, errored, serial, todo, cycles, sets, created, follows>>

\* rule_expand for the innermost rule; the rule that is expanded into it is
\* factorised first.  An alternative that becomes empty is a fatal error.
rule_expand ==
  /\ phase = "factor" /\ stack # <<>>
  /\ LET r == Head(stack)
         g == Clash(Alts(r))
         new == Expansions(r, g)
     IN /\ g # NULL /\ ~(g = r /\ IsEndless(r))
        /\ IF g \notin factored
           THEN /\ stack' = <<g>> \o stack /\ factored' = factored \cup {g}
                /\ rules' = [rules EXCEPT ![g].alts = Grouped(<<>>, @)]
                /\ UNCHANGED phase
           ELSE IF <<>> \in Range(new)
           THEN phase' = "fatal" /\ UNCHANGED <<stack, factored, rules>>
           ELSE /\ rules' = [rules EXCEPT ![r].alts = Grouped(Others(@, g), new)]
                /\ UNCHANGED <<stack, factored, phase>>
  /\ UNCHANGED <<source, errored, serial, todo, cycles, sets, visit, traced, created, follows>>

\* The loop of rule_expand over the alternatives of the rule itself: it copies one, and
\* goes on to the next, which is there.  No copy is kept here: nothing looks at them.
rule_expand_itself ==
  /\ \/ /\ phase = "factor" /\ stack # <<>> /\ phase' = "copy"
        /\ LET r == Head(stack) IN Clash(Alts(r)) = r /\ IsEndless(r)
     \/ phase = "copy" /\ phase' = "advance"
     \/ phase = "advance" /\ phase' = "copy"
  /\ UNCHANGED <<source, errored, rules, serial, todo, cycles, sets, visit, traced, factored,
                 stack, created, follows>>

\* Mutant of FactorGroup: the items that all members share are kept in the new rule.
FactorGroupKept(alts, g, x) ==
  LET members == Group(alts, g)
      common == LongestCommonPrefix(Range(members))
      rests == [n \in DOMAIN members |-> Tail(members[n])]
      merged == IF \A n \in DOMAIN rests : rests[n] = <<>> THEN common ELSE Append(common, x)
      at == Min({i \in DOMAIN alts : Head(alts[i]) = g})
  IN [alts |-> InsertAt(Others(alts, g), at, merged),
      rule |-> NewRule(SelectSeq(rests, LAMBDA t : t # <<>>), <<>> \in Range(rests))]

\* rule_factor_3: the items that all members of a group begin with, and a rule x for
\* what follows them; no rule if nothing does.
FactorGroup(alts, g, x) ==
  LET members == Group(alts, g)
      common == LongestCommonPrefix(Range(members))
      rests == [n \in DOMAIN members |->
                  SubSeq(members[n], Len(common) + 1, Len(members[n]))]
      merged == IF \A n \in DOMAIN rests : rests[n] = <<>> THEN common ELSE Append(common, x)
      at == Min({i \in DOMAIN alts : Head(alts[i]) = g})
  IN [alts |-> InsertAt(Others(alts, g), at, merged),
      rule |-> NewRule(SelectSeq(rests, LAMBDA t : t # <<>>), <<>> \in Range(rests))]

\* rule_factor_2 for the next group of the innermost rule with several members, and
\* rule_create_factored.
rule_factor_2 ==
  /\ phase = "factor" /\ stack # <<>>
  /\ LET r == Head(stack)
         gs == SelectSeq(Groups(Alts(r)), LAMBDA g : Len(Group(Alts(r), g)) > 1)
         x == Generated[serial + 1]
         f == FactorGroup(Alts(r), Head(gs), x)
         rs == [rules EXCEPT ![r].alts = f.alts] @@ (x :> f.rule)
     IN /\ Clash(Alts(r)) = NULL /\ gs # <<>>
        /\ IF f.rule.alts = <<>>
           THEN /\ rules' = [rules EXCEPT ![r].alts = f.alts]
                /\ UNCHANGED <<phase, serial, created, sets>>
           ELSE IF created = FactorLimit
           THEN phase' = "fatal" /\ UNCHANGED <<rules, serial, created, sets>>
           ELSE /\ rules' = rs /\ serial' = serial + 1 /\ created' = created + 1
                /\ sets' = FirstSet(rs, x)
                /\ phase' = IF IsRedundant(x, sets') THEN "fatal" ELSE phase
  /\ UNCHANGED <<source, errored, todo, cycles, visit, traced, factored, stack, follows>>

\* All groups of the innermost rule have one member.
RuleFactored ==
  /\ phase = "factor" /\ stack # <<>>
  /\ LET alts == Alts(Head(stack)) IN Clash(alts) = NULL /\ Len(Groups(alts)) = Len(alts)
  /\ stack' = Tail(stack)
  /\ UNCHANGED <<source, phase, errored, rules, serial, todo, cycles, sets, visit, traced,
                 factored, created, follows>>

\* Rules that were not reached are removed from the table.
GrammarFactored ==
  /\ phase = "factor" /\ stack = <<>> /\ visit = <<>>
  /\ rules' = [r \in Rules \cap traced |-> rules[r]]
  /\ phase' = "simplify"
  /\ todo' = DOMAIN rules'
  /\ UNCHANGED <<source, errored, serial, cycles, sets, visit, traced, factored, stack, created,
                 follows>>

--------------------------------------------------------------------------------
\* Identical rules.  todo holds the rules of the equality table.
rule_equal(r, s) ==
  HasEmptyAlt(r) = HasEmptyAlt(s) /\ Range(Alts(r)) = Range(Alts(s)) /\ Len(Alts(r)) = Len(Alts(s))

Replaced(from, to) ==
  [r \in Rules |-> [rules[r] EXCEPT !.alts =
     [i \in DOMAIN @ |-> [j \in DOMAIN @[i] |-> IF @[i][j] = from THEN to ELSE @[i][j]]]]]

\* Mutant of rule_remove_duplicates: a rule that was replaced is compared again.
rule_remove_duplicates_kept ==
  /\ phase = "simplify"
  /\ \E r, s \in todo :
       /\ r # s /\ rule_equal(r, s)
       /\ LET from == IF s \in Range(source.entries) THEN r ELSE s
              to == IF s \in Range(source.entries) THEN s ELSE r
          IN rules' = Replaced(from, to) /\ todo' = todo
  /\ UNCHANGED <<source, phase, errored, serial, cycles, sets, visit, traced, factored, stack,
                 created, follows>>

\* rule_remove_duplicates_1 finds two equal rules: an entry point stays.
rule_remove_duplicates ==
  /\ phase = "simplify"
  /\ \E r, s \in todo :
       /\ r # s /\ rule_equal(r, s)
       /\ LET from == IF s \in Range(source.entries) THEN r ELSE s
              to == IF s \in Range(source.entries) THEN s ELSE r
          IN rules' = Replaced(from, to) /\ todo' = todo \ {from}
  /\ UNCHANGED <<source, phase, errored, serial, cycles, sets, visit, traced, factored, stack,
                 created, follows>>

DuplicatesRemoved ==
  /\ phase = "simplify" /\ \A r, s \in todo : r # s => ~rule_equal(r, s)
  /\ rules' = Unlinked(rules)
  /\ phase' = "clashes" /\ todo' = {}
  /\ UNCHANGED <<source, errored, serial, cycles, sets, visit, traced, factored, stack, created,
                 follows>>

--------------------------------------------------------------------------------
\* Collisions.

SeeThroughAlts(r) == SelectSeq(Alts(r), IsThrough)

\* The items of a rule that are seen, as pairs of an alternative and a position.
SeenItems(r) == UNION {{i} \X Seen(Alts(r)[i]) : i \in DOMAIN Alts(r)}
ItemAt(r, p) == Alts(r)[p[1]][p[2]]

\* Mutant of Collides: one way to see through a rule is too many.
CollidesEarly(r) ==
  \/ \E p, q \in SeenItems(r) : p # q /\ ItemFirst(ItemAt(r, p)) \cap ItemFirst(ItemAt(r, q)) # {}
  \/ Len(SeeThroughAlts(r)) + (IF HasEmptyAlt(r) THEN 1 ELSE 0) > 0

\* rule_check_first_set_1: two items start with the same basic, or there are two ways
\* to see through the rule.
Collides(r) ==
  \/ \E p, q \in SeenItems(r) : p # q /\ ItemFirst(ItemAt(r, p)) \cap ItemFirst(ItemAt(r, q)) # {}
  \/ Len(SeeThroughAlts(r)) + (IF HasEmptyAlt(r) THEN 1 ELSE 0) > 1

\* Every rule of the table is checked: the errors are reported and the phase goes on.
rule_check_first_set ==
  /\ phase = "clashes" /\ phase' = "follows" /\ todo' = Rules
  /\ errored' = (errored \/ \E r \in Rules : Collides(r))
  /\ follows' = [r \in Rules |-> NULL]
  /\ UNCHANGED <<source, rules, serial, cycles, sets, visit, traced, factored, stack, created>>

\* rule_compute_follow_set for a rule of the table: nothing follows it from outside.
rule_compute_follow_set ==
  /\ phase = "follows" /\ stack = <<>>
  /\ \E r \in todo : todo' = todo \ {r} /\ stack' = << <<r, {}>> >>
  /\ UNCHANGED <<source, phase, errored, rules, serial, cycles, sets, visit, traced, factored,
                 created, follows>>

\* rule_compute_follow_set_3: the calls for the rules of an alternative from its end
\* on, each with what can follow the rule.
FollowCalls(a, follow) ==
  LET After(j) == SubSeq(a, j + 1, Len(a))
      Context(j) == FirstOf(After(j)) \cup (IF IsThrough(After(j)) THEN follow ELSE {})
      calls == [n \in DOMAIN a |-> <<a[Len(a) + 1 - n], Context(Len(a) + 1 - n)>>]
  IN SelectSeq(calls, LAMBDA c : IsRule(c[1]))

\* rule_compute_follow_set_1: the context is added to the follow set and passed on to
\* the alternatives unless it is known.  When what follows a rule that can be seen through
\* also starts it, that is an error; that the first set loses those basics afterwards
\* (rule-check.c:281) is left out, as nothing uses the sets of a grammar with errors.
rule_compute_follow_set_1 ==
  /\ phase = "follows" /\ stack # <<>>
  /\ LET r == stack[1][1]
         context == stack[1][2]
         known == follows[r] # NULL /\ context \subseteq follows[r]
         new == context \cup (IF follows[r] = NULL THEN {} ELSE follows[r])
     IN IF known
        THEN stack' = Tail(stack) /\ UNCHANGED <<follows, errored>>
        ELSE /\ follows' = [follows EXCEPT ![r] = new]
             /\ errored' = (errored \/ (r \in sets.through /\ new \cap sets.first[r] # {}))
             /\ stack' = FlattenSeq([i \in DOMAIN Alts(r) |-> FollowCalls(Alts(r)[i], new)])
                           \o Tail(stack)
  /\ UNCHANGED <<source, phase, rules, serial, todo, cycles, sets, visit, traced, factored, created>>

FollowSetsComputed ==
  /\ phase = "follows" /\ stack = <<>> /\ todo = {} /\ phase' = "output"
  /\ UNCHANGED <<source, errored, rules, serial, todo, cycles, sets, visit, traced, factored,
                 stack, created, follows>>

SidStep ==
  \/ grammar_check_complete \/ grammar_find_cycles \/ rule_remove_left_cycle \/ CyclesRemoved
  \/ rule_compute_first_set \/ CallItem \/ SeeItem \/ AltIsThrough \/ FirstSetComputed
  \/ FirstSetsComputed
  \/ rule_factor \/ rule_expand \/ rule_expand_itself \/ rule_factor_2
  \/ RuleFactored \/ GrammarFactored
  \/ rule_remove_duplicates \/ DuplicatesRemoved
  \/ rule_check_first_set
  \/ rule_compute_follow_set \/ rule_compute_follow_set_1 \/ FollowSetsComputed

\* sid has ended in an error.
Stopped == phase \in {"fatal", "undefined"}
\* It has reported an error.
Refused == Stopped \/ (phase = "output" /\ errored)
\* It copies alternatives, until there is no memory left.
Copying == phase \in {"copy", "advance"}
================================================================================
