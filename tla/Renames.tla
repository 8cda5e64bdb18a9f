------------------------------ MODULE Renames -------------------------------
(***************************************************************************)
(* Renaming in tld, for the name table of one shape: the rename requests   *)
(* of the command line are collected (arg_data_add_rename), entered into   *)
(* the table (linker_rename_1, name_table_add_rename) and then resolved    *)
(* (name_table_resolve_renames), so that an indirect entry names the final *)
(* entry of its chain of renamings and need not be followed twice.         *)
(*                                                                         *)
(* name_entry_resolve_renames is recursive; its activations are the        *)
(* variable stack.  The table is a hash table: entries are resolved in     *)
(* bucket order, which is any order.                                       *)
(*                                                                         *)
(* linker_rename_1 does the same to the table of the library index, with   *)
(* the report of cycles turned off; only the count of errors differs.      *)
(***************************************************************************)
EXTENDS Errors, Sequences, FiniteSets

CONSTANTS
  Keys,       \* the external names of the shape
  NULL,       \* the nil pointer
  Requests    \* the possible sequences of rename requests

Pair == [from : Keys, to : Keys]

ASSUME RenamesAssumption ==
  Requests \subseteq Seq(Pair) /\ NULL \notin Keys /\ IsFiniteSet(Keys)

VARIABLES
  requests,   \* the rename options, in order
  parsed,     \* how many of them have been parsed
  pairs,      \* NameKeyPairListT: accepted requests, the last one first
  todo,       \* the suffix of pairs that linker_rename_1 has still to enter
  type,       \* NameEntryT.type, or "absent" for a key with no entry
  indirect,   \* NameEntryT.u.indirect
  stack,      \* entries with an unfinished name_entry_resolve_renames
  arg,        \* the entry that is passed to the next call
  ret,        \* the entry that the last call returned
  visited     \* entries that name_table_resolve_renames is done with

vars == <<pc, errors, requests, parsed, pairs, todo, type, indirect, stack, arg, ret, visited>>

EntryTypes == {"absent", "place", "indirect", "cycling", "done"}

TypeOK ==
  /\ pc \in {"parse", "enter", "scan", "call", "return", "done", "abort"}
  /\ errors \in Nat
  /\ requests \in Seq(Pair)
  /\ parsed \in 0 .. Len(requests)
  /\ pairs \in Seq(Pair)
  /\ todo \in Seq(Pair)
  /\ type \in [Keys -> EntryTypes]
  /\ indirect \in [Keys -> Keys \cup {NULL}]
  /\ stack \in Seq(Keys)
  /\ arg \in Keys \cup {NULL}
  /\ ret \in Keys \cup {NULL}
  /\ visited \subseteq Keys

Init ==
  /\ pc = "parse" /\ errors = 0
  /\ requests \in Requests /\ parsed = 0
  /\ pairs = <<>> /\ todo = <<>>
  /\ type = [k \in Keys |-> "absent"]
  /\ indirect = [k \in Keys |-> NULL]
  /\ stack = <<>> /\ arg = NULL /\ ret = NULL /\ visited = {}

-----------------------------------------------------------------------------
\* One rename option.  A key that is already renamed is an error, and the new
\* request is dropped.
arg_data_add_rename ==
  LET new == requests[parsed + 1] IN
  /\ pc = "parse" /\ parsed < Len(requests)
  /\ parsed' = parsed + 1
  /\ IF \E j \in DOMAIN pairs : pairs[j].from = new.from
     THEN SeriousThen("parse") /\ UNCHANGED pairs
     ELSE pairs' = <<new>> \o pairs /\ UNCHANGED <<pc, errors>>
  /\ UNCHANGED <<requests, todo, type, indirect, stack, arg, ret, visited>>

\* All options are parsed; linker_rename walks the list of pairs.
StartRename ==
  /\ pc = "parse" /\ parsed = Len(requests)
  /\ pc' = "enter" /\ todo' = pairs
  /\ UNCHANGED <<errors, requests, parsed, pairs, type, indirect, stack, arg, ret, visited>>

\* Mutant of name_table_add_rename: the names are exchanged.
name_table_add_swapped ==
  LET from == Head(todo).to
      to == Head(todo).from
      placed == [type EXCEPT ![to] = IF @ = "absent" THEN "place" ELSE @]
  IN /\ pc = "enter" /\ todo # <<>>
     /\ todo' = Tail(todo)
     /\ type' = [placed EXCEPT ![from] = "indirect"]
     /\ indirect' = [indirect EXCEPT ![from] = to]
     /\ UNCHANGED <<pc, errors, requests, parsed, pairs, stack, arg, ret, visited>>

\* The entry of the new name is found, or created as a place holder; then the
\* entry of the old name is made, or created, indirect.
name_table_add_rename ==
  LET from == Head(todo).from
      to == Head(todo).to
      placed == [type EXCEPT ![to] = IF @ = "absent" THEN "place" ELSE @]
  IN /\ pc = "enter" /\ todo # <<>>
     /\ todo' = Tail(todo)
     /\ type' = [placed EXCEPT ![from] = "indirect"]
     /\ indirect' = [indirect EXCEPT ![from] = to]
     /\ UNCHANGED <<pc, errors, requests, parsed, pairs, stack, arg, ret, visited>>

StartResolve ==
  /\ pc = "enter" /\ todo = <<>>
  /\ pc' = "scan"
  /\ UNCHANGED <<errors, requests, parsed, pairs, todo, type, indirect, stack, arg, ret, visited>>

\* Mutant of ScanEntry: the loop stays at the entry.
ScanEntryAgain(k) ==
  /\ pc = "scan" /\ type[k] # "absent" /\ k \notin visited
  /\ pc' = "call" /\ arg' = k
  /\ UNCHANGED <<errors, requests, parsed, pairs, todo, type, indirect, stack, ret, visited>>

\* name_table_resolve_renames turns to its next entry.
ScanEntry(k) ==
  /\ pc = "scan" /\ type[k] # "absent" /\ k \notin visited
  /\ pc' = "call" /\ arg' = k
  /\ visited' = visited \cup {k}
  /\ UNCHANGED <<errors, requests, parsed, pairs, todo, type, indirect, stack, ret>>

\* There is no entry left.
EndScan ==
  /\ pc = "scan"
  /\ \A k \in Keys : type[k] # "absent" => k \in visited
  /\ pc' = "done"
  /\ UNCHANGED <<errors, requests, parsed, pairs, todo, type, indirect, stack, arg, ret, visited>>

\* Mutant of CallReturns: whatever leads into a cycle is reported.
CallReturnsReporting ==
  /\ pc = "call" /\ type[arg] \in {"place", "done", "cycling"}
  /\ ret' = CASE type[arg] = "place" -> arg
              [] type[arg] = "done" -> indirect[arg]
              [] OTHER -> NULL
  /\ IF ret' = NULL THEN SeriousThen("return") ELSE pc' = "return" /\ UNCHANGED errors
  /\ UNCHANGED <<requests, parsed, pairs, todo, type, indirect, stack, arg, visited>>

\* name_entry_resolve_renames(arg) where arg needs no recursion: a place holder
\* stands for itself, a resolved entry for its target, and an entry that is
\* being resolved shows a cycle.
CallReturns ==
  /\ pc = "call" /\ type[arg] \in {"place", "done", "cycling"}
  /\ ret' = CASE type[arg] = "place" -> arg
              [] type[arg] = "done" -> indirect[arg]
              [] OTHER -> NULL
  /\ IF type[arg] = "cycling" THEN SeriousThen("return")
                              ELSE pc' = "return" /\ UNCHANGED errors
  /\ UNCHANGED <<requests, parsed, pairs, todo, type, indirect, stack, arg, visited>>

\* name_entry_resolve_renames(arg) of an unresolved entry: mark it and recurse.
CallRecurses ==
  /\ pc = "call" /\ type[arg] = "indirect"
  /\ type' = [type EXCEPT ![arg] = "cycling"]
  /\ stack' = Append(stack, arg)
  /\ arg' = indirect[arg]
  /\ UNCHANGED <<pc, errors, requests, parsed, pairs, todo, indirect, ret, visited>>

\* Mutant of ReturnInner: the entry stays marked.
ReturnInnerMarked ==
  /\ pc = "return" /\ stack # <<>>
  /\ indirect' = [indirect EXCEPT ![stack[Len(stack)]] = ret]
  /\ stack' = SubSeq(stack, 1, Len(stack) - 1)
  /\ UNCHANGED <<pc, errors, requests, parsed, pairs, todo, type, arg, ret, visited>>

\* Mutant of ReturnInner: the result is not stored.
ReturnInnerLost ==
  /\ pc = "return" /\ stack # <<>>
  /\ type' = [type EXCEPT ![stack[Len(stack)]] = "done"]
  /\ stack' = SubSeq(stack, 1, Len(stack) - 1)
  /\ UNCHANGED <<pc, errors, requests, parsed, pairs, todo, indirect, arg, ret, visited>>

\* The recursive call returned: store its result and return it.
ReturnInner ==
  LET k == stack[Len(stack)] IN
  /\ pc = "return" /\ stack # <<>>
  /\ indirect' = [indirect EXCEPT ![k] = ret]
  /\ type' = [type EXCEPT ![k] = "done"]
  /\ stack' = SubSeq(stack, 1, Len(stack) - 1)
  /\ UNCHANGED <<pc, errors, requests, parsed, pairs, todo, arg, ret, visited>>

\* The outermost call returned to name_table_resolve_renames.
ReturnOuter ==
  /\ pc = "return" /\ stack = <<>>
  /\ pc' = "scan"
  /\ UNCHANGED <<errors, requests, parsed, pairs, todo, type, indirect, stack, arg, ret, visited>>

Terminated == pc \in {"done", "abort"} /\ UNCHANGED vars

Step ==
  \/ arg_data_add_rename
  \/ StartRename
  \/ name_table_add_rename
  \/ StartResolve
  \/ \E k \in Keys : ScanEntry(k)
  \/ EndScan
  \/ CallReturns
  \/ CallRecurses
  \/ ReturnInner
  \/ ReturnOuter

Next == Step \/ Terminated

Spec == Init /\ [][Next]_vars /\ WF_vars(Step)

-----------------------------------------------------------------------------
\* What a list of renamings means, without reference to the algorithm.

RenamedTo(ps, k) ==
  IF \E j \in DOMAIN ps : ps[j].from = k
  THEN ps[CHOOSE j \in DOMAIN ps : ps[j].from = k].to
  ELSE k

IsRenamed(ps, k) == \E j \in DOMAIN ps : ps[j].from = k

\* Walk(ps)[n][k]: the name of k after at most n renamings.
Walk(ps) ==
  LET w[n \in 0 .. Cardinality(Keys)] ==
        IF n = 0 THEN [k \in Keys |-> k]
                 ELSE [k \in Keys |-> RenamedTo(ps, w[n - 1][k])]
  IN w

\* The final name of k, NULL if its chain of renamings never ends.
FinalName(ps, k) ==
  LET last == Walk(ps)[Cardinality(Keys)][k]
  IN IF IsRenamed(ps, last) THEN NULL ELSE last

\* The cycles of the renaming, each as the set of its names.
Cycles(ps) ==
  LET w == Walk(ps)
      ahead(k) == {w[n][k] : n \in 1 .. Cardinality(Keys)}
  IN {ahead(k) : k \in {x \in Keys : IsRenamed(ps, x) /\ x \in ahead(x)}}

-----------------------------------------------------------------------------
\* At any time an entry is marked as cycling exactly while it is being
\* resolved, and it is being resolved by one call only: the recursion of
\* name_entry_resolve_renames is never deeper than there are entries.
CyclingIsOnStack ==
  /\ \A k \in Keys : type[k] = "cycling" <=> \E j \in DOMAIN stack : stack[j] = k
  /\ \A i, j \in DOMAIN stack : stack[i] = stack[j] => i = j

\* A resolved entry points to a place holder or is nil, never to another
\* renamed name, whatever the order of the table: name_table_add follows one
\* indirection only (name-table.c:91).
ResolvedInOneStep ==
  \A k \in Keys : type[k] = "done" =>
     indirect[k] = NULL \/ type[indirect[k]] = "place"

\* When the table has been resolved, every renamed name leads to the end of
\* its chain of renamings, and to nil if it leads into a cycle.
LeadsToFinalName ==
  pc = "done" => \A k \in Keys :
     IF IsRenamed(pairs, k)
     THEN type[k] = "done" /\ indirect[k] = FinalName(pairs, k)
     ELSE type[k] \in {"absent", "place"}

\* Every cycle of renamings is reported, and only once, however many names
\* lead into it and wherever the table starts; the other errors are the
\* renamings that were dropped.
EachCycleReportedOnce ==
  pc = "done" =>
    errors = (Len(requests) - Len(pairs)) + Cardinality(Cycles(pairs))

\* The renaming comes to an end, cycles or not.
RenamingTerminates == <>(pc \in {"done", "abort"})
=============================================================================
