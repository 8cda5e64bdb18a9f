------------------------------ MODULE Linkage -------------------------------
(***************************************************************************)
(* What a link promises about the capsules that end up in the output       *)
(* (tld/doc/userguide, "Library Capsules"), without tables, lists, passes  *)
(* or the order in which a capsule is read.  The inputs are linked in      *)
(* order; then capsules of libraries are linked, each because a name that  *)
(* some linked capsule uses is not defined by any of them.                 *)
(***************************************************************************)
EXTENDS Naturals, Sequences

CONSTANTS NULL, Names, Capsules

VARIABLES
  inputs,     \* the input capsules, in order
  mentions,   \* the external names of each capsule
  uses,       \* those that it uses,
  defines,    \* those that it defines uniquely,
  multiples,  \* and those that it gives one of several definitions of
  index,      \* the library capsule that defines a name
  uniquely,   \* the names that have a unique definition in the libraries
  linked,     \* the capsules that are linked
  done        \* the link is complete

given == <<inputs, mentions, uses, defines, multiples, index, uniquely>>
vars == <<given, linked, done>>

Init == linked = {} /\ done = FALSE

InputsLinked == \A j \in DOMAIN inputs : inputs[j] \in linked

LinkInput(j) ==
  /\ inputs[j] \notin linked /\ \A k \in 1 .. j - 1 : inputs[k] \in linked
  /\ linked' = linked \cup {inputs[j]}
  /\ UNCHANGED <<given, done>>

\* A linked capsule uses the name and none defines it.  If some of them give
\* multiple definitions then only a unique definition is wanted.
Wanted(n) ==
  /\ \E c \in linked : n \in uses[c]
  /\ \A c \in linked : n \notin defines[c]
  /\ (\E c \in linked : n \in multiples[c]) => n \in uniquely

Available(n) == index[n] # NULL /\ index[n] \notin linked

LinkLibrary(n) ==
  /\ ~done /\ InputsLinked /\ Wanted(n) /\ Available(n)
  /\ linked' = linked \cup {index[n]}
  /\ UNCHANGED <<given, done>>

\* Nothing is linked after this.  A name may be left without its definition
\* only if some linked capsule mentions it without using it.
Finish ==
  /\ ~done /\ InputsLinked
  /\ \A n \in Names : Wanted(n) /\ Available(n) =>
        \E c \in linked : n \in mentions[c] \ uses[c]
  /\ done' = TRUE
  /\ UNCHANGED <<given, linked>>

Next ==
  \/ \E j \in DOMAIN inputs : LinkInput(j)
  \/ \E n \in Names : LinkLibrary(n)
  \/ Finish

Spec == Init /\ [][Next]_vars
=============================================================================
