------------------------------ MODULE MCLinker ------------------------------
(***************************************************************************)
(* Instances of Linker, with the names and the capsule files of MCCapsule: *)
(* input capsules i1 (and i2), library capsules l1, l2 and l3.             *)
(***************************************************************************)
EXTENDS LinkerLinkage, MCCapsule

CONSTANTS i1, i2, l1, l2, l3

\* What a capsule says about a name; usages of tags.
Declares == {"DECD"}
Defines == {"DECD", "DEFD"}
Multiple == {"DECD", "MULT"}
Needs == {"USED", "DECD"}

\* A capsule with the given usages of the tags a and b and of the token t.
AB(a, b, t) ==
  Plain((IF a = {} THEN <<>> ELSE Ext("a", 0, a))
          \o (IF b = {} THEN <<>> ELSE Ext("b", 1, b))
          \o (IF t = {} THEN <<>> ELSE Ext("t", 0, t)), <<>>)

Entry(n, u, c) == <<[name |-> n, use |-> u, cap |-> c]>>
Lib(index) == [opens |-> TRUE, major |-> 4, index |-> index, fault |-> -1]

\* A command line with the given input files and libraries and no options.
CommandLine(inputs, libs) ==
  [inputs |-> inputs, missing |-> {}, libs |-> libs, suppress_mult |-> FALSE,
   suppresses |-> <<>>, hide_defd |-> FALSE, hides |-> <<>>, keeps |-> <<>>, writable |-> TRUE]

-----------------------------------------------------------------------------
\* Resolving: one input, three library capsules that define one name each and
\* may use the others.
ResolveFiles ==
  {[c \in Capsules |->
      CASE c = l1 -> AB(u1, v1, {})
        [] c = l2 -> AB(u2, Defines, w2)
        [] c = l3 -> AB(u3, Declares, {"DEFD"})
        [] OTHER -> AB(u, v, w)] :
     u1 \in {Defines, Multiple}, v1 \in {{}, Needs}, u2 \in {{}, Needs}, w2 \in {{}, {"USED"}},
     u3 \in {{}, Needs}, u \in {{}, Needs, Needs \cup Multiple}, v \in {{}, Declares, Needs},
     w \in {{}, {"USED"}}}

ResolveArgs ==
  {[CommandLine(<<i1>>, <<Lib(Entry("a", u, l1) \o Entry("t", {"DEFD"}, l3)),
                   Lib(Entry("b", Defines, l2))>>) EXCEPT !.suppress_mult = m] :
      u \in {Defines, Multiple}, m \in BOOLEAN}

-----------------------------------------------------------------------------
\* A name that is declared before it is used by a library capsule: i1 declares b
\* and needs a, l1 defines a and needs b, l2 defines b.
DeclaredFirst ==
  {[c \in Capsules |->
      CASE c = l1 -> AB(Defines, Needs, {})
        [] c = l2 -> AB({}, Defines, {})
        [] OTHER -> Plain(Ext("b", 1, Declares) \o Ext("a", 0, Needs), <<>>)]}

DeclaredArgs ==
  {CommandLine(<<i1>>, <<Lib(Entry("a", Defines, l1) \o Entry("b", Defines, l2))>>)}

-----------------------------------------------------------------------------
\* Options: i1 defines a and needs b and t, which l1 and l2 define; every way
\* to suppress, to hide and to keep, by name and by shape, also names that are
\* not there and names that are renamed.
OptionFiles ==
  {[c \in Capsules |->
      CASE c = l1 -> Plain(Ext("b", 0, Defines), Unit({"tag"}) \o TagLink(0) \o TagLink(1) \o Body)
        [] c = l2 -> AB({}, {}, {"DEFD"})
        [] OTHER -> AB(Defines, v, w)] : v \in {{}, Needs}, w \in {{}, {"USED"}}}

Tags(all, names) == <<[shape |-> "tag", all |-> all, names |-> names]>>
Tokens(all, names) == <<[shape |-> "token", all |-> all, names |-> names]>>

Controls ==
  {<<>>, Tags(TRUE, {}), Tags(FALSE, {"b"}), Tokens(TRUE, {}) \o Tags(FALSE, {"a"}),
   Tags(TRUE, {"b"}) \o Tokens(FALSE, {"t"})}

OptionArgs ==
  {[CommandLine(<<i1>>, <<Lib(Entry("b", Defines, l1) \o Entry("t", {"DEFD"}, l2))>>)
      EXCEPT !.suppresses = x, !.hide_defd = d, !.hides = y, !.keeps = z] :
      x \in Controls, d \in BOOLEAN, y \in Controls, z \in Controls}

-----------------------------------------------------------------------------
\* Errors: input files that are missing or malformed, libraries that are missing,
\* malformed or contradict each other, library capsules that are malformed.
Good == Plain(Ext("a", 0, Needs) \o Ext("t", 1, {"USED"}),
              Unit({"tag"}) \o TagLink(1) \o TagLink(0) \o Body)
Supply == Plain(Ext("a", 1, Defines) \o Ext("b", 0, Needs), Unit({"token"}) \o TagLink(1) \o Body)

Broken(f) ==
  {f} \cup {[f EXCEPT !.fault = [at |-> x, item |-> 1]] : x \in {"header", "sets", "names", "usage"}}
  \cup {[f EXCEPT !.fault = [at |-> "units", item |-> x]] : x \in {2, 3}}
  \cup {[f EXCEPT !.fault = [at |-> "eof", item |-> 1]]}

ErrorFiles ==
  {[c \in Capsules |->
      CASE c = i1 -> x
        [] c = i2 -> AB({}, Needs, {})
        [] c = l1 -> y
        [] OTHER -> AB({}, Defines, {"DEFD"})] : x \in Broken(Good), y \in Broken(Supply)}

First == Lib(Entry("t", {"DEFD"}, l2) \o Entry("a", Defines, l1))

Libraries ==
  {<<>>, <<First>>, <<First, Lib(Entry("b", Defines, l2))>>,
   <<Lib(Entry("a", Defines, l1) \o Entry("b", Defines, l1))>>}
  \cup {<<[First EXCEPT !.fault = x]>> : x \in 0 .. 3}
  \cup {<<[First EXCEPT !.opens = FALSE]>>, <<[First EXCEPT !.major = 3]>>,
        <<[First EXCEPT !.major = 5], First>>}
  \cup {<<Lib(Entry("a", Multiple, l1)), Lib(Entry("a", Multiple, l2) \o x)>> :
           x \in {<<>>, Entry("a", Multiple, l1), Entry("a", Defines, l1)}}
  \cup {<<First, Lib(Entry(n, u, l2) \o Entry("b", Defines, l2))>> :
           n \in {"a", "t"}, u \in {Defines, {"DEFD"}, {"MULT"}, {"OTHER"}}}

ErrorArgs ==
  {[CommandLine(<<i1, i2>>, x) EXCEPT !.missing = m] : x \in Libraries, m \in {{}, {i1}, {i1, i2}}}
  \cup {[CommandLine(<<i1>>, <<First>>) EXCEPT !.writable = FALSE],
        [CommandLine(<<i1>>, <<First>>) EXCEPT !.suppresses = Tags(FALSE, {"b"})],
        [CommandLine(<<i1>>, <<First>>) EXCEPT !.hides = Tags(FALSE, {"a", "b"})],
        [CommandLine(<<i1>>, <<>>) EXCEPT !.keeps = Tags(FALSE, {"a", "b"}) \o Tokens(TRUE, {})]}

-----------------------------------------------------------------------------
\* Usages: three inputs that say anything of a and b, so in any order, and no library.
UsageFiles == [Capsules -> UsageContents]

UsageArgs == {CommandLine(<<i1, i2, l1>>, <<>>)}

-----------------------------------------------------------------------------
SameOrCycle == {Same, InCycle}
OnlySame == {Same}

\* Options on sound files, errors, or usages of all kinds.
ControlFiles == OptionFiles \cup ErrorFiles \cup UsageFiles
ControlArgs == OptionArgs \cup ErrorArgs \cup UsageArgs
ControlInit ==
  /\ \/ file \in OptionFiles /\ indirect \in RenameChoices /\ args \in OptionArgs
     \/ file \in ErrorFiles /\ indirect \in SameOrCycle /\ args \in ErrorArgs
     \/ /\ \E f \in [Capsules \ {l2} -> UsageContents] :
             file = [c \in Capsules |-> IF c = l2 THEN AB({}, {}, {}) ELSE f[c]]
        /\ indirect \in NoCycles /\ args \in UsageArgs
  /\ LinkerInit
ControlSpec == ControlInit /\ [][LinkerNext]_vars /\ WF_vars(LinkerStep)
=============================================================================
