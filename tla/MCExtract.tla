----------------------------- MODULE MCExtract ------------------------------
(***************************************************************************)
(* Extract with the capsules of MCBuilder, in files with and without       *)
(* directories.                                                            *)
(***************************************************************************)
EXTENDS Extract, MCBuilder

\* i2 and l1 have the same file name and i1 the same last component.
PathOf == [c \in Capsules |-> CASE c = i1 -> "d/x" [] c = l2 -> "e/z" [] OTHER -> "x"]
MCBaseName == [f \in {"d/x", "x", "y", "e/z", "z"} |->
                 CASE f = "d/x" -> "x" [] f = "e/z" -> "z" [] OTHER -> f]

Ask(all, base, match, files) ==
  [all |-> all, use_basename |-> base, match_basename |-> match, files |-> files]

MCExtractArgs ==
  {Ask(TRUE, u, FALSE, <<>>) : u \in BOOLEAN}
  \cup {Ask(FALSE, u, m, f) : u \in BOOLEAN, m \in BOOLEAN,
           f \in {<<"x">>, <<"d/x", "x">>, <<"z", "y">>, <<"e/z", "x">>}}

ExtractBuilds ==
  {BuildLine(<<Include(<<l1, l2>>)>>, inputs) : inputs \in {<<i1>>, <<i1, i2>>}}
  \cup {[BuildLine(<<>>, <<i1, i2>>) EXCEPT !.missing = {i2}]}

ExtractFiles ==
  {[c \in Capsules |-> IF c = i1 THEN f ELSE Capsule(Uses, {})] :
     f \in {Capsule(Unique, {}), Broken(Capsule(Unique, {}))}}

\* A file that cannot be written.
Protected == {"e/z"}

\* All ways to build a library, then everything is extracted; and all ways to
\* extract from some libraries.
LibraryFiles == BuildFiles \cup ExtractFiles
LibraryBuilds == MCBuildArgs \cup ExtractBuilds
LibraryInit ==
  /\ \/ file \in BuildFiles /\ bargs \in MCBuildArgs /\ xarg = Ask(TRUE, FALSE, FALSE, <<>>)
     \/ file \in ExtractFiles /\ bargs \in ExtractBuilds
  /\ ExtractInit
LibrarySpec == LibraryInit /\ [][ExtractNext]_extractAllVars
=============================================================================
