----------------------------- MODULE MCCapsule ------------------------------
(***************************************************************************)
(* Instances of Capsule: two tags a and b and a token t, and families of   *)
(* capsule files.                                                          *)
(***************************************************************************)
EXTENDS Capsule

MCNames == {"a", "b", "t"}
MCShapes == {"tag", "token"}
MCShapeOf == [n \in MCNames |-> IF n = "t" THEN "token" ELSE "tag"]

\* No renaming, b renamed to a, b in a cycle.
Same == [n \in MCNames |-> n]
Merged == [Same EXCEPT !["b"] = "a"]
InCycle == [Same EXCEPT !["b"] = NULL]

NoFault == [at |-> "none", item |-> 0]

\* A well-formed capsule of the current version.
Plain(externs, us) ==
  [major |-> 4, minor |-> 1, tld |-> "tld1", shapes |-> <<"token", "tag">>,
   nids |-> [s \in MCShapes |-> MaxLocal], externs |-> externs, units |-> us,
   fault |-> NoFault]

Ext(n, i, u) == <<[name |-> n, id |-> i, use |-> u]>>
Unit(counted) == <<[op |-> "unit", shape |-> "tag", ext |-> 0, counted |-> counted]>>
TagLink(i) == <<[op |-> "link", shape |-> "tag", ext |-> i, counted |-> {}]>>
Body == <<[op |-> "body", shape |-> "tag", ext |-> 0, counted |-> {}]>>

\* Usages: what a legal capsule may say of a tag, and some that it may not.
TagUses == {{"USED", "DECD"}, {"DECD", "DEFD"}, {"DECD", "MULT"}, {"DECD", "DEFD", "MULT"}}

UsageContents ==
  {Plain(Ext("t", 0, {"MULT"}) \o Ext("a", 0, {"DECD", "DEFD"}), <<>>),
   Plain(Ext("a", 0, {"DEFD"}), <<>>)}
  \cup {Plain(a \o b, <<>>) :
      a \in {<<>>} \cup {Ext("a", 0, u) : u \in TagUses \cup {{"MULT"}}},
      b \in {<<>>} \cup {Ext("b", 1, u) : u \in {{"DECD", "DEFD"}, {"DECD", "MULT"}}}}

\* Identifiers: names bound to any identifier, out of range and twice, and
\* units with links to any identifier; numbered, as which of the two capsules has
\* which contents makes no difference.
BindA == <<<<>>, Ext("a", 0, {"USED"}), Ext("a", 1, {"USED"})>>
BindB == <<<<>>, Ext("b", 0, {"USED"}), Ext("b", 1, {"USED"}), Ext("b", 2, {"USED"})>>
LinkTwo(i, j) == Unit({"tag"}) \o TagLink(i) \o TagLink(j) \o Body
Units == <<<<>>, LinkTwo(0, 0), LinkTwo(0, 1), LinkTwo(1, 0), LinkTwo(1, 2)>>

IdContent(k) ==
  Plain(BindA[1 + (k % 3)] \o BindB[1 + ((k \div 3) % 4)], Units[1 + (k \div 12)])

OneCapsule == CHOOSE c \in Capsules : TRUE

IdFiles ==
  {[c \in Capsules |-> IdContent(IF c = OneCapsule THEN p[1] ELSE p[2])] :
      p \in {q \in (0 .. 59) \X (0 .. 59) : q[1] <= q[2]}}

\* Faults: capsules that go wrong at any stage, that have another version, or
\* linker information of another kind.
Full == Plain(Ext("t", 0, {"DEFD"}) \o Ext("a", 0, {"DECD", "DEFD"}) \o Ext("b", 1, {"USED"}),
              Unit({"tag"}) \o TagLink(1) \o TagLink(0) \o Body)

Faults ==
  [at : {"header", "sets", "eof"}, item : {1}] \cup [at : {"shapes", "units"}, item : {1, 2}]
  \cup [at : {"names", "usage", "token", "tag"}, item : {1, 3, 4}]

FaultContents ==
  {[[Full EXCEPT !.fault = f] EXCEPT !.tld = v] : f \in Faults, v \in {"tld1", "tld0"}}
  \cup {[Full EXCEPT !.tld = v] : v \in {"tld2", "none"}}
  \cup {[Full EXCEPT !.major = 3],
        [Full EXCEPT !.shapes = <<"token", "tag", "tag">>],
        [Full EXCEPT !.externs[2].use = {"OTHER"}]}

SoundContents ==
  {[Full EXCEPT !.major = m, !.minor = k] : m \in {4, 5}, k \in {0, 2}}
  \cup {[Full EXCEPT !.tld = "tld0"]}

\* One capsule that may be malformed and one that is not, in any order.
FaultFiles ==
  {[c \in Capsules |-> IF c = OneCapsule THEN f ELSE g] : f \in FaultContents, g \in SoundContents}

ReadFiles == IdFiles \cup FaultFiles

RenameChoices == {Same, Merged, InCycle}
NoCycles == {Same, Merged}
OneMajor == {4}
NoMajor == {}
=============================================================================
