----------------------------- MODULE MCBuilder ------------------------------
(***************************************************************************)
(* Instances of Builder, with the names of MCCapsule: capsules l1 and l2   *)
(* of a library to include, input capsules i1 and i2.                      *)
(***************************************************************************)
EXTENDS Builder, MCCapsule

CONSTANTS i1, i2, l1, l2

Capsule(a, b) ==
  Plain((IF a = {} THEN <<>> ELSE Ext("a", 0, a)) \o (IF b = {} THEN <<>> ELSE Ext("b", 1, b)),
        <<>>)

Broken(f) == [f EXCEPT !.fault = [at |-> "eof", item |-> 1]]

Unique == {"DECD", "DEFD"}
Several == {"DECD", "MULT"}
Uses == {"USED", "DECD"}

BuildFiles ==
  {[c \in Capsules |->
      CASE c = l1 -> Capsule(u, {})
        [] c = l2 -> Capsule({}, v)
        [] c = i1 -> w
        [] OTHER -> Plain(Ext("a", 0, x) \o Ext("t", 0, {"DEFD"}), <<>>)] :
     u \in {Unique, Several}, v \in {Uses, Several},
     w \in {Capsule(Several, Unique), Broken(Capsule(Several, Unique)), Capsule(Uses, Uses)},
     x \in {Uses, Unique, Several}}

Include(caps) ==
  [opens |-> TRUE, badheader |-> FALSE, major |-> 4, caps |-> caps, cut |-> Len(caps),
   index |-> "good"]

\* Libraries to include, well-formed and not.
Included ==
  {Include(<<>>), Include(<<l1>>), Include(<<l1, l2>>), [Include(<<l1, l2>>) EXCEPT !.cut = 0],
   [Include(<<l1, l2>>) EXCEPT !.cut = 1], [Include(<<l1>>) EXCEPT !.cut = 0],
   [Include(<<l1>>) EXCEPT !.opens = FALSE], [Include(<<l1>>) EXCEPT !.badheader = TRUE],
   [Include(<<l1>>) EXCEPT !.index = "double"], [Include(<<l1>>) EXCEPT !.index = "bad"],
   [Include(<<l1>>) EXCEPT !.major = 3]}

\* Suppression by name and by shape.
Suppressions ==
  {<<>>, <<[shape |-> "tag", all |-> FALSE, names |-> {"a"}]>>,
   <<[shape |-> "token", all |-> TRUE, names |-> {}]>>}

BuildLine(libs, inputs) ==
  [libs |-> libs, inputs |-> inputs, missing |-> {}, suppress_mult |-> FALSE,
   suppresses |-> <<>>, writable |-> TRUE]

MCBuildArgs ==
  {[BuildLine(<<x>>, inputs) EXCEPT !.missing = missing] :
      x \in Included, inputs \in {<<i1>>, <<i1, i2>>, <<i2, i1>>}, missing \in {{}, {i1}}}
  \cup {[BuildLine(libs, inputs) EXCEPT !.suppress_mult = m, !.suppresses = s] :
           libs \in {<<Include(<<l1, l2>>)>>, <<Include(<<l1>>), Include(<<l2>>)>>},
           inputs \in {<<i1>>, <<i1, i2>>}, m \in BOOLEAN, s \in Suppressions}
  \cup {[BuildLine(<<>>, <<i1>>) EXCEPT !.writable = FALSE]}

OnlySame == {Same}
=============================================================================
