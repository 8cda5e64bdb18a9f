--------------------------------- MODULE MCSid ---------------------------------
(***************************************************************************)
(* Grammars for SidParser: an entry point S that calls P, which calls Q.   *)
(***************************************************************************)
EXTENDS SidParser

Names == <<"g1", "g2", "g3", "g4", "g5", "g6", "g7", "g8">>

R(alts, empty) == [alts |-> alts, empty |-> empty]
Used(rs) == UNION {UNION {Range(a) : a \in Range(rs[r].alts)} : r \in DOMAIN rs}

\* A grammar that declares what it uses.
Grammar(entries, rs) ==
  [entries |-> entries, rules |-> rs, basics |-> Used(rs) \cap {"x", "y", "eof"},
   actions |-> Used(rs) \cap {"act"}]

\* Every way to write a rule with at most n of the given alternatives.
RulesOver(pool, n) ==
  {R(SetToSeq(as), e) : as \in {a \in SUBSET pool : Cardinality(a) \in 1 .. n}, e \in BOOLEAN}

Start == R(<< <<"P", "eof">> >>, FALSE)

PoolP == {<<"x">>, <<"P">>, <<"Q">>, <<"x", "Q">>, <<"P", "x">>, <<"Q", "y">>,
          <<"P", "y", "x">>, <<"act", "x">>, <<"x", "act", "y">>, <<"Q", "P">>}
PoolQ == {<<"x">>, <<"y">>, <<"act", "y">>, <<"Q", "y">>, <<"x", "Q">>, <<"x", "P">>}

Calls(r, x) == \E a \in Range(r.alts) : x \in Range(a)
Pairs ==
  {Grammar(<<"S">>, IF Calls(p, "Q") THEN [S |-> Start, P |-> p, Q |-> q]
                    ELSE [S |-> Start, P |-> p]) :
     p \in RulesOver(PoolP, 2), q \in RulesOver(PoolQ, 2) \cup {R(<<>>, TRUE)}}

\* Grammars that reach what the pairs do not: something that is not used, two equal
\* entry points, expansions that need more new rules than FactorLimit, a rule
\* that begins with itself behind one that can be seen through.
Singles == {
  [Grammar(<<"S">>, [S |-> Start, P |-> R(<< <<"x">> >>, FALSE)]) EXCEPT !.basics = @ \cup {"y"}],
  Grammar(<<"S", "P", "Q">>,
    [S |-> Start, P |-> R(<< <<"x">>, <<"y">> >>, FALSE),
     Q |-> R(<< <<"x">>, <<"y">> >>, FALSE)]),
  Grammar(<<"S">>,
    [S |-> Start, P |-> R(<< <<"Q", "x">>, <<"T", "y">> >>, FALSE),
     Q |-> R(<< <<"x", "Q">>, <<"x">> >>, FALSE), T |-> R(<< <<"x", "T">>, <<"x">> >>, FALSE)]),
  Grammar(<<"S">>,
    [S |-> Start, P |-> R(<< <<"Q", "P", "x">> >>, FALSE), Q |-> R(<< <<"y">> >>, TRUE)])}

\* No left recursive cycle of two rules: see MutualGrammars.
MCGrammars == Pairs \cup Singles

\* A rule that begins with itself behind one that can be seen through.
EndlessGrammars ==
  {Grammar(<<"S">>, [S |-> Start, P |-> R(<< <<"Q", "P", "x">> >>, FALSE),
                     Q |-> R(<< <<"y">> >>, TRUE)])}

\* Two rules that begin with each other.
MutualGrammars ==
  {Grammar(<<"S">>, [S |-> Start, P |-> R(<< <<"Q", "x">>, <<"y">> >>, FALSE),
                     Q |-> R(<< <<"P", "y">>, <<"x">> >>, FALSE)])}

================================================================================
