------------------------------- MODULE SidParser -------------------------------
(***************************************************************************)
(* The parser that sid writes (lang-c/c-output.c): a function for each     *)
(* rule, that selects an alternative by the next token.  Calls are a stack *)
(* of items that are still to be parsed.  Calls that are inlined and tail  *)
(* calls that are jumps do the same.                                       *)
(***************************************************************************)
EXTENDS Sid

CONSTANTS
  MaxTokens,   \* bound on the number of tokens before the end of the input
  MaxSentence, \* bound on the length of the sentences that are compared
  Eof          \* the basic at the end of the input

VARIABLES
  entry,  \* the entry point that is called; NULL: none yet
  input,  \* the tokens
  rest,   \* those that were not read
  calls,  \* items that are still to be parsed
  done,   \* the basics that were read and the actions that were performed
  status  \* "wait", "parse", "return" or "fail"

parserVars == <<entry, input, rest, calls, done, status>>
vars == <<sidVars, parserVars>>

Init ==
  /\ SidInit /\ entry = NULL /\ input = <<>> /\ rest = <<>> /\ calls = <<>> /\ done = <<>>
  /\ status = "wait"

\* CURRENT_TERMINAL: the lexer goes on to say that the input has ended.
Current == IF rest = <<>> THEN Eof ELSE Head(rest)

\* rule_compute_alt_first_sets_1.
AltFirstSet(r, a) ==
  FirstOf(a) \cup (IF IsThrough(a) THEN follows[r] ELSE {})

\* rule_compute_see_through_alt_1: the first alternative that can be seen through.
SeeThroughAlt(r) ==
  IF HasEmptyAlt(r) \/ SeeThroughAlts(r) = <<>> THEN NULL ELSE SeeThroughAlts(r)[1]

\* A program calls an entry point of the parser.  A parser is written for a grammar
\* with errors too, and is not used.
CallEntry ==
  /\ phase = "output" /\ ~errored /\ status = "wait" /\ status' = "parse"
  /\ \E e \in Range(source.entries), w \in BoundedSeq(source.basics \ {Eof}, MaxTokens) :
       entry' = e /\ calls' = <<e>> /\ input' = Append(w, Eof) /\ rest' = input'
  /\ UNCHANGED <<sidVars, done>>

Parsing == status = "parse" /\ calls # <<>>
Enter(a) == calls' = a \o Tail(calls) /\ UNCHANGED <<sidVars, entry, input, rest, done, status>>
Fail == status' = "fail" /\ UNCHANGED <<sidVars, entry, input, rest, calls, done>>

\* c_output_rule: a rule with one alternative parses it; else there is a switch over
\* the first sets of the alternatives, and the default is the alternative that can be
\* seen through, the empty one or an error.
CallRule ==
  /\ Parsing /\ IsRule(Head(calls))
  /\ LET r == Head(calls)
         see == SeeThroughAlt(r)
         cases == SelectSeq(Alts(r), LAMBDA a : a # see /\ Current \in AltFirstSet(r, a))
     IN IF HasOneAlt(r) THEN Enter(IF HasEmptyAlt(r) THEN <<>> ELSE Alts(r)[1])
        ELSE IF cases # <<>> THEN Enter(cases[1])
        ELSE IF see # NULL THEN Enter(see)
        ELSE IF HasEmptyAlt(r) THEN Enter(<<>>)
        ELSE Fail

\* c_output_basic_in_alt: ADVANCE_LEXER, or the error handler.
MatchBasic ==
  /\ Parsing /\ Head(calls) \in source.basics
  /\ IF Current = Head(calls)
     THEN /\ calls' = Tail(calls) /\ done' = Append(done, Head(calls))
          /\ rest' = IF rest = <<>> THEN <<>> ELSE Tail(rest)
          /\ UNCHANGED <<sidVars, entry, input, status>>
     ELSE Fail

\* c_output_action_in_alt.
PerformAction ==
  /\ Parsing /\ Head(calls) \in source.actions
  /\ calls' = Tail(calls) /\ done' = Append(done, Head(calls))
  /\ UNCHANGED <<sidVars, entry, input, rest, status>>

EntryReturns ==
  /\ status = "parse" /\ calls = <<>> /\ status' = "return"
  /\ UNCHANGED <<sidVars, entry, input, rest, calls, done>>

Step ==
  \/ SidStep /\ UNCHANGED parserVars
  \/ CallEntry \/ CallRule \/ MatchBasic \/ PerformAction \/ EntryReturns

HasEnded == Refused \/ status \in {"return", "fail"}
Ended == HasEnded /\ UNCHANGED vars
Next == Step \/ Ended

\* One process that takes a step until it has ended: WF_vars(Step), with HasEnded for
\* "no step is enabled" (which the run shows, since it finds no deadlock).
Spec == Init /\ [][Next]_vars /\ ([]<>HasEnded \/ []<><<Step>>_vars)

\* The same with the fairness as such, for instances that are small enough for it.
FairSpec == Init /\ [][Next]_vars /\ WF_vars(Step)

--------------------------------------------------------------------------------
\* What a grammar says of an input: the sentences of a rule over basics and actions,
\* those whose basics are a part of the input.
Tokens(t) == SelectSeq(t, LAMBDA x : x \in source.basics)
Parts(w) == {SubSeq(w, i, j) : i \in 1 .. Len(w) + 1, j \in 0 .. Len(w)}
Relevant(t, w) == Len(t) <= MaxSentence /\ Tokens(t) \in Parts(w)

RECURSIVE SentencesOf(_, _, _)
SentencesOf(lang, items, w) ==
  IF items = <<>> THEN { <<>> }
  ELSE LET heads == IF IsRule(Head(items)) THEN lang[Head(items)] ELSE { <<Head(items)>> }
       IN {t \in {h \o u : h \in heads, u \in SentencesOf(lang, Tail(items), w)} : Relevant(t, w)}

RECURSIVE Language(_, _)
Language(lang, w) ==
  LET rs == source.rules
      more == [r \in DOMAIN rs |->
                 UNION {SentencesOf(lang, a, w) : a \in Range(rs[r].alts)}
                   \cup (IF rs[r].empty THEN { <<>> } ELSE {})]
  IN IF more = lang THEN lang ELSE Language(more, w)

Sentences(r, w) == Language([q \in DOMAIN source.rules |-> {}], w)[r]

\* The parser is equivalent to the grammar that the user wrote, whatever was done to
\* the grammar: what it reads and performs is a sentence of the entry point, and if
\* the input is one then it reads all of it (main.c:440, "an equivalent LL(1) grammar").
ParserIsExact ==
  status \in {"return", "fail"} =>
    LET s == Sentences(entry, input)
    IN /\ status = "return" => done \in s
       /\ (\E t \in s : Tokens(t) = input) => status = "return" /\ Tokens(done) = input

--------------------------------------------------------------------------------
\* The usual definition of an LL(1) grammar, for the grammar that the user wrote, and
\* what sid asks for besides: no rule that can be empty starts with every basic
\* (rule-firsts.c:126), since the empty alternative would never be taken.
RECURSIVE Nullable(_)
Nullable(n) ==
  LET rs == source.rules
      more == {r \in DOMAIN rs : rs[r].empty \/ \E a \in Range(rs[r].alts) :
                 Range(a) \subseteq n \cup source.actions}
  IN IF more = n THEN n ELSE Nullable(more)
NullRules == Nullable({})

SkipsTo(items) == {j \in DOMAIN items : Range(SubSeq(items, 1, j - 1)) \subseteq NullRules \cup source.actions}
IsNull(items) == Range(items) \subseteq NullRules \cup source.actions

\* The basics and rules that a list of items can begin with.
RECURSIVE Begins(_)
Begins(seen) ==
  LET rs == source.rules
      new == UNION {{a[j] : j \in SkipsTo(a)} : a \in UNION {Range(rs[r].alts) : r \in seen \cap DOMAIN rs}}
  IN IF new \subseteq seen THEN seen ELSE Begins(seen \cup new)
First(items) == Begins({items[j] : j \in SkipsTo(items)})
FirstBasics(items) == First(items) \cap source.basics

\* The basics that can follow the rules.
RECURSIVE Following(_)
Following(f) ==
  LET rs == source.rules
      After(q, a, i) ==
        LET tail == SubSeq(a, i + 1, Len(a))
        IN FirstBasics(tail) \cup (IF IsNull(tail) THEN f[q] ELSE {})
      more == [r \in DOMAIN rs |->
                 UNION {UNION {After(q, a, i) : i \in {k \in DOMAIN a : a[k] = r}} :
                          <<q, a>> \in UNION {{q} \X Range(rs[q].alts) : q \in DOMAIN rs}}]
  IN IF more = f THEN f ELSE Following(more)

LL1 ==
  LET rs == source.rules
      follow == Following([r \in DOMAIN rs |-> {}])
      Director(r, a) == FirstBasics(a) \cup (IF IsNull(a) THEN follow[r] ELSE {})
  IN \A r \in DOMAIN rs :
       LET as == rs[r].alts \o (IF rs[r].empty THEN << <<>> >> ELSE <<>>)
       IN /\ \A i \in DOMAIN rs[r].alts : r \notin First(as[i])
          /\ \A i, j \in DOMAIN as : i # j =>
               /\ Director(r, as[i]) \cap Director(r, as[j]) = {}
               /\ ~(IsNull(as[i]) /\ IsNull(as[j]))
          /\ r \in NullRules => UNION {FirstBasics(as[i]) : i \in DOMAIN as} # source.basics

\* An LL(1) grammar that uses everything it declares is not rejected, whatever order
\* the rules are looked at in (transformations.xml: the transformations are there to
\* allow more than LL(1), never less).
LL1IsAccepted ==
  Refused /\ LL1 =>
    ~((DOMAIN source.rules \cup source.basics \cup source.actions) \subseteq Reached(source.rules))

\* sid and the parser that it writes end for every grammar and every input, but for one
\* case: a rule is expanded into itself, after the error that its first set cannot be
\* computed (rule-firsts.c:46) was reported and passed over.
SidEnds == <>(HasEnded \/ (Copying /\ errored))

\* Factorisation ends (rule-factor.c:95: "It is possible that this final stage of the
\* factorization process will go on forever.  To prevent this, there is a limit on the
\* number of new rules that can be created").
FactorisationEnds == (phase = "factor") ~> (phase \in {"simplify", "fatal"})
================================================================================
