------------------------------- MODULE MCDriver -------------------------------
(* Command lines for Driver: one to three inputs that enter at different stages, *)
(* and the options that change where files are put.                              *)
EXTENDS Driver

In(base, type) == [dir |-> "work", base |-> base, type |-> type]
Opt(k, type) == [type |-> type, k |-> k]

Plain == [opts |-> <<>>, inputs |-> <<In("p", "c")>>, make_complex |-> FALSE,
          make_up_names |-> FALSE, verbose |-> FALSE, tidy_up |-> FALSE, flag_keep_err |-> FALSE]

Flags(lines) ==
  UNION {{[a EXCEPT !.tidy_up = t, !.flag_keep_err = k] : t, k \in BOOLEAN} : a \in lines}

Lists == {<<In("p", "c"), In("q", "s")>>, <<In("p", "j"), In("a", "o")>>, <<In("p", "c"), In("q", "c")>>}

Options == {<<>>, <<Opt("dont_keep", "o")>>, <<Opt("stop", "o")>>, <<Opt("keep", "all")>>,
            <<Opt("keep", "t"), Opt("stop", "s")>>}

\* Separate compilation and linking.
PlainArgs == {[Plain EXCEPT !.inputs = i, !.opts = o] : i \in Lists, o \in Options}

\* Inputs of one name in two directories, with names made up.
MadeUpArgs ==
  {[Plain EXCEPT !.inputs = <<In("p", "c"), [In("p", "c") EXCEPT !.dir = "sub"]>>,
                 !.opts = o, !.make_up_names = TRUE] :
     o \in {<<>>, <<Opt("dont_keep", "o")>>}}

\* -M: "a.j" is also the name of the capsule that is built.
ComplexArgs ==
  {[Plain EXCEPT !.inputs = i, !.opts = o, !.make_complex = TRUE, !.verbose = v] :
     i \in {<<In("p", "c"), In("a", "c")>>, <<In("a", "j"), In("p", "c")>>,
            <<In("a", "c"), In("p", "o"), In("q", "j")>>},
     o \in {<<>>, <<Opt("keep", "j")>>, <<Opt("keep", "all")>>}, v \in BOOLEAN}

\* Options that contradict each other.
OptionArgs == {[Plain EXCEPT !.opts = <<o, p>>] :
                 o, p \in [type : {"t", "o", "all"}, k : {"keep", "dont_keep", "stop"}]}

AllArgs == Flags(PlainArgs \cup MadeUpArgs \cup ComplexArgs) \cup OptionArgs
===============================================================================
