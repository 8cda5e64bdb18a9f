--------------------------- MODULE LinkerLinkage ----------------------------
(***************************************************************************)
(* The linker implements Linkage, as long as no error is reported.  What   *)
(* Linkage is given is computed from the files and the command line alone, *)
(* not from the tables of the linker.                                      *)
(***************************************************************************)
EXTENDS Linker

\* The linker information of the capsule has the usages of names of the shape.
Informs(c, s) ==
  \/ file[c].tld = "tld1"
  \/ file[c].tld \in {"tld0", "tld2"} /\ s \in {Token, Tag}

\* The external name j of the capsule stands for n, and has the usage.
Says(c, j, n, bit) ==
  LET e == file[c].externs[j]
  IN indirect[e.name] = n /\ bit \in e.use /\ Informs(c, ShapeOf[e.name])

Mentions(c, n) == \E j \in DOMAIN file[c].externs : indirect[file[c].externs[j].name] = n

\* The names, after renaming, that the capsule has the usage for.
With(c, bit) == {n \in Names : \E j \in DOMAIN file[c].externs : Says(c, j, n, bit)}

\* The places in the indices of the libraries, and what is there.
Places == UNION {{j} \X DOMAIN args.libs[j].index : j \in DOMAIN args.libs}
Indexed(p) == args.libs[p[1]].index[p[2]]

\* The places that give the name the usage.
Giving(n, bit) == {p \in Places : indirect[Indexed(p).name] = n /\ bit \in Indexed(p).use}

Earlier(p, q) == p[1] < q[1] \/ (p[1] = q[1] /\ p[2] < q[2])

\* The definition of a name in the libraries: the first unique one, else the only
\* multiple one.
IndexDefinition(n) ==
  LET unique == Giving(n, "DEFD")
      multiple == Giving(n, "MULT")
  IN CASE unique # {} ->
            Indexed(CHOOSE p \in unique : \A q \in unique : q = p \/ Earlier(p, q)).cap
       [] unique = {} /\ (\E p \in multiple : multiple = {p}) ->
            Indexed(CHOOSE p \in multiple : TRUE).cap
       [] OTHER -> NULL

UniqueIn(n) == Giving(n, "DEFD") # {}

\* Suppressing leaves a name without a definition in the libraries.
Suppressed(n) ==
  \/ Asked(args.suppresses, n)
  \/ args.suppress_mult /\ ~UniqueIn(n)

Abstract ==
  INSTANCE Linkage WITH
    inputs    <- args.inputs,
    mentions  <- [c \in Capsules |-> {n \in Names : Mentions(c, n)}],
    uses      <- [c \in Capsules |-> With(c, "USED")],
    defines   <- [c \in Capsules |-> With(c, "DEFD")],
    multiples <- [c \in Capsules |-> With(c, "MULT")],
    index     <- [n \in Names |-> IF Suppressed(n) THEN NULL ELSE IndexDefinition(n)],
    uniquely  <- {n \in Names : UniqueIn(n)},
    linked    <- complete,
    done      <- AfterResolve

\* Every link is a link in the sense of the user guide: a capsule comes into the
\* output only as an input or because a name that is used lacks a definition,
\* the index decides which one, and a name that is only ever mentioned where it
\* is used or defined does not stay without its definition.
ImplementsLinkage == Abstract!Spec
=============================================================================
