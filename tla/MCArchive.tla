------------------------------ MODULE MCArchive ------------------------------
(* Up to two files whose lengths lie around the size of the buffer. *)
EXTENDS Archive

Contents == {<<>>, <<"u">>, <<"u", "v">>, <<"u", "v", "u">>, <<"v", "v", "u", "u">>}
FileOf(base, type, bs) == [name |-> [base |-> base, type |-> type], bytes |-> bs]

Kind(t, files, names, links) ==
  {[archive_type |-> t, files |-> fs, options |-> <<"y", "z">>, archive_names |-> names,
    archive_links |-> links, archive_options |-> o] : fs \in files, o \in BOOLEAN}

Capsules == {<<FileOf("p", "j", b)>> : b \in Contents} \cup
            {<<FileOf("p", "j", b), FileOf(n, "j", c)>> : b, c \in Contents, n \in {"p", "q"}}

HiddenArgs == Kind("ta", Capsules, FALSE, FALSE)
JoinedArgs == Kind("o", {<<FileOf("p", "b", <<"u">>), FileOf("p", "k", <<"v">>)>>}, TRUE, FALSE)

\* Archives of capsules, and links to spec files.
GoodArgs == Kind("ta", Capsules, TRUE, FALSE) \cup
            Kind("o", {<<FileOf("p", "k", <<>>), FileOf("q", "k", <<>>)>>}, TRUE, TRUE) \cup
            JoinedArgs
===============================================================================
