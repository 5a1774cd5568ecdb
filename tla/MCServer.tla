------------------------------ MODULE MCServer ------------------------------
(* Model-checking instance of Server: x has a rule in both tables, with       *)
(* fallback lists that differ; y only in the second, with no candidates.      *)
EXTENDS Server

MCTables == << [rules |-> [x |-> <<"jp", "us">>], default |-> <<"us">>],
               [rules |-> [x |-> <<"us", "jp">>, y |-> <<>>], default |-> <<"jp", "us">>] >>
=============================================================================
