------------------------------ MODULE MCReload ------------------------------
(* Model-checking instances of Reload: a and b route differently, aCase       *)
(* routes like a but spells a name differently, noStart is refused by         *)
(* merge_settings only, bad by parse_yaml or from_yaml.                       *)
EXTENDS Reload

CONSTANTS t1, t2, noThread

MCThread == {t1, t2}

MCFingerprint == [a |-> 1, aCase |-> 1, b |-> 2, noStart |-> 3]
MCHostNames == [a |-> "n.com", aCase |-> "N.com", b |-> "m.com", noStart |-> "k.com"]
=============================================================================
