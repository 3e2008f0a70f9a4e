----------------------------- MODULE MCLiveReload -----------------------------
(* A script that requires the others.                                      *)
EXTENDS LiveReload, TLC

MCRequires == [s \in Scripts |-> IF s = Entry THEN Scripts \ {s} ELSE {}]
OwnName == [s \in Scripts |-> "name"]
NoFlags == {{}}
SomeFlags == {{}, {"diff_only"}}
=============================================================================
