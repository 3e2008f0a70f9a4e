---------------------------- MODULE MCScriptRuntime ----------------------------
(* Two scripts of one file name in different folders, which require each   *)
(* other and are both entry scripts.                                       *)
EXTENDS ScriptRuntime, TLC

MCRequires == [s \in Scripts |-> Scripts \ {s}]
SharedName == [s \in Scripts |-> "name"]
MCFlagSets == {{"cache_dir"}, {"cache_dir", "noemit", "cache_clean"}, {"nocacherequire", "diff_only"}}
Symmetry == Permutations(Procs) \cup Permutations(Texts) \cup Permutations(Scripts)
=============================================================================
