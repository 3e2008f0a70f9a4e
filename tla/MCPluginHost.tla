---------------------------- MODULE MCPluginHost ----------------------------
(* Model-checking instances of PluginHost.                                 *)
EXTENDS PluginHost, TLC

\* Clients and workers are interchangeable, and so are call names.
Symmetry == Permutations(Clients) \cup Permutations(Workers) \cup Permutations(Names)
=============================================================================
