------------------------------ MODULE FreshCache ------------------------------
(***************************************************************************)
(* What a caller of IOPrefetchManager relies on, without its cache, file   *)
(* map, prefetches or locks: files that change, the versions of each file  *)
(* that are held somewhere and may be served, and the version that the     *)
(* invalidations so far vouch for.                                         *)
(*                                                                         *)
(* What comes to be held is a version that the file had, and is not older  *)
(* than what an invalidation vouches for.  Anything may be thrown away at  *)
(* any time.  An invalidation vouches for a version only when nothing of   *)
(* the path is held, and no later one takes that back.                     *)
(***************************************************************************)
EXTENDS Naturals

CONSTANT Paths

VARIABLES version,          \* the current version of each file
          floor,            \* the version that is vouched for
          held              \* the versions that are held of each file

vars == <<version, floor, held>>

Init == /\ version = [p \in Paths |-> 0]
        /\ floor = [p \in Paths |-> 0]
        /\ held = [p \in Paths |-> {}]

FileChanges(p) == /\ version' = [version EXCEPT ![p] = @ + 1]
                  /\ UNCHANGED <<floor, held>>

\* A version of p is held from now on, and others may give way to it.
Hold(p, v) == /\ v \in floor[p] .. version[p]
              /\ held' \in [Paths -> SUBSET Nat]
              /\ held'[p] \subseteq held[p] \cup {v}
              /\ \A q \in Paths \ {p} : held'[q] \subseteq held[q]
              /\ UNCHANGED <<version, floor>>

Drop == /\ held' \in [Paths -> SUBSET Nat]
        /\ \A p \in Paths : held'[p] \subseteq held[p]
        /\ UNCHANGED <<version, floor>>

Vouch(p, v) == /\ held[p] = {} /\ v \in floor[p] .. version[p]
               /\ floor' = [floor EXCEPT ![p] = v]
               /\ UNCHANGED <<version, held>>

Next == \/ \E p \in Paths : FileChanges(p)
        \/ \E p \in Paths : \E v \in floor[p] .. version[p] : Hold(p, v) \/ Vouch(p, v)
        \/ Drop

Spec == Init /\ [][Next]_vars
=============================================================================
