---------------------------------- MODULE MCIo ----------------------------------
(***************************************************************************)
(* The users of the thread pool in async_io, checked in one run: a         *)
(* behaviour exercises the file objects or the prefetch manager, chosen by *)
(* the initial state.                                                      *)
(*                                                                         *)
(* Files have one byte, so that a second read is short.  Prefetches are of *)
(* the first byte and of the whole of a file of two: together they are     *)
(* more than the cache holds.                                              *)
(***************************************************************************)
EXTENDS AsyncFile, Prefetch

MCFileSize == [f \in Files |-> 1]
MCRegions == {[off |-> 0, len |-> 1], [off |-> 0, len |-> 2]}

VARIABLE unit

IoInit == unit \in {"files", "prefetch"} /\ FileInit /\ PrefetchInit

IoNext ==
  \/ unit = "files" /\ FileNext /\ UNCHANGED <<unit, prefetchVars>>
  \/ unit = "prefetch" /\ PrefetchNext /\ UNCHANGED <<unit, fileVars>>

\* In the unit that is not exercised no fair action is enabled.
IoSpec == IoInit /\ [][IoNext]_<<unit, fileVars, prefetchVars>> /\ FileFairness
=============================================================================
