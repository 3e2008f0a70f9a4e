---------------------------- MODULE ScriptRuntime ----------------------------
(***************************************************************************)
(* FlowScriptRequireRuntime: processes that run an entry script and the    *)
(* scripts it requires, over the script cache they share on disk.          *)
(*                                                                         *)
(* ExecuteScriptFile takes a lock directory, reads the source, decides     *)
(* whether the cached text may be used, rebuilds the cache otherwise,      *)
(* records hashes in a metadata file and runs the text.  The lock is held  *)
(* until the script has ended, and nested calls hold theirs as well.       *)
(* Every access to a file is one action; a rename is atomic.               *)
(*                                                                         *)
(* The lock directory lies beside the script.  The cache file and the      *)
(* metadata lie in a directory of the script's own, or, with --cache_dir,  *)
(* in a directory given to the process, under the script's file name: two  *)
(* scripts of one name then share them, under different locks.             *)
(*                                                                         *)
(* A hash is equal to another iff the texts are, so metadata holds the     *)
(* texts themselves.  TypeScript compilation, which precedes the lock, the *)
(* diff file and the validation statistics are left out.                   *)
(***************************************************************************)
EXTENDS Naturals, Sequences, FiniteSets

CONSTANTS Procs,            \* processes
          Scripts,          \* executable paths
          Entries,          \* the scripts that processes are started on
          FileName,         \* the name of each script's cache file below --cache_dir
          Requires,         \* the scripts that each script may require
          Texts,            \* contents of a script
          NoText,           \* no file, or no hash
          NoMeta,           \* no metadata file, or one without hashes
          Free, Stale,      \* a lock directory that does not exist; one that its maker left behind,
                            \* since it died or could not remove it
          FlagSets,         \* the sets of command-line flags that processes are started with
          Failures,         \* what may go wrong: "io", "crash", "fork"
          MaxEdits          \* bound on the edits of each script

ASSUME ScriptsAssumption == Entries \subseteq Scripts /\ Requires \in [Scripts -> SUBSET Scripts]
ASSUME NamesAssumption == \A s \in Scripts : FileName[s] \notin Scripts
ASSUME MarksAssumption == /\ Free \notin Procs /\ Stale \notin Procs /\ Free # Stale
                          /\ NoText \notin Texts
ASSUME MetaAssumption == NoMeta \notin [script : Texts, expanded : Texts, bin : Texts \cup {NoText}]
ASSUME EditsAssumption == MaxEdits \in Nat

VARIABLES text,             \* the content of each script file
          stamp,            \* its write time
          lock,             \* the lock directory of each script, and who made it
          cache,            \* the expanded text in each cache file
          meta,             \* the hashes in the metadata file beside it
          stack,            \* the ExecuteScriptFile calls of each process, the innermost first
          modules,          \* module_cache_ of each process
          flags,            \* EngineParams of each process
          raced             \* the cache files that two processes have worked on at once, for
                            \* two scripts (history)

files == <<text, stamp, lock, cache, meta>>
runtimeVars == <<files, stack, modules, flags, raced>>

-----------------------------------------------------------------------------
Flags == {"nocacherequire", "noemit", "cache_clean", "diff_only", "cache_dir"}

ASSUME FlagsAssumption == FlagSets \subseteq SUBSET Flags

Meta == [script : Texts, expanded : Texts, bin : Texts \cup {NoText}]

\* The cache files: one in a directory of each script's own, one for each name
\* below --cache_dir.
CacheFiles == Scripts \cup {FileName[s] : s \in Scripts}

Frame == [script : Scripts,
          pc : {"acquire", "read", "clean", "cleanMeta", "cache", "bytes", "meta", "rebuild",
                "reread", "hash", "emit", "run"},
          src : Texts \cup {NoText},        \* source
          cached : Texts \cup {NoText},     \* cached_expanded
          compiled : Texts \cup {NoText},   \* compiled_source
          bin : Texts \cup {NoText}]        \* what the hash of the file's bytes is the hash of

NewFrame(s) == [script |-> s, pc |-> "acquire", src |-> NoText, cached |-> NoText,
                compiled |-> NoText, bin |-> NoText]

RuntimeTypeOK ==
  /\ text \in [Scripts -> Texts \cup {NoText}]
  /\ stamp \in [Scripts -> 0 .. MaxEdits]
  /\ lock \in [Scripts -> Procs \cup {Free, Stale}]
  /\ cache \in [CacheFiles -> Texts \cup {NoText}]
  /\ meta \in [CacheFiles -> Meta \cup {NoMeta}]
  /\ stack \in [Procs -> Seq(Frame)]
  /\ modules \in [Procs -> SUBSET Scripts]
  /\ flags \in [Procs -> SUBSET Flags]
  /\ raced \subseteq CacheFiles

\* Nothing is cached or locked yet.
RuntimeInit ==
  /\ text \in [Scripts -> Texts]
  /\ stamp = [s \in Scripts |-> 0]
  /\ lock = [s \in Scripts |-> Free]
  /\ cache = [c \in CacheFiles |-> NoText]
  /\ meta = [c \in CacheFiles |-> NoMeta]
  /\ stack = [p \in Procs |-> <<>>]
  /\ modules = [p \in Procs |-> {}]
  /\ flags = [p \in Procs |-> {}]
  /\ raced = {}

Running(p) == stack[p] # <<>>
Top(p) == Head(stack[p])
At(p, pc) == Running(p) /\ Top(p).pc = pc
Goto(p, f, pc) == stack' = [stack EXCEPT ![p] = <<[f EXCEPT !.pc = pc]>> \o Tail(@)]

\* The cache file that p uses for s.
CachePath(p, s) == IF "cache_dir" \in flags[p] THEN FileName[s] ELSE s
TopPath(p) == CachePath(p, Top(p).script)

\* A call between the lock and the script's code, while it works on its cache file.
Working(f) == f.pc \notin {"acquire", "run"}

\* Another process is working on the cache file c, for another script than p is.
InUse(p, c) ==
  \E q \in Procs \ {p} : \E k \in DOMAIN stack[q] :
    /\ Working(stack[q][k]) /\ stack[q][k].script # Top(p).script
    /\ CachePath(q, stack[q][k].script) = c

\* A file operation gives v, or other on a failing disk.
Outcomes(v, other) == IF "io" \in Failures THEN {v, other} ELSE {v}

\* ~ScriptCacheLock removes the directory, whoever made it.  If that fails nobody is
\* told, and the directory that the call made stays behind.
Release(p, s) ==
  \E v \in Outcomes(Free, IF lock[s] = p THEN Stale ELSE lock[s]) :
    lock' = [lock EXCEPT ![s] = v]

\* ExecuteScriptFile returns from the innermost call.
Return(p) == stack' = [stack EXCEPT ![p] = Tail(@)]

-----------------------------------------------------------------------------
\* A process starts: RunEntry executes the entry script e.
StartProcess(p, e) ==
  /\ ~Running(p)
  /\ stack' = [stack EXCEPT ![p] = <<NewFrame(e)>>]
  /\ modules' = [modules EXCEPT ![p] = {}]
  /\ \E fs \in FlagSets : flags' = [flags EXCEPT ![p] = fs]
  /\ UNCHANGED <<files, raced>>

\* AcquireDirectoryLock: create_directory succeeds.
Acquire(p) ==
  /\ At(p, "acquire")
  /\ lock[Top(p).script] = Free
  /\ lock' = [lock EXCEPT ![Top(p).script] = p]
  /\ Goto(p, Top(p), "read")
  /\ raced' = IF InUse(p, TopPath(p)) THEN raced \cup {TopPath(p)} ELSE raced
  /\ UNCHANGED <<text, stamp, cache, meta, modules, flags>>

\* Fault: the lock object exists, and is destroyed, though it was not acquired.
AcquireFailsReleases(p) ==
  /\ At(p, "acquire")
  /\ lock[Top(p).script] # Free
  /\ Release(p, Top(p).script)
  /\ Return(p)
  /\ UNCHANGED <<text, stamp, cache, meta, modules, flags, raced>>

\* AcquireDirectoryLock: the directory was there at every attempt, or cannot be made.
AcquireFails(p) ==
  /\ At(p, "acquire")
  /\ lock[Top(p).script] # Free \/ "io" \in Failures
  /\ Return(p)
  /\ UNCHANGED <<files, modules, flags, raced>>

\* The source is read, if the file exists.
ReadSource(p) ==
  /\ At(p, "read")
  /\ LET f == [Top(p) EXCEPT !.src = text[Top(p).script]] IN
     IF f.src = NoText
     THEN Release(p, f.script) /\ Return(p)
     ELSE /\ UNCHANGED lock
          /\ IF "cache_clean" \in flags[p]
             THEN Goto(p, f, "clean")
             ELSE IF "nocacherequire" \in flags[p]
                  THEN Goto(p, [f EXCEPT !.compiled = f.src], "emit")
                  ELSE Goto(p, f, "cache")
  /\ UNCHANGED <<text, stamp, cache, meta, modules, flags, raced>>

\* --cache_clean removes the cache file, if it can ...
CleanCache(p) ==
  /\ At(p, "clean")
  /\ \E v \in Outcomes(NoText, cache[TopPath(p)]) : cache' = [cache EXCEPT ![TopPath(p)] = v]
  /\ Goto(p, Top(p), "cleanMeta")
  /\ UNCHANGED <<text, stamp, lock, meta, modules, flags, raced>>

\* ... and the metadata file.
CleanMeta(p) ==
  /\ At(p, "cleanMeta")
  /\ \E m \in Outcomes(NoMeta, meta[TopPath(p)]) : meta' = [meta EXCEPT ![TopPath(p)] = m]
  /\ IF "nocacherequire" \in flags[p]
     THEN Goto(p, [Top(p) EXCEPT !.compiled = Top(p).src], "emit")
     ELSE Goto(p, Top(p), "cache")
  /\ UNCHANGED <<text, stamp, lock, cache, modules, flags, raced>>

\* The cache file is read, if there is one.
ReadCache(p) ==
  /\ At(p, "cache")
  /\ \E v \in Outcomes(cache[TopPath(p)], NoText) :
       Goto(p, [Top(p) EXCEPT !.cached = v], IF v = NoText THEN "rebuild" ELSE "bytes")
  /\ UNCHANGED <<files, modules, flags, raced>>

\* Its bytes are read for their hash, which stays empty if that fails.
ReadBytes(p) ==
  /\ At(p, "bytes")
  /\ \E v \in Outcomes(cache[TopPath(p)], NoText) : Goto(p, [Top(p) EXCEPT !.bin = v], "meta")
  /\ UNCHANGED <<files, modules, flags, raced>>

\* Fault: the hash of the cached text is not compared.
HashMatchScriptOnly(m, f) == m # NoMeta /\ m.script = f.src

\* The hashes of the metadata are those of the source and of the cached text; those
\* of the bytes are compared if both are known.
HashMatch(m, f) ==
  /\ m # NoMeta /\ m.script = f.src /\ m.expanded = f.cached
  /\ m.bin = NoText \/ f.bin = NoText \/ m.bin = f.bin

\* The cached text is used if the hashes say so, or if it is the source.  What was
\* read from the cache is in scope no longer.
CheckMeta(p) ==
  /\ At(p, "meta")
  /\ LET f == Top(p) IN
     \E m \in Outcomes(meta[TopPath(p)], NoMeta) :
       IF HashMatch(m, f) \/ f.cached = f.src
       THEN Goto(p, [f EXCEPT !.compiled = f.cached, !.cached = NoText, !.bin = NoText], "hash")
       ELSE Goto(p, [f EXCEPT !.cached = NoText, !.bin = NoText], "rebuild")
  /\ UNCHANGED <<files, modules, flags, raced>>

\* RebuildCacheFromExpandedText: the file is replaced by a rename.
Rebuild(p) ==
  /\ At(p, "rebuild")
  /\ cache' = [cache EXCEPT ![TopPath(p)] = Top(p).src]
  /\ Goto(p, Top(p), "reread")
  /\ UNCHANGED <<text, stamp, lock, meta, modules, flags, raced>>

\* The new cache file is read back.  If that fails the metadata is replaced, when
\* it can be written, by one without hashes, and the call fails.
Reread(p) ==
  /\ At(p, "reread")
  /\ \E v \in Outcomes(cache[TopPath(p)], NoText) :
       IF v # NoText
       THEN Goto(p, [Top(p) EXCEPT !.compiled = v], "hash") /\ UNCHANGED <<lock, meta>>
       ELSE /\ \E m \in Outcomes(NoMeta, meta[TopPath(p)]) : meta' = [meta EXCEPT ![TopPath(p)] = m]
            /\ Release(p, Top(p).script)
            /\ Return(p)
  /\ UNCHANGED <<text, stamp, cache, modules, flags, raced>>

\* The cache file is read again for its own hash.
HashCache(p) ==
  /\ At(p, "hash")
  /\ \E v \in Outcomes(cache[TopPath(p)], NoText) : Goto(p, [Top(p) EXCEPT !.bin = v], "emit")
  /\ UNCHANGED <<files, modules, flags, raced>>

\* The hashes that write_metadata records for a call that is ready to run.
MetadataOf(f) == [script |-> f.src, expanded |-> f.compiled, bin |-> f.bin]

\* Fault: the early return of --diff_only leaves the lock directory.
EmitKeepsLock(p) ==
  /\ At(p, "emit")
  /\ LET f == Top(p) IN
     IF "diff_only" \in flags[p]
     THEN Return(p) /\ UNCHANGED meta
     ELSE /\ meta' = [meta EXCEPT ![TopPath(p)] = MetadataOf(f)]
          /\ Goto(p, f, "run")
  /\ UNCHANGED <<text, stamp, lock, cache, modules, flags, raced>>

\* The metadata is written, unless --noemit, and the script is entered; with
\* --diff_only neither happens.  A module counts as loaded either way, and the hash
\* is not used any more.
Emit(p) ==
  /\ At(p, "emit")
  /\ LET f == Top(p) IN
     IF "diff_only" \in flags[p]
     THEN /\ Release(p, f.script) /\ Return(p)
          /\ modules' = IF Len(stack[p]) > 1
                        THEN [modules EXCEPT ![p] = @ \cup {f.script}] ELSE modules
          /\ UNCHANGED meta
     ELSE /\ meta' = IF "noemit" \in flags[p]
                     THEN meta
                     ELSE [meta EXCEPT ![TopPath(p)] = MetadataOf(f)]
          /\ Goto(p, [f EXCEPT !.bin = NoText], "run")
          /\ UNCHANGED <<lock, modules>>
  /\ UNCHANGED <<text, stamp, cache, flags, raced>>

\* The script that runs requires another one, which is neither loaded nor being
\* loaded.  The entry script is not in loading_modules_.
Require(p) ==
  /\ At(p, "run")
  /\ \E s \in Requires[Top(p).script] \ modules[p] :
       /\ \A k \in 1 .. Len(stack[p]) - 1 : stack[p][k].script # s
       /\ stack' = [stack EXCEPT ![p] = <<NewFrame(s)>> \o @]
  /\ UNCHANGED <<files, modules, flags, raced>>

\* The script ends.  Require keeps the exports of a script that did not throw.
ScriptEnds(p) ==
  /\ At(p, "run")
  /\ Release(p, Top(p).script)
  /\ \/ UNCHANGED modules
     \/ Len(stack[p]) > 1 /\ modules' = [modules EXCEPT ![p] = @ \cup {Top(p).script}]
  /\ Return(p)
  /\ UNCHANGED <<text, stamp, cache, meta, flags, raced>>

\* CommitTempFile fails: the old file is there, or was removed for the retry.
CommitFails(file, c, none) == {file, [file EXCEPT ![c] = none]}

\* The source cannot be read, or a file cannot be written, and the call fails.  A
\* rebuild that fails replaces the metadata as Reread does; before the metadata the
\* diff file is written, which leaves both alone.
IoFails(p) ==
  /\ "io" \in Failures
  /\ \/ At(p, "read") /\ UNCHANGED <<cache, meta>>
     \/ /\ At(p, "rebuild")
        /\ cache' \in CommitFails(cache, TopPath(p), NoText)
        /\ meta' \in CommitFails(meta, TopPath(p), NoMeta)
     \/ /\ At(p, "emit") /\ "noemit" \notin flags[p]
        /\ IF "diff_only" \in flags[p]
           THEN UNCHANGED meta
           ELSE meta' \in CommitFails(meta, TopPath(p), NoMeta)
        /\ UNCHANGED cache
  /\ Release(p, Top(p).script)
  /\ Return(p)
  /\ UNCHANGED <<text, stamp, modules, flags, raced>>

\* A process dies: its locks stay behind.
Die(p) ==
  /\ Running(p)
  /\ stack' = [stack EXCEPT ![p] = <<>>]
  /\ lock' = [s \in Scripts |-> IF lock[s] = p THEN Stale ELSE lock[s]]
  /\ UNCHANGED <<text, stamp, cache, meta, modules, flags, raced>>

\* The user saves or deletes a script.
Edit(s) ==
  /\ stamp[s] < MaxEdits
  /\ \E v \in (Texts \cup {NoText}) \ {text[s]} : text' = [text EXCEPT ![s] = v]
  /\ stamp' = [stamp EXCEPT ![s] = @ + 1]
  /\ UNCHANGED <<lock, cache, meta, stack, modules, flags, raced>>

-----------------------------------------------------------------------------
\* The runtime's own steps, up to the script's code.
RuntimeStep(p) ==
  \/ Acquire(p) \/ AcquireFails(p) \/ ReadSource(p) \/ CleanCache(p) \/ CleanMeta(p)
  \/ ReadCache(p) \/ ReadBytes(p) \/ CheckMeta(p) \/ Rebuild(p) \/ Reread(p) \/ HashCache(p)
  \/ Emit(p)

\* The script's code.
ScriptStep(p) == Require(p) \/ ScriptEnds(p)

ProcessStep(p) == RuntimeStep(p) \/ ScriptStep(p) \/ IoFails(p)

RuntimeNext ==
  \/ \E p \in Procs : \/ \E e \in Entries : StartProcess(p, e)
                      \/ ProcessStep(p)
                      \/ "crash" \in Failures /\ Die(p)
  \/ \E s \in Scripts : Edit(s)

RuntimeSpec == RuntimeInit /\ [][RuntimeNext]_runtimeVars

-----------------------------------------------------------------------------
\* A call of ExecuteScriptFile that is past the lock has it, alone: the lock
\* directory of a script is made by the one call that is working on that script
\* (AcquireDirectoryLock, ~ScriptCacheLock).
LockExclusive ==
  \A p, q \in Procs : \A k \in DOMAIN stack[p], m \in DOMAIN stack[q] :
    LET f == stack[p][k]
        g == stack[q][m] IN
    f.pc # "acquire" => /\ lock[f.script] = p
                        /\ f.script = g.script /\ g.pc # "acquire" => p = q /\ k = m

\* Every way out of ExecuteScriptFile tries to remove the lock: one that exists has a
\* call that will, or its maker died or failed to remove it and it is Stale.
NoLeakedLock ==
  \A s \in Scripts : lock[s] \in Procs =>
    \E k \in DOMAIN stack[lock[s]] : /\ stack[lock[s]][k].script = s
                                     /\ stack[lock[s]][k].pc # "acquire"

\* The cache is transparent: a script runs the text that was read from its file
\* after the lock was taken, whatever crashes, failed writes, edits and flags left
\* in the cache and metadata files; except from a file below --cache_dir that calls
\* for two scripts of one name have worked on at the same time, under their two locks.
RunsWhatItRead ==
  \A p \in Procs : \A k \in DOMAIN stack[p] :
    LET f == stack[p][k] IN
    f.pc = "run" /\ CachePath(p, f.script) \notin raced => f.compiled = f.src

\* Only a shared file is ever excepted.
RacedShared ==
  \A c \in raced : \E s, r \in Scripts : s # r /\ FileName[s] = c /\ FileName[r] = c

\* A process works on one file at a time: its outer calls run their scripts.
OuterCallsRun == \A p \in Procs : \A k \in DOMAIN stack[p] : k # 1 => stack[p][k].pc = "run"

RacesSeen ==
  \A p, q \in Procs : \A k \in DOMAIN stack[p], m \in DOMAIN stack[q] :
    LET f == stack[p][k]
        g == stack[q][m] IN
    /\ p # q /\ Working(f) /\ Working(g)
    /\ CachePath(p, f.script) = CachePath(q, g.script)
    => CachePath(p, f.script) \in raced

\* What makes the cache transparent: metadata never vouches for a text that is not
\* its script's, and a call past the rebuild has its own text.
MetaHonest == \A c \in CacheFiles \ raced : meta[c] # NoMeta => meta[c].expanded = meta[c].script

HasOwnText ==
  \A p \in Procs : \A k \in DOMAIN stack[p] :
    LET f == stack[p][k]
        c == CachePath(p, f.script) IN
    /\ f.pc \notin {"acquire", "read"} => f.src # NoText
    /\ f.pc \in {"bytes", "meta"} => f.cached # NoText
    /\ f.pc \in {"hash", "emit", "run"} => f.compiled # NoText
    /\ c \notin raced /\ f.pc = "reread" => cache[c] = f.src
    /\ c \notin raced /\ f.pc \in {"hash", "emit", "run"} => f.compiled = f.src

RuntimeInv ==
  /\ RuntimeTypeOK /\ LockExclusive /\ NoLeakedLock
  /\ RacedShared /\ OuterCallsRun /\ RacesSeen /\ MetaHonest /\ HasOwnText
=============================================================================
