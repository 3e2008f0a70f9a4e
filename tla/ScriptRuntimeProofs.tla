------------------------- MODULE ScriptRuntimeProofs -------------------------
(***************************************************************************)
(* Proofs about ScriptRuntime, and about LiveReload, its watch mode, for   *)
(* any processes, scripts, texts, flags and failures, unless a theorem     *)
(* says otherwise.                                                         *)
(*                                                                         *)
(* RuntimeInv is inductive.  A step of a process either replaces its       *)
(* innermost call (Advance), leaves it and removes the lock (Leave), or    *)
(* enters a new one, so the actions are proved from a lemma for each.      *)
(***************************************************************************)
EXTENDS LiveReload, TLAPS

-----------------------------------------------------------------------------
(* Stacks of calls                                                         *)

\* The innermost call is replaced.
LEMMA ReplaceTop ==
  ASSUME NEW T, NEW s \in Seq(T), s # <<>>, NEW g \in T
  PROVE  /\ <<g>> \o Tail(s) \in Seq(T)
         /\ DOMAIN (<<g>> \o Tail(s)) = DOMAIN s
         /\ (<<g>> \o Tail(s))[1] = g
         /\ \A k \in DOMAIN s : k # 1 => (<<g>> \o Tail(s))[k] = s[k]
  OBVIOUS

\* The innermost call returns.
LEMMA PopTop ==
  ASSUME NEW T, NEW s \in Seq(T), s # <<>>
  PROVE  /\ Tail(s) \in Seq(T)
         /\ \A k \in DOMAIN Tail(s) : /\ k + 1 \in DOMAIN s /\ k + 1 # 1
                                      /\ k \in Nat /\ Tail(s)[k] = s[k + 1]
         /\ \A k \in DOMAIN s : k # 1 => /\ k \in Nat /\ k - 1 \in DOMAIN Tail(s)
                                         /\ Tail(s)[k - 1] = s[k]
  OBVIOUS

\* A call is entered.
LEMMA PushTop ==
  ASSUME NEW T, NEW s \in Seq(T), NEW g \in T
  PROVE  /\ <<g>> \o s \in Seq(T)
         /\ 1 \in DOMAIN (<<g>> \o s) /\ (<<g>> \o s)[1] = g
         /\ \A k \in DOMAIN (<<g>> \o s) :
              k # 1 => /\ k - 1 \in DOMAIN s /\ k \in Nat
                       /\ (<<g>> \o s)[k] = s[k - 1]
         /\ \A k \in DOMAIN s : /\ k + 1 \in DOMAIN (<<g>> \o s) /\ k \in Nat
                                /\ (<<g>> \o s)[k + 1] = s[k]
  OBVIOUS

LEMMA TopFrame ==
  ASSUME RuntimeTypeOK, NEW p \in Procs, Running(p)
  PROVE  /\ stack[p] \in Seq(Frame) /\ stack[p] # <<>>
         /\ 1 \in DOMAIN stack[p] /\ Top(p) = stack[p][1] /\ Top(p) \in Frame
  BY DEF RuntimeTypeOK, Running, Top

-----------------------------------------------------------------------------
(* What the invariant says of one call                                     *)

\* The cache file of s for a process with the flags fs.
PathFor(fs, s) == IF "cache_dir" \in fs THEN FileName[s] ELSE s

LEMMA PathForCacheFile ==
  /\ \A fs : \A s \in Scripts : PathFor(fs, s) \in CacheFiles
  /\ \A p, s : CachePath(p, s) = PathFor(flags[p], s)
  /\ \A p : TopPath(p) = PathFor(flags[p], Top(p).script)
  BY DEF PathFor, CachePath, TopPath, CacheFiles

\* The part of HasOwnText about the call f, when its cache file holds t and is
\* one (ok) that no two processes have worked on at once.
OwnText(f, ok, t) ==
  /\ f.pc \notin {"acquire", "read"} => f.src # NoText
  /\ f.pc \in {"bytes", "meta"} => f.cached # NoText
  /\ f.pc \in {"hash", "emit", "run"} => f.compiled # NoText
  /\ ok /\ f.pc = "reread" => t = f.src
  /\ ok /\ f.pc \in {"hash", "emit", "run"} => f.compiled = f.src

\* The path of the k-th call of p.
CallPath(p, k) == PathFor(flags[p], stack[p][k].script)

LEMMA CallFacts ==
  ASSUME RuntimeInv, NEW p \in Procs, NEW k \in DOMAIN stack[p]
  PROVE  /\ stack[p][k] \in Frame /\ stack[p][k].script \in Scripts
         /\ CallPath(p, k) \in CacheFiles
         /\ OwnText(stack[p][k], CallPath(p, k) \notin raced, cache[CallPath(p, k)])
         /\ stack[p][k].pc # "acquire" => lock[stack[p][k].script] = p
         /\ k # 1 => stack[p][k].pc = "run"
<1>1. stack[p] \in Seq(Frame)
  BY DEF RuntimeInv, RuntimeTypeOK
<1>2. stack[p][k] \in Frame /\ stack[p][k].script \in Scripts
  <2>1. stack[p][k] \in Frame
    BY <1>1
  <2>2. QED
    BY <2>1 DEF Frame
<1>3. CallPath(p, k) = CachePath(p, stack[p][k].script) /\ CallPath(p, k) \in CacheFiles
  BY <1>2, PathForCacheFile DEF CallPath
<1>4. OwnText(stack[p][k], CallPath(p, k) \notin raced, cache[CallPath(p, k)])
  BY <1>3 DEF RuntimeInv, HasOwnText, OwnText
<1>5. QED
  BY <1>2, <1>3, <1>4 DEF RuntimeInv, LockExclusive, OuterCallsRun

\* Two calls past the lock of a script are one call.
LEMMA OneHolder ==
  ASSUME RuntimeInv, NEW p \in Procs, NEW q \in Procs,
         NEW k \in DOMAIN stack[p], NEW m \in DOMAIN stack[q],
         stack[p][k].script = stack[q][m].script,
         stack[p][k].pc # "acquire", stack[q][m].pc # "acquire"
  PROVE  p = q /\ k = m
  BY DEF RuntimeInv, LockExclusive

\* Two processes that work on one file have been seen.
LEMMA SeenRace ==
  ASSUME RuntimeInv, NEW p \in Procs, NEW q \in Procs, p # q,
         NEW k \in DOMAIN stack[p], NEW m \in DOMAIN stack[q],
         Working(stack[p][k]), Working(stack[q][m]), CallPath(p, k) = CallPath(q, m)
  PROVE  CallPath(p, k) \in raced
<1>1. /\ CachePath(p, stack[p][k].script) = CallPath(p, k)
      /\ CachePath(q, stack[q][m].script) = CallPath(q, m)
  BY PathForCacheFile DEF CallPath
<1>2. QED
  BY <1>1 DEF RuntimeInv, RacesSeen

\* What a call has is not disturbed by another call that writes its own cache file.
LEMMA Undisturbed ==
  ASSUME RuntimeInv, NEW p \in Procs, Running(p), Working(Top(p)),
         NEW q \in Procs, NEW k \in DOMAIN stack[q], ~(q = p /\ k = 1), NEW t,
         CallPath(q, k) # TopPath(p) => t = cache[CallPath(q, k)]
  PROVE  OwnText(stack[q][k], CallPath(q, k) \notin raced, t)
<1>1. OwnText(stack[q][k], CallPath(q, k) \notin raced, cache[CallPath(q, k)])
  BY CallFacts
<1>2. CASE stack[q][k].pc = "reread" /\ CallPath(q, k) = TopPath(p)
  <2>1. 1 \in DOMAIN stack[p] /\ Top(p) = stack[p][1]
    BY TopFrame DEF RuntimeInv
  <2>2. k = 1 /\ q # p
    BY <1>2, CallFacts
  <2>3. CallPath(p, 1) = TopPath(p) /\ Working(stack[q][k])
    BY <1>2, <2>1, PathForCacheFile DEF CallPath, Working
  <2>4. CallPath(q, k) \in raced
    BY <1>2, <2>1, <2>2, <2>3, SeenRace
  <2>5. QED
    BY <1>1, <1>2, <2>4 DEF OwnText
<1>3. CASE ~(stack[q][k].pc = "reread" /\ CallPath(q, k) = TopPath(p))
  BY <1>1, <1>3 DEF OwnText
<1>4. QED
  BY <1>2, <1>3

\* The invariant follows from what it says of each call, after a step.
LEMMA InvOfCalls ==
  ASSUME RuntimeTypeOK', MetaHonest', NoLeakedLock', RacedShared',
         \A p \in Procs : \A k \in DOMAIN stack'[p] :
            LET c == PathFor(flags'[p], stack'[p][k].script) IN
            /\ OwnText(stack'[p][k], c \notin raced', cache'[c])
            /\ stack'[p][k].pc # "acquire" => lock'[stack'[p][k].script] = p
            /\ k # 1 => stack'[p][k].pc = "run",
         \A p \in Procs : \A k, m \in DOMAIN stack'[p] :
            /\ stack'[p][k].script = stack'[p][m].script
            /\ stack'[p][k].pc # "acquire" /\ stack'[p][m].pc # "acquire"
            => k = m,
         \A p, q \in Procs : \A k \in DOMAIN stack'[p], m \in DOMAIN stack'[q] :
            /\ p # q /\ Working(stack'[p][k]) /\ Working(stack'[q][m])
            /\ PathFor(flags'[p], stack'[p][k].script) = PathFor(flags'[q], stack'[q][m].script)
            => PathFor(flags'[p], stack'[p][k].script) \in raced'
  PROVE  RuntimeInv'
<1>1. HasOwnText'
  BY DEF HasOwnText, OwnText, CachePath, PathFor
<1>2. LockExclusive'
  BY DEF LockExclusive
<1>3. RacesSeen'
  BY DEF RacesSeen, CachePath, PathFor, Working
<1>4. OuterCallsRun'
  BY DEF OuterCallsRun
<1>5. QED
  BY <1>1, <1>2, <1>3, <1>4 DEF RuntimeInv

-----------------------------------------------------------------------------
(* The three ways to change a stack                                        *)

\* The innermost call, past the lock, goes on.  It may write its cache file and the
\* metadata beside it.
LEMMA Advance ==
  ASSUME RuntimeInv, NEW p \in Procs, Running(p), Working(Top(p)),
         NEW g \in Frame, g.script = Top(p).script, g.pc # "acquire",
         stack' = [stack EXCEPT ![p] = <<g>> \o Tail(@)],
         UNCHANGED <<text, stamp, lock, modules, flags, raced>>,
         cache' \in [CacheFiles -> Texts \cup {NoText}],
         \A c \in CacheFiles : c # TopPath(p) => cache'[c] = cache[c],
         meta' \in [CacheFiles -> Meta \cup {NoMeta}], MetaHonest',
         OwnText(g, TopPath(p) \notin raced, cache'[TopPath(p)])
  PROVE  RuntimeInv'
<1>1. /\ stack[p] \in Seq(Frame) /\ stack[p] # <<>>
      /\ 1 \in DOMAIN stack[p] /\ Top(p) = stack[p][1] /\ Top(p) \in Frame
      /\ Top(p).pc # "acquire"
  BY TopFrame DEF RuntimeInv, Working
<1>2. stack \in [Procs -> Seq(Frame)]
  BY DEF RuntimeInv, RuntimeTypeOK
<1>3. /\ stack'[p] \in Seq(Frame) /\ DOMAIN stack'[p] = DOMAIN stack[p]
      /\ stack'[p][1] = g
      /\ \A k \in DOMAIN stack[p] : k # 1 => stack'[p][k] = stack[p][k]
  BY <1>1, <1>2, ReplaceTop
<1>4. /\ stack' \in [Procs -> Seq(Frame)]
      /\ \A q \in Procs : q # p => stack'[q] = stack[q]
  BY <1>2, <1>3
<1>5. \A q \in Procs : DOMAIN stack'[q] = DOMAIN stack[q]
  BY <1>3, <1>4
<1>6. \A q \in Procs : \A k \in DOMAIN stack[q] :
         /\ stack'[q][k].script = stack[q][k].script
         /\ stack'[q][k].pc # "acquire" <=> stack[q][k].pc # "acquire"
         /\ Working(stack'[q][k]) => Working(stack[q][k])
  BY <1>1, <1>3, <1>4
<1>7. RuntimeTypeOK'
  BY <1>4 DEF RuntimeInv, RuntimeTypeOK
<1>8. NoLeakedLock' /\ RacedShared'
  <2>1. RacedShared'
    BY DEF RuntimeInv, RacedShared
  <2> SUFFICES ASSUME NEW s \in Scripts, lock[s] \in Procs
               PROVE  \E k \in DOMAIN stack'[lock[s]] :
                         /\ stack'[lock[s]][k].script = s
                         /\ stack'[lock[s]][k].pc # "acquire"
    BY <2>1 DEF NoLeakedLock
  <2>2. PICK k \in DOMAIN stack[lock[s]] : /\ stack[lock[s]][k].script = s
                                           /\ stack[lock[s]][k].pc # "acquire"
    BY DEF RuntimeInv, NoLeakedLock
  <2>3. QED
    BY <1>5, <1>6, <2>2
<1>9. ASSUME NEW q \in Procs, NEW k \in DOMAIN stack'[q]
      PROVE  /\ PathFor(flags'[q], stack'[q][k].script) = CallPath(q, k)
             /\ OwnText(stack'[q][k], CallPath(q, k) \notin raced, cache'[CallPath(q, k)])
             /\ stack'[q][k].pc # "acquire" => lock'[stack'[q][k].script] = q
             /\ k # 1 => stack'[q][k].pc = "run"
  <2>1. k \in DOMAIN stack[q]
    BY <1>5
  <2>2. /\ PathFor(flags'[q], stack'[q][k].script) = CallPath(q, k)
        /\ stack'[q][k].pc # "acquire" => lock'[stack'[q][k].script] = q
    BY <1>6, <2>1, CallFacts DEF CallPath
  <2>3. k # 1 => stack'[q][k].pc = "run"
    BY <1>3, <1>4, <2>1, CallFacts
  <2>4. CASE q = p /\ k = 1
    <3>1. CallPath(p, 1) = TopPath(p)
      BY <1>1, PathForCacheFile DEF CallPath
    <3>2. QED
      BY <1>3, <2>2, <2>4, <3>1
  <2>5. CASE ~(q = p /\ k = 1)
    <3>1. stack'[q][k] = stack[q][k]
      BY <1>3, <1>4, <2>1, <2>5
    <3>2. CallPath(q, k) # TopPath(p) => cache'[CallPath(q, k)] = cache[CallPath(q, k)]
      BY <2>1, CallFacts
    <3>3. OwnText(stack[q][k], CallPath(q, k) \notin raced, cache'[CallPath(q, k)])
      BY <2>1, <2>5, <3>2, Undisturbed
    <3>4. QED
      BY <2>2, <2>3, <3>1, <3>3
  <2>6. QED
    BY <2>4, <2>5
<1>10. ASSUME NEW q \in Procs, NEW k \in DOMAIN stack'[q], NEW m \in DOMAIN stack'[q],
              stack'[q][k].script = stack'[q][m].script,
              stack'[q][k].pc # "acquire", stack'[q][m].pc # "acquire"
       PROVE  k = m
  <2>1. k \in DOMAIN stack[q] /\ m \in DOMAIN stack[q]
    BY <1>5
  <2>2. /\ stack[q][k].script = stack[q][m].script
        /\ stack[q][k].pc # "acquire" /\ stack[q][m].pc # "acquire"
    BY <1>6, <1>10, <2>1
  <2>3. QED
    BY <2>1, <2>2, OneHolder
<1>11. ASSUME NEW q \in Procs, NEW r \in Procs, q # r,
              NEW k \in DOMAIN stack'[q], NEW m \in DOMAIN stack'[r],
              Working(stack'[q][k]), Working(stack'[r][m]),
              PathFor(flags'[q], stack'[q][k].script) = PathFor(flags'[r], stack'[r][m].script)
       PROVE  PathFor(flags'[q], stack'[q][k].script) \in raced'
  <2>1. k \in DOMAIN stack[q] /\ m \in DOMAIN stack[r]
    BY <1>5
  <2>2. Working(stack[q][k]) /\ Working(stack[r][m])
    BY <1>6, <1>11, <2>1
  <2>3. /\ PathFor(flags'[q], stack'[q][k].script) = CallPath(q, k)
        /\ PathFor(flags'[r], stack'[r][m].script) = CallPath(r, m)
    BY <1>9
  <2>4. CallPath(q, k) \in raced
    BY <1>11, <2>1, <2>2, <2>3, SeenRace
  <2>5. QED
    BY <2>3, <2>4
<1>12. ASSUME NEW q \in Procs, NEW k \in DOMAIN stack'[q], NEW c,
              c = PathFor(flags'[q], stack'[q][k].script)
       PROVE  /\ OwnText(stack'[q][k], c \notin raced', cache'[c])
              /\ stack'[q][k].pc # "acquire" => lock'[stack'[q][k].script] = q
              /\ k # 1 => stack'[q][k].pc = "run"
  <2>1. c = CallPath(q, k) /\ raced' = raced
    BY <1>9, <1>12
  <2>2. QED
    BY <1>9, <2>1
<1>13. \A q \in Procs : \A k \in DOMAIN stack'[q] :
          LET c == PathFor(flags'[q], stack'[q][k].script) IN
          /\ OwnText(stack'[q][k], c \notin raced', cache'[c])
          /\ stack'[q][k].pc # "acquire" => lock'[stack'[q][k].script] = q
          /\ k # 1 => stack'[q][k].pc = "run"
  BY <1>12
<1>14. \A q \in Procs : \A k, m \in DOMAIN stack'[q] :
          /\ stack'[q][k].script = stack'[q][m].script
          /\ stack'[q][k].pc # "acquire" /\ stack'[q][m].pc # "acquire"
          => k = m
  BY <1>10
<1>15. \A q, r \in Procs : \A k \in DOMAIN stack'[q], m \in DOMAIN stack'[r] :
          /\ q # r /\ Working(stack'[q][k]) /\ Working(stack'[r][m])
          /\ PathFor(flags'[q], stack'[q][k].script) = PathFor(flags'[r], stack'[r][m].script)
          => PathFor(flags'[q], stack'[q][k].script) \in raced'
  BY <1>11
<1>16. QED
  BY <1>7, <1>8, <1>13, <1>14, <1>15, InvOfCalls

\* The innermost call returns.  If it has the lock it removes it, or leaves it behind;
\* it may have changed its cache file and the metadata.
LEMMA Leave ==
  ASSUME RuntimeInv, NEW p \in Procs, Running(p), Return(p),
         \/ Top(p).pc # "acquire" /\ Release(p, Top(p).script)
         \/ Top(p).pc = "acquire" /\ UNCHANGED lock,
         UNCHANGED <<text, stamp, flags, raced>>,
         modules' \in [Procs -> SUBSET Scripts],
         cache' \in [CacheFiles -> Texts \cup {NoText}],
         \/ cache' = cache
         \/ Working(Top(p)) /\ \A c \in CacheFiles : c # TopPath(p) => cache'[c] = cache[c],
         meta' \in [CacheFiles -> Meta \cup {NoMeta}], MetaHonest'
  PROVE  RuntimeInv'
<1> DEFINE Old(q, k) == IF q = p THEN k + 1 ELSE k
<1>1. /\ stack[p] \in Seq(Frame) /\ stack[p] # <<>>
      /\ 1 \in DOMAIN stack[p] /\ Top(p) = stack[p][1] /\ Top(p) \in Frame
      /\ Top(p).script \in Scripts
  <2>1. /\ stack[p] \in Seq(Frame) /\ stack[p] # <<>>
        /\ 1 \in DOMAIN stack[p] /\ Top(p) = stack[p][1] /\ Top(p) \in Frame
    BY TopFrame DEF RuntimeInv
  <2>2. QED
    BY <2>1, CallFacts
<1>2. stack \in [Procs -> Seq(Frame)] /\ lock \in [Scripts -> Procs \cup {Free, Stale}]
  BY DEF RuntimeInv, RuntimeTypeOK
<1>3. /\ stack'[p] \in Seq(Frame)
      /\ \A k \in DOMAIN stack'[p] : /\ k + 1 \in DOMAIN stack[p] /\ k + 1 # 1
                                      /\ k \in Nat /\ stack'[p][k] = stack[p][k + 1]
      /\ \A k \in DOMAIN stack[p] : k # 1 => /\ k \in Nat /\ k - 1 \in DOMAIN stack'[p]
                                              /\ stack'[p][k - 1] = stack[p][k]
  <2>1. stack'[p] = Tail(stack[p])
    BY <1>2 DEF Return
  <2>2. QED
    BY <1>1, <2>1, PopTop
<1>4. /\ stack' \in [Procs -> Seq(Frame)]
      /\ \A q \in Procs : q # p => stack'[q] = stack[q]
  BY <1>2, <1>3 DEF Return
<1>5. ASSUME NEW q \in Procs, NEW k \in DOMAIN stack'[q]
      PROVE  /\ Old(q, k) \in DOMAIN stack[q] /\ ~(q = p /\ Old(q, k) = 1)
             /\ stack'[q][k] = stack[q][Old(q, k)]
             /\ k # 1 => Old(q, k) # 1
  BY <1>3, <1>4
<1>6. ASSUME NEW q \in Procs, NEW k \in DOMAIN stack'[q], NEW m \in DOMAIN stack'[q],
             Old(q, k) = Old(q, m)
      PROVE  k = m
  BY <1>3, <1>6
<1> HIDE DEF Old
<1>7. /\ \A s \in Scripts : s # Top(p).script => lock'[s] = lock[s]
      /\ Top(p).pc # "acquire" => lock'[Top(p).script] \in {Free, Stale}
      /\ Top(p).pc = "acquire" => lock' = lock
      /\ lock' \in [Scripts -> Procs \cup {Free, Stale}]
  <2>1. CASE Top(p).pc = "acquire"
    BY <1>2, <2>1
  <2>2. CASE Top(p).pc # "acquire"
    <3>1. lock[Top(p).script] = p
      BY <1>1, <2>2, CallFacts
    <3>2. PICK v \in {Free, Stale} : lock' = [lock EXCEPT ![Top(p).script] = v]
      BY <2>2, <3>1 DEF Release, Outcomes
    <3>3. QED
      BY <1>1, <1>2, <2>2, <3>2
  <2>3. QED
    BY <2>1, <2>2
<1>8. RuntimeTypeOK' /\ RacedShared'
  BY <1>4, <1>7 DEF RuntimeInv, RuntimeTypeOK, RacedShared
<1>9. NoLeakedLock'
  <2> SUFFICES ASSUME NEW s \in Scripts, lock'[s] \in Procs
               PROVE  \E k \in DOMAIN stack'[lock'[s]] :
                         /\ stack'[lock'[s]][k].script = s
                         /\ stack'[lock'[s]][k].pc # "acquire"
    BY DEF NoLeakedLock
  <2>1. lock'[s] = lock[s] /\ ~(s = Top(p).script /\ Top(p).pc # "acquire")
    BY <1>7, MarksAssumption
  <2>2. PICK k \in DOMAIN stack[lock[s]] : /\ stack[lock[s]][k].script = s
                                           /\ stack[lock[s]][k].pc # "acquire"
    BY <2>1 DEF RuntimeInv, NoLeakedLock
  <2>3. CASE lock[s] = p
    <3>1. k # 1
      BY <1>1, <2>1, <2>2, <2>3
    <3>2. k - 1 \in DOMAIN stack'[p] /\ stack'[p][k - 1] = stack[p][k]
      BY <1>3, <2>3, <3>1
    <3>3. QED
      BY <2>1, <2>2, <2>3, <3>2
  <2>4. CASE lock[s] # p
    BY <1>4, <2>1, <2>2, <2>4
  <2>5. QED
    BY <2>3, <2>4
<1>10. ASSUME NEW q \in Procs, NEW k \in DOMAIN stack'[q]
       PROVE  /\ PathFor(flags'[q], stack'[q][k].script) = CallPath(q, Old(q, k))
              /\ OwnText(stack'[q][k], CallPath(q, Old(q, k)) \notin raced,
                         cache'[CallPath(q, Old(q, k))])
              /\ stack'[q][k].pc # "acquire" => lock'[stack'[q][k].script] = q
              /\ k # 1 => stack'[q][k].pc = "run"
  <2> DEFINE o == Old(q, k)
             f == stack[q][o]
  <2>1. /\ o \in DOMAIN stack[q] /\ ~(q = p /\ o = 1)
        /\ stack'[q][k] = f /\ (k # 1 => o # 1)
    BY <1>5
  <2>2. /\ OwnText(f, CallPath(q, o) \notin raced, cache[CallPath(q, o)]) /\ f.script \in Scripts
        /\ CallPath(q, o) \in CacheFiles
        /\ f.pc # "acquire" => lock[f.script] = q
        /\ o # 1 => f.pc = "run"
    BY <2>1, CallFacts
  <2>3. f.pc # "acquire" /\ Top(p).pc # "acquire" => f.script # Top(p).script
    BY <1>1, <2>1, OneHolder
  <2>4. PathFor(flags'[q], stack'[q][k].script) = CallPath(q, o)
    BY <2>1 DEF CallPath
  <2>5. OwnText(f, CallPath(q, o) \notin raced, cache'[CallPath(q, o)])
    <3>1. CASE cache' = cache
      BY <2>2, <3>1
    <3>2. CASE Working(Top(p)) /\ \A c \in CacheFiles : c # TopPath(p) => cache'[c] = cache[c]
      BY <2>1, <2>2, <3>2, Undisturbed
    <3>3. QED
      BY <3>1, <3>2
  <2> HIDE DEF o, f
  <2>6. f.pc # "acquire" => lock'[f.script] = q
    BY <1>7, <2>2, <2>3
  <2>7. QED
    BY <2>1, <2>2, <2>4, <2>5, <2>6 DEF o
<1>11. ASSUME NEW q \in Procs, NEW k \in DOMAIN stack'[q], NEW m \in DOMAIN stack'[q],
              stack'[q][k].script = stack'[q][m].script,
              stack'[q][k].pc # "acquire", stack'[q][m].pc # "acquire"
       PROVE  k = m
  <2>1. Old(q, k) = Old(q, m)
    BY <1>5, <1>11, OneHolder
  <2>2. QED
    BY <1>6, <2>1
<1>12. ASSUME NEW q \in Procs, NEW r \in Procs, q # r,
              NEW k \in DOMAIN stack'[q], NEW m \in DOMAIN stack'[r],
              Working(stack'[q][k]), Working(stack'[r][m]),
              CallPath(q, Old(q, k)) = CallPath(r, Old(r, m))
       PROVE  CallPath(q, Old(q, k)) \in raced
  BY <1>5, <1>12, SeenRace
<1>13. QED
  BY <1>8, <1>9, <1>10, <1>11, <1>12, InvOfCalls

\* A call is entered: by the start of a process or by require.
LEMMA Enter ==
  ASSUME RuntimeInv, NEW p \in Procs, NEW s \in Scripts,
         stack' = [stack EXCEPT ![p] = <<NewFrame(s)>> \o @],
         \A k \in DOMAIN stack[p] : stack[p][k].pc = "run",
         UNCHANGED <<files, raced>>,
         modules' \in [Procs -> SUBSET Scripts], flags' \in [Procs -> SUBSET Flags],
         \A q \in Procs : stack[q] # <<>> => flags'[q] = flags[q]
  PROVE  RuntimeInv'
<1> DEFINE Old(q, k) == IF q = p THEN k - 1 ELSE k
           New(q, k) == IF q = p THEN k + 1 ELSE k
<1>1. NewFrame(s) \in Frame /\ NewFrame(s).pc = "acquire"
  BY DEF NewFrame, Frame
<1>2. stack \in [Procs -> Seq(Frame)]
  BY DEF RuntimeInv, RuntimeTypeOK
<1>3. UNCHANGED <<text, stamp, lock, cache, meta, raced>>
  BY DEF files
<1>4. /\ stack'[p] \in Seq(Frame)
      /\ 1 \in DOMAIN stack'[p] /\ stack'[p][1] = NewFrame(s)
      /\ \A k \in DOMAIN stack'[p] :
           k # 1 => /\ k - 1 \in DOMAIN stack[p] /\ k \in Nat
                    /\ stack'[p][k] = stack[p][k - 1]
      /\ \A k \in DOMAIN stack[p] : /\ k + 1 \in DOMAIN stack'[p] /\ k \in Nat
                                     /\ stack'[p][k + 1] = stack[p][k]
  <2>1. stack'[p] = <<NewFrame(s)>> \o stack[p] /\ stack[p] \in Seq(Frame)
    BY <1>2
  <2>2. QED
    BY <1>1, <2>1, PushTop
<1>5. /\ stack' \in [Procs -> Seq(Frame)]
      /\ \A q \in Procs : q # p => stack'[q] = stack[q]
  BY <1>2, <1>4
<1>6. ASSUME NEW q \in Procs, NEW k \in DOMAIN stack'[q], stack'[q][k].pc # "acquire"
      PROVE  Old(q, k) \in DOMAIN stack[q] /\ stack'[q][k] = stack[q][Old(q, k)]
  BY <1>1, <1>4, <1>5, <1>6
<1>7. ASSUME NEW q \in Procs, NEW k \in DOMAIN stack'[q], NEW m \in DOMAIN stack'[q],
             stack'[q][k].pc # "acquire", stack'[q][m].pc # "acquire",
             Old(q, k) = Old(q, m)
      PROVE  k = m
  BY <1>1, <1>4, <1>7
<1>8. ASSUME NEW q \in Procs, NEW k \in DOMAIN stack[q]
      PROVE  New(q, k) \in DOMAIN stack'[q] /\ stack'[q][New(q, k)] = stack[q][k]
  BY <1>4, <1>5
<1>9. ASSUME NEW q \in Procs, NEW k \in DOMAIN stack'[q], k # 1
      PROVE  stack'[q][k].pc = "run"
  <2>1. CASE q = p
    BY <1>4, <1>9, <2>1
  <2>2. CASE q # p
    BY <1>5, <1>9, <2>2, CallFacts
  <2>3. QED
    BY <2>1, <2>2
<1> HIDE DEF Old, New
<1>10. RuntimeTypeOK' /\ RacedShared' /\ MetaHonest'
  BY <1>3, <1>5 DEF RuntimeInv, RuntimeTypeOK, RacedShared, MetaHonest
<1>11. NoLeakedLock'
  <2>1. SUFFICES ASSUME NEW r \in Scripts, lock[r] \in Procs
                 PROVE  \E k \in DOMAIN stack'[lock[r]] :
                           /\ stack'[lock[r]][k].script = r
                           /\ stack'[lock[r]][k].pc # "acquire"
    BY <1>3 DEF NoLeakedLock
  <2>2. PICK k \in DOMAIN stack[lock[r]] : /\ stack[lock[r]][k].script = r
                                           /\ stack[lock[r]][k].pc # "acquire"
    BY <2>1 DEF RuntimeInv, NoLeakedLock
  <2>3. New(lock[r], k) \in DOMAIN stack'[lock[r]] /\ stack'[lock[r]][New(lock[r], k)] = stack[lock[r]][k]
    BY <1>8, <2>1, <2>2
  <2>4. QED
    BY <2>2, <2>3
<1>12. ASSUME NEW q \in Procs, NEW k \in DOMAIN stack'[q], stack'[q][k].pc # "acquire"
       PROVE  /\ Old(q, k) \in DOMAIN stack[q] /\ stack'[q][k] = stack[q][Old(q, k)]
              /\ PathFor(flags'[q], stack'[q][k].script) = CallPath(q, Old(q, k))
  <2>1. Old(q, k) \in DOMAIN stack[q] /\ stack'[q][k] = stack[q][Old(q, k)]
    BY <1>6, <1>12
  <2>2. stack[q] # <<>>
    BY <2>1
  <2>3. flags'[q] = flags[q]
    BY <2>2
  <2>4. QED
    BY <2>1, <2>3 DEF CallPath
<1>13. ASSUME NEW q \in Procs, NEW k \in DOMAIN stack'[q], NEW c,
              c = PathFor(flags'[q], stack'[q][k].script)
       PROVE  /\ OwnText(stack'[q][k], c \notin raced', cache'[c])
              /\ stack'[q][k].pc # "acquire" => lock'[stack'[q][k].script] = q
  <2>1. CASE stack'[q][k].pc = "acquire"
    BY <2>1 DEF OwnText
  <2>2. CASE stack'[q][k].pc # "acquire"
    BY <1>3, <1>12, <1>13, <2>2, CallFacts
  <2>3. QED
    BY <2>1, <2>2
<1>14. ASSUME NEW q \in Procs, NEW k \in DOMAIN stack'[q], NEW m \in DOMAIN stack'[q],
              stack'[q][k].script = stack'[q][m].script,
              stack'[q][k].pc # "acquire", stack'[q][m].pc # "acquire"
       PROVE  k = m
  <2>1. Old(q, k) = Old(q, m)
    BY <1>6, <1>14, OneHolder
  <2>2. QED
    BY <1>7, <1>14, <2>1
<1>15. ASSUME NEW q \in Procs, NEW r \in Procs, q # r,
              NEW k \in DOMAIN stack'[q], NEW m \in DOMAIN stack'[r],
              Working(stack'[q][k]), Working(stack'[r][m]),
              PathFor(flags'[q], stack'[q][k].script) = PathFor(flags'[r], stack'[r][m].script)
       PROVE  PathFor(flags'[q], stack'[q][k].script) \in raced'
  <2>1. stack'[q][k].pc # "acquire" /\ stack'[r][m].pc # "acquire"
    BY <1>15 DEF Working
  <2>2. QED
    BY <1>3, <1>12, <1>15, <2>1, SeenRace
<1>16. \A q \in Procs : \A k \in DOMAIN stack'[q] :
          LET c == PathFor(flags'[q], stack'[q][k].script) IN
          /\ OwnText(stack'[q][k], c \notin raced', cache'[c])
          /\ stack'[q][k].pc # "acquire" => lock'[stack'[q][k].script] = q
          /\ k # 1 => stack'[q][k].pc = "run"
  BY <1>9, <1>13
<1>17. QED
  BY <1>10, <1>11, <1>14, <1>15, <1>16, InvOfCalls

-----------------------------------------------------------------------------
(* The actions                                                             *)

LEMMA RuntimeInvInit == RuntimeInit => RuntimeInv
<1> SUFFICES ASSUME RuntimeInit PROVE RuntimeInv
  OBVIOUS
<1>1. RuntimeTypeOK
  BY EditsAssumption DEF RuntimeInit, RuntimeTypeOK
<1>2. \A p \in Procs : DOMAIN stack[p] = {}
  BY DEF RuntimeInit
<1>3. LockExclusive /\ HasOwnText /\ OuterCallsRun /\ RacesSeen
  BY <1>2 DEF LockExclusive, HasOwnText, OuterCallsRun, RacesSeen
<1>4. NoLeakedLock /\ MetaHonest /\ RacedShared
  BY MarksAssumption DEF RuntimeInit, NoLeakedLock, MetaHonest, RacedShared
<1>5. QED
  BY <1>1, <1>3, <1>4 DEF RuntimeInv

LEMMA RuntimeInvStart ==
  ASSUME RuntimeInv, NEW p \in Procs, NEW e \in Entries, StartProcess(p, e)
  PROVE  RuntimeInv'
<1>1. stack[p] = <<>>
  BY DEF StartProcess, Running
<1>2. stack' = [stack EXCEPT ![p] = <<NewFrame(e)>> \o @]
  <2>1. <<NewFrame(e)>> \o <<>> = <<NewFrame(e)>>
    OBVIOUS
  <2>2. QED
    BY <1>1, <2>1 DEF StartProcess
<1>3. modules' \in [Procs -> SUBSET Scripts] /\ flags' \in [Procs -> SUBSET Flags]
  BY FlagsAssumption DEF StartProcess, RuntimeInv, RuntimeTypeOK
<1>4. \A k \in DOMAIN stack[p] : stack[p][k].pc = "run"
  BY <1>1
<1>5. \A q \in Procs : stack[q] # <<>> => flags'[q] = flags[q]
  BY <1>1 DEF StartProcess, RuntimeInv, RuntimeTypeOK
<1>6. e \in Scripts /\ UNCHANGED <<files, raced>>
  BY ScriptsAssumption DEF StartProcess
<1>7. QED
  BY <1>2, <1>3, <1>4, <1>5, <1>6, Enter

\* What a call has stays its own when more files count as raced.
LEMMA OwnTextWeaker ==
  ASSUME NEW f, NEW t, NEW ok, NEW less, OwnText(f, ok, t), less => ok
  PROVE  OwnText(f, less, t)
  BY DEF OwnText

\* Two processes with different scripts on one file have a name in common.
LEMMA SharedFile ==
  ASSUME NEW a, NEW b, NEW s \in Scripts, NEW r \in Scripts, s # r,
         PathFor(a, s) = PathFor(b, r)
  PROVE  FileName[s] = PathFor(a, s) /\ FileName[r] = PathFor(a, s)
  BY NamesAssumption DEF PathFor

\* The first to make the directory is the only call past it.
LEMMA RuntimeInvAcquire ==
  ASSUME RuntimeInv, NEW p \in Procs, Acquire(p)
  PROVE  RuntimeInv'
<1> DEFINE g == [Top(p) EXCEPT !.pc = "read"]
<1>1. /\ stack[p] \in Seq(Frame) /\ stack[p] # <<>>
      /\ 1 \in DOMAIN stack[p] /\ Top(p) = stack[p][1] /\ Top(p) \in Frame
  BY TopFrame DEF RuntimeInv, Acquire, At
<1>2. /\ g \in Frame /\ g.script = Top(p).script /\ g.pc = "read"
      /\ Top(p).pc = "acquire" /\ Top(p).script \in Scripts
  BY <1>1 DEF Acquire, At, Frame
<1>3. /\ stack' = [stack EXCEPT ![p] = <<g>> \o Tail(@)]
      /\ lock[g.script] = Free /\ lock' = [lock EXCEPT ![g.script] = p]
      /\ UNCHANGED <<text, stamp, cache, meta, modules, flags>>
      /\ raced' = IF InUse(p, TopPath(p)) THEN raced \cup {TopPath(p)} ELSE raced
  BY <1>2 DEF Acquire, Goto
<1> HIDE DEF g
<1>4. stack \in [Procs -> Seq(Frame)] /\ lock \in [Scripts -> Procs \cup {Free, Stale}]
  BY DEF RuntimeInv, RuntimeTypeOK
<1>5. /\ stack'[p] \in Seq(Frame) /\ DOMAIN stack'[p] = DOMAIN stack[p]
      /\ stack'[p][1] = g
      /\ \A k \in DOMAIN stack[p] : k # 1 => stack'[p][k] = stack[p][k]
  BY <1>1, <1>2, <1>3, <1>4, ReplaceTop
<1>6. /\ stack' \in [Procs -> Seq(Frame)]
      /\ \A q \in Procs : q # p => stack'[q] = stack[q]
  BY <1>3, <1>4, <1>5
<1>7. TopPath(p) = CallPath(p, 1) /\ TopPath(p) \in CacheFiles /\ raced \subseteq raced'
  BY <1>1, <1>3, CallFacts, PathForCacheFile DEF CallPath
<1>8. RuntimeTypeOK'
  <2>1. lock' \in [Scripts -> Procs \cup {Free, Stale}]
    BY <1>3, <1>4
  <2>2. raced' \subseteq CacheFiles
    BY <1>3, <1>7 DEF RuntimeInv, RuntimeTypeOK
  <2>3. QED
    BY <1>3, <1>6, <2>1, <2>2 DEF RuntimeInv, RuntimeTypeOK
<1>9. /\ lock'[g.script] = p
      /\ \A s \in Scripts : s # g.script => lock'[s] = lock[s]
  BY <1>2, <1>3, <1>4
<1>10. ASSUME NEW q \in Procs, NEW k \in DOMAIN stack'[q], stack'[q][k].pc # "acquire",
              ~(q = p /\ k = 1)
       PROVE  /\ k \in DOMAIN stack[q] /\ stack'[q][k] = stack[q][k]
              /\ stack[q][k].script \in Scripts /\ lock[stack[q][k].script] = q
              /\ stack[q][k].script # g.script
  <2>1. k \in DOMAIN stack[q] /\ stack'[q][k] = stack[q][k]
    BY <1>5, <1>6, <1>10
  <2>2. stack[q][k].script \in Scripts /\ lock[stack[q][k].script] = q
    BY <1>10, <2>1, CallFacts
  <2>3. QED
    BY <1>3, <2>1, <2>2, MarksAssumption
<1>11. NoLeakedLock' /\ MetaHonest'
  <2>1. MetaHonest'
    BY <1>3, <1>7 DEF RuntimeInv, MetaHonest
  <2>2. SUFFICES ASSUME NEW r \in Scripts, lock'[r] \in Procs
                 PROVE  \E k \in DOMAIN stack'[lock'[r]] :
                           /\ stack'[lock'[r]][k].script = r
                           /\ stack'[lock'[r]][k].pc # "acquire"
    BY <2>1 DEF NoLeakedLock
  <2>3. CASE r = g.script
    BY <1>1, <1>2, <1>5, <1>9, <2>3
  <2>4. CASE r # g.script
    <3>1. lock'[r] = lock[r]
      BY <1>9, <2>4
    <3>2. PICK k \in DOMAIN stack[lock[r]] : /\ stack[lock[r]][k].script = r
                                             /\ stack[lock[r]][k].pc # "acquire"
      BY <2>2, <3>1 DEF RuntimeInv, NoLeakedLock
    <3>3. ~(lock[r] = p /\ k = 1)
      BY <1>1, <1>2, <3>2
    <3>4. k \in DOMAIN stack'[lock[r]] /\ stack'[lock[r]][k] = stack[lock[r]][k]
      BY <1>5, <1>6, <2>2, <3>1, <3>2, <3>3
    <3>5. QED
      BY <3>1, <3>2, <3>4
  <2>5. QED
    BY <2>3, <2>4
<1>12. RacedShared'
  <2>1. CASE ~InUse(p, TopPath(p))
    BY <1>3, <2>1 DEF RuntimeInv, RacedShared
  <2>2. CASE InUse(p, TopPath(p))
    <3>1. PICK q \in Procs \ {p} : \E k \in DOMAIN stack[q] :
             /\ stack[q][k].script # Top(p).script
             /\ CachePath(q, stack[q][k].script) = TopPath(p)
      BY <2>2 DEF InUse
    <3>2. PICK k \in DOMAIN stack[q] :
             /\ stack[q][k].script # Top(p).script
             /\ CachePath(q, stack[q][k].script) = TopPath(p)
      BY <3>1
    <3>3. stack[q][k].script \in Scripts
      BY CallFacts
    <3>4. stack[q][k].script # Top(p).script
      BY <3>2
    <3>5. /\ FileName[stack[q][k].script] = TopPath(p)
          /\ FileName[Top(p).script] = TopPath(p)
      BY <1>2, <3>2, <3>3, <3>4, SharedFile, PathForCacheFile
    <3>6. \E s, r \in Scripts : s # r /\ FileName[s] = TopPath(p) /\ FileName[r] = TopPath(p)
      BY <1>2, <3>3, <3>4, <3>5
    <3>7. QED
      BY <1>3, <3>6 DEF RuntimeInv, RacedShared
  <2>3. QED
    BY <2>1, <2>2
<1>13. ASSUME NEW q \in Procs, NEW k \in DOMAIN stack'[q], NEW c,
              c = PathFor(flags'[q], stack'[q][k].script)
       PROVE  /\ OwnText(stack'[q][k], c \notin raced', cache'[c])
              /\ stack'[q][k].pc # "acquire" => lock'[stack'[q][k].script] = q
              /\ k # 1 => stack'[q][k].pc = "run"
  <2>1. CASE q = p /\ k = 1
    BY <1>2, <1>5, <1>9, <2>1 DEF OwnText
  <2>2. CASE ~(q = p /\ k = 1)
    <3>1. k \in DOMAIN stack[q] /\ stack'[q][k] = stack[q][k]
      BY <1>5, <1>6, <2>2
    <3>2. c = CallPath(q, k)
      BY <1>3, <1>13, <3>1 DEF CallPath
    <3>3. OwnText(stack[q][k], c \notin raced, cache[c]) /\ (k # 1 => stack[q][k].pc = "run")
      BY <3>1, <3>2, CallFacts
    <3>4. OwnText(stack[q][k], c \notin raced', cache[c])
      BY <1>7, <3>3, OwnTextWeaker
    <3>5. stack'[q][k].pc # "acquire" => lock'[stack'[q][k].script] = q
      BY <1>9, <1>10, <2>2
    <3>6. QED
      BY <1>3, <3>1, <3>3, <3>4, <3>5
  <2>3. QED
    BY <2>1, <2>2
<1>14. ASSUME NEW q \in Procs, NEW k \in DOMAIN stack'[q], NEW m \in DOMAIN stack'[q],
              stack'[q][k].script = stack'[q][m].script,
              stack'[q][k].pc # "acquire", stack'[q][m].pc # "acquire"
       PROVE  k = m
  <2>1. CASE q = p /\ (k = 1 \/ m = 1)
    BY <1>2, <1>5, <1>10, <1>14, <2>1
  <2>2. CASE ~(q = p /\ (k = 1 \/ m = 1))
    BY <1>10, <1>14, <2>2, OneHolder
  <2>3. QED
    BY <2>1, <2>2
<1>15. ASSUME NEW q \in Procs, q # p, NEW k \in DOMAIN stack'[q], Working(stack'[q][k]),
              CallPath(q, k) = TopPath(p)
       PROVE  TopPath(p) \in raced'
  <2>1. k \in DOMAIN stack[q] /\ Working(stack[q][k])
    BY <1>6, <1>15
  <2>2. CachePath(q, stack[q][k].script) = TopPath(p)
    BY <1>15, PathForCacheFile DEF CallPath
  <2>3. stack[q][k].script # Top(p).script
    BY <1>2, <1>3, <2>1, CallFacts, MarksAssumption DEF Working
  <2>4. InUse(p, TopPath(p))
    BY <1>15, <2>1, <2>2, <2>3 DEF InUse
  <2>5. QED
    BY <1>3, <2>4
<1>16. ASSUME NEW q \in Procs, NEW k \in DOMAIN stack'[q], Working(stack'[q][k])
       PROVE  /\ k \in DOMAIN stack[q] /\ (q = p => k = 1)
              /\ PathFor(flags'[q], stack'[q][k].script) = CallPath(q, k)
              /\ q # p => Working(stack[q][k])
  <2>1. CASE q = p
    <3>1. k = 1
      BY <1>13, <1>16, <2>1 DEF Working
    <3>2. QED
      BY <1>1, <1>2, <1>3, <1>5, <2>1, <3>1 DEF CallPath
  <2>2. CASE q # p
    BY <1>3, <1>6, <1>16, <2>2 DEF CallPath
  <2>3. QED
    BY <2>1, <2>2
<1>17. ASSUME NEW q \in Procs, NEW r \in Procs, q # r,
              NEW k \in DOMAIN stack'[q], NEW m \in DOMAIN stack'[r],
              Working(stack'[q][k]), Working(stack'[r][m]),
              PathFor(flags'[q], stack'[q][k].script) = PathFor(flags'[r], stack'[r][m].script)
       PROVE  PathFor(flags'[q], stack'[q][k].script) \in raced'
  <2>1. /\ k \in DOMAIN stack[q] /\ m \in DOMAIN stack[r]
        /\ (q = p => k = 1) /\ (r = p => m = 1)
        /\ PathFor(flags'[q], stack'[q][k].script) = CallPath(q, k)
        /\ PathFor(flags'[r], stack'[r][m].script) = CallPath(r, m)
        /\ CallPath(q, k) = CallPath(r, m)
        /\ (q # p => Working(stack[q][k])) /\ (r # p => Working(stack[r][m]))
    BY <1>16, <1>17
  <2>2. CASE q = p
    BY <1>7, <1>15, <1>17, <2>1, <2>2
  <2>3. CASE r = p
    BY <1>7, <1>15, <1>17, <2>1, <2>3
  <2>4. CASE q # p /\ r # p
    <3>1. CallPath(q, k) \in raced
      BY <1>17, <2>1, <2>4, SeenRace
    <3>2. QED
      BY <1>7, <2>1, <3>1
  <2>5. QED
    BY <2>2, <2>3, <2>4
<1>18. \A q \in Procs : \A k \in DOMAIN stack'[q] :
          LET c == PathFor(flags'[q], stack'[q][k].script) IN
          /\ OwnText(stack'[q][k], c \notin raced', cache'[c])
          /\ stack'[q][k].pc # "acquire" => lock'[stack'[q][k].script] = q
          /\ k # 1 => stack'[q][k].pc = "run"
  BY <1>13
<1>19. \A q \in Procs : \A k, m \in DOMAIN stack'[q] :
          /\ stack'[q][k].script = stack'[q][m].script
          /\ stack'[q][k].pc # "acquire" /\ stack'[q][m].pc # "acquire"
          => k = m
  BY <1>14
<1>20. \A q, r \in Procs : \A k \in DOMAIN stack'[q], m \in DOMAIN stack'[r] :
          /\ q # r /\ Working(stack'[q][k]) /\ Working(stack'[r][m])
          /\ PathFor(flags'[q], stack'[q][k].script) = PathFor(flags'[r], stack'[r][m].script)
          => PathFor(flags'[q], stack'[q][k].script) \in raced'
  BY <1>17
<1>21. QED
  BY <1>8, <1>11, <1>12, <1>18, <1>19, <1>20, InvOfCalls

\* A dead process has no calls, and its locks are nobody's.
LEMMA RuntimeInvDie ==
  ASSUME RuntimeInv, NEW p \in Procs, Die(p)
  PROVE  RuntimeInv'
<1>1. /\ stack \in [Procs -> Seq(Frame)] /\ stack' = [stack EXCEPT ![p] = <<>>]
      /\ lock' = [s \in Scripts |-> IF lock[s] = p THEN Stale ELSE lock[s]]
      /\ UNCHANGED <<text, stamp, cache, meta, modules, flags, raced>>
  BY DEF Die, RuntimeInv, RuntimeTypeOK
<1>2. /\ DOMAIN stack'[p] = {} /\ <<>> \in Seq(Frame)
      /\ \A q \in Procs : q # p => stack'[q] = stack[q]
  BY <1>1
<1>3. RuntimeTypeOK'
  BY <1>1, <1>2 DEF RuntimeInv, RuntimeTypeOK
<1>4. MetaHonest' /\ RacedShared'
  BY <1>1 DEF RuntimeInv, MetaHonest, RacedShared
<1>5. NoLeakedLock'
  <2> SUFFICES ASSUME NEW r \in Scripts, lock'[r] \in Procs
               PROVE  \E k \in DOMAIN stack'[lock'[r]] :
                         /\ stack'[lock'[r]][k].script = r
                         /\ stack'[lock'[r]][k].pc # "acquire"
    BY DEF NoLeakedLock
  <2>1. lock'[r] = lock[r] /\ lock[r] # p
    BY <1>1, MarksAssumption
  <2>2. QED
    BY <1>2, <2>1 DEF RuntimeInv, NoLeakedLock
<1>6. ASSUME NEW q \in Procs, NEW k \in DOMAIN stack'[q]
      PROVE  q # p /\ stack'[q] = stack[q] /\ k \in DOMAIN stack[q]
  BY <1>2
<1>7. ASSUME NEW q \in Procs, NEW k \in DOMAIN stack'[q], NEW c,
             c = PathFor(flags'[q], stack'[q][k].script)
      PROVE  /\ OwnText(stack'[q][k], c \notin raced', cache'[c])
             /\ stack'[q][k].pc # "acquire" => lock'[stack'[q][k].script] = q
             /\ k # 1 => stack'[q][k].pc = "run"
  <2>1. c = CallPath(q, k)
    BY <1>1, <1>6, <1>7 DEF CallPath
  <2>2. QED
    BY <1>1, <1>6, <2>1, CallFacts
<1>8. \A q \in Procs : \A k \in DOMAIN stack'[q] :
         LET c == PathFor(flags'[q], stack'[q][k].script) IN
         /\ OwnText(stack'[q][k], c \notin raced', cache'[c])
         /\ stack'[q][k].pc # "acquire" => lock'[stack'[q][k].script] = q
         /\ k # 1 => stack'[q][k].pc = "run"
  BY <1>7
<1>9. \A q \in Procs : \A k, m \in DOMAIN stack'[q] :
         /\ stack'[q][k].script = stack'[q][m].script
         /\ stack'[q][k].pc # "acquire" /\ stack'[q][m].pc # "acquire"
         => k = m
  BY <1>6, OneHolder
<1>10. \A q, r \in Procs : \A k \in DOMAIN stack'[q], m \in DOMAIN stack'[r] :
          /\ q # r /\ Working(stack'[q][k]) /\ Working(stack'[r][m])
          /\ PathFor(flags'[q], stack'[q][k].script) = PathFor(flags'[r], stack'[r][m].script)
          => PathFor(flags'[q], stack'[q][k].script) \in raced'
  BY <1>1, <1>6, SeenRace DEF CallPath
<1>11. QED
  BY <1>3, <1>4, <1>5, <1>8, <1>9, <1>10, InvOfCalls

LEMMA RuntimeInvEdit ==
  ASSUME RuntimeInv, NEW s \in Scripts, Edit(s)
  PROVE  RuntimeInv'
<1>1. UNCHANGED <<lock, cache, meta, stack, modules, flags, raced>>
  BY DEF Edit
<1>2. text' \in [Scripts -> Texts \cup {NoText}] /\ stamp' \in [Scripts -> 0 .. MaxEdits]
  BY EditsAssumption DEF Edit, RuntimeInv, RuntimeTypeOK
<1>3. RuntimeTypeOK'
  BY <1>1, <1>2 DEF RuntimeInv, RuntimeTypeOK
<1>4. LockExclusive' /\ NoLeakedLock' /\ MetaHonest' /\ HasOwnText'
  BY <1>1 DEF RuntimeInv, LockExclusive, NoLeakedLock, MetaHonest, HasOwnText, CachePath
<1>5. RacedShared' /\ OuterCallsRun' /\ RacesSeen'
  BY <1>1 DEF RuntimeInv, RacedShared, OuterCallsRun, RacesSeen, CachePath
<1>6. QED
  BY <1>3, <1>4, <1>5 DEF RuntimeInv

\* What is known of the innermost call of a process.
LEMMA AtFacts ==
  ASSUME RuntimeInv, NEW p \in Procs, Running(p)
  PROVE  /\ Top(p) \in Frame /\ Top(p).script \in Scripts /\ TopPath(p) \in CacheFiles
         /\ OwnText(Top(p), TopPath(p) \notin raced, cache[TopPath(p)])
         /\ text[Top(p).script] \in Texts \cup {NoText}
         /\ cache \in [CacheFiles -> Texts \cup {NoText}]
         /\ meta \in [CacheFiles -> Meta \cup {NoMeta}] /\ MetaHonest
         /\ modules \in [Procs -> SUBSET Scripts]
<1>1. 1 \in DOMAIN stack[p] /\ Top(p) = stack[p][1]
  BY TopFrame DEF RuntimeInv
<1>2. TopPath(p) = CallPath(p, 1)
  BY <1>1, PathForCacheFile DEF CallPath
<1>3. /\ Top(p) \in Frame /\ Top(p).script \in Scripts /\ TopPath(p) \in CacheFiles
      /\ OwnText(Top(p), TopPath(p) \notin raced, cache[TopPath(p)])
  BY <1>1, <1>2, CallFacts
<1>4. QED
  BY <1>3 DEF RuntimeInv, RuntimeTypeOK

\* A step that writes no file.
LEMMA AdvanceReading ==
  ASSUME RuntimeInv, NEW p \in Procs, Running(p), Working(Top(p)),
         NEW f \in Frame, f.script = Top(p).script,
         NEW pc, [f EXCEPT !.pc = pc] \in Frame, pc # "acquire",
         OwnText([f EXCEPT !.pc = pc], TopPath(p) \notin raced, cache[TopPath(p)]),
         Goto(p, f, pc), UNCHANGED <<text, stamp, lock, cache, meta, modules, flags, raced>>
  PROVE  RuntimeInv'
<1> DEFINE g == [f EXCEPT !.pc = pc]
<1>1. g \in Frame /\ g.script = Top(p).script /\ g.pc # "acquire"
  BY DEF Frame
<1>2. /\ stack' = [stack EXCEPT ![p] = <<g>> \o Tail(@)]
      /\ OwnText(g, TopPath(p) \notin raced, cache'[TopPath(p)])
  BY <1>1 DEF Goto
<1> HIDE DEF g
<1>3. /\ cache' \in [CacheFiles -> Texts \cup {NoText}]
      /\ meta' \in [CacheFiles -> Meta \cup {NoMeta}] /\ MetaHonest'
  BY AtFacts DEF MetaHonest
<1>4. \A c \in CacheFiles : c # TopPath(p) => cache'[c] = cache[c]
  OBVIOUS
<1>5. QED
  BY <1>1, <1>2, <1>3, <1>4, Advance

\* A call that fails, or ends, without writing the cache file or metadata.
LEMMA LeaveReading ==
  ASSUME RuntimeInv, NEW p \in Procs, Running(p), Top(p).pc # "acquire",
         Return(p), Release(p, Top(p).script), modules' \in [Procs -> SUBSET Scripts],
         UNCHANGED <<text, stamp, cache, meta, flags, raced>>
  PROVE  RuntimeInv'
<1>1. /\ cache' \in [CacheFiles -> Texts \cup {NoText}]
      /\ meta' \in [CacheFiles -> Meta \cup {NoMeta}] /\ MetaHonest'
  BY AtFacts DEF MetaHonest
<1>2. QED
  BY <1>1, Leave

LEMMA RuntimeInvAcquireFails ==
  ASSUME RuntimeInv, NEW p \in Procs, AcquireFails(p)
  PROVE  RuntimeInv'
<1>1. /\ Running(p) /\ Top(p).pc = "acquire" /\ Return(p)
      /\ UNCHANGED <<text, stamp, lock, cache, meta, modules, flags, raced>>
  BY DEF AcquireFails, At, files
<1>2. /\ cache' \in [CacheFiles -> Texts \cup {NoText}]
      /\ meta' \in [CacheFiles -> Meta \cup {NoMeta}] /\ MetaHonest'
      /\ modules' \in [Procs -> SUBSET Scripts]
  BY <1>1, AtFacts DEF MetaHonest
<1>3. QED
  BY <1>1, <1>2, Leave

LEMMA RuntimeInvReadSource ==
  ASSUME RuntimeInv, NEW p \in Procs, ReadSource(p)
  PROVE  RuntimeInv'
<1> DEFINE f == [Top(p) EXCEPT !.src = text[Top(p).script]]
<1>1. /\ Running(p) /\ Top(p).pc = "read" /\ Working(Top(p))
      /\ UNCHANGED <<text, stamp, cache, meta, modules, flags, raced>>
  BY DEF ReadSource, At, Working
<1>2. /\ f \in Frame /\ f.script = Top(p).script /\ f.src = text[Top(p).script]
      /\ f.src \in Texts \cup {NoText}
  BY <1>1, AtFacts DEF Frame
<1>3. CASE f.src = NoText
  <2>1. Release(p, Top(p).script) /\ Return(p)
    BY <1>2, <1>3 DEF ReadSource
  <2>2. modules' \in [Procs -> SUBSET Scripts]
    BY <1>1, AtFacts
  <2>3. QED
    BY <1>1, <2>1, <2>2, LeaveReading
<1>4. ASSUME f.src # NoText, UNCHANGED lock, NEW pc \in {"clean", "cache"}, Goto(p, f, pc)
      PROVE  RuntimeInv'
  <2>1. /\ [f EXCEPT !.pc = pc] \in Frame
        /\ OwnText([f EXCEPT !.pc = pc], TopPath(p) \notin raced, cache[TopPath(p)])
    BY <1>2, <1>4 DEF Frame, OwnText
  <2> HIDE DEF f
  <2>2. QED
    BY <1>1, <1>2, <1>4, <2>1, AdvanceReading
<1>5. ASSUME f.src # NoText, UNCHANGED lock, Goto(p, [f EXCEPT !.compiled = f.src], "emit")
      PROVE  RuntimeInv'
  <2> DEFINE g == [f EXCEPT !.compiled = f.src]
  <2>1. g \in Frame /\ g.script = Top(p).script
    BY <1>2, <1>5 DEF Frame
  <2>2. /\ [g EXCEPT !.pc = "emit"] \in Frame
        /\ OwnText([g EXCEPT !.pc = "emit"], TopPath(p) \notin raced, cache[TopPath(p)])
    BY <1>2, <1>5 DEF Frame, OwnText
  <2>3. Goto(p, g, "emit")
    BY <1>5
  <2> HIDE DEF g, f
  <2>4. QED
    BY <1>1, <1>5, <2>1, <2>2, <2>3, AdvanceReading
<1>6. QED
  BY <1>3, <1>4, <1>5 DEF ReadSource

LEMMA RuntimeInvCleanCache ==
  ASSUME RuntimeInv, NEW p \in Procs, CleanCache(p)
  PROVE  RuntimeInv'
<1> DEFINE g == [Top(p) EXCEPT !.pc = "cleanMeta"]
<1>1. /\ Running(p) /\ Top(p).pc = "clean" /\ Working(Top(p))
      /\ UNCHANGED <<text, stamp, lock, meta, modules, flags, raced>>
  BY DEF CleanCache, At, Working
<1>2. g \in Frame /\ g.script = Top(p).script /\ g.pc # "acquire"
  BY <1>1, AtFacts DEF Frame
<1>3. stack' = [stack EXCEPT ![p] = <<g>> \o Tail(@)]
  BY DEF CleanCache, Goto
<1>4. OwnText(g, TopPath(p) \notin raced, cache'[TopPath(p)])
  BY <1>1, AtFacts DEF OwnText, Frame
<1> HIDE DEF g
<1>5. /\ cache' \in [CacheFiles -> Texts \cup {NoText}]
      /\ \A c \in CacheFiles : c # TopPath(p) => cache'[c] = cache[c]
  <2>1. PICK v \in Outcomes(NoText, cache[TopPath(p)]) : cache' = [cache EXCEPT ![TopPath(p)] = v]
    BY DEF CleanCache
  <2>2. v \in Texts \cup {NoText}
    BY <1>1, AtFacts DEF Outcomes
  <2>3. QED
    BY <1>1, <2>1, <2>2, AtFacts
<1>6. meta' \in [CacheFiles -> Meta \cup {NoMeta}] /\ MetaHonest'
  BY <1>1, AtFacts DEF MetaHonest
<1>7. QED
  BY <1>1, <1>2, <1>3, <1>4, <1>5, <1>6, Advance

LEMMA RuntimeInvCleanMeta ==
  ASSUME RuntimeInv, NEW p \in Procs, CleanMeta(p)
  PROVE  RuntimeInv'
<1>1. /\ Running(p) /\ Top(p).pc = "cleanMeta" /\ Working(Top(p))
      /\ UNCHANGED <<text, stamp, lock, cache, modules, flags, raced>>
  BY DEF CleanMeta, At, Working
<1>2. PICK m \in Outcomes(NoMeta, meta[TopPath(p)]) :
         meta' = [meta EXCEPT ![TopPath(p)] = m]
  BY DEF CleanMeta
<1>3. m = NoMeta \/ m = meta[TopPath(p)]
  BY DEF Outcomes
<1>4. meta' \in [CacheFiles -> Meta \cup {NoMeta}] /\ MetaHonest'
  BY <1>1, <1>2, <1>3, AtFacts DEF MetaHonest
<1>5. ASSUME NEW g \in Frame, g.script = Top(p).script, g.pc # "acquire",
             OwnText(g, TopPath(p) \notin raced, cache[TopPath(p)]),
             stack' = [stack EXCEPT ![p] = <<g>> \o Tail(@)]
      PROVE  RuntimeInv'
  <2>1. cache' \in [CacheFiles -> Texts \cup {NoText}]
    BY <1>1, AtFacts
  <2>2. QED
    BY <1>1, <1>4, <1>5, <2>1, Advance
<1>6. CASE Goto(p, Top(p), "cache")
  <2> DEFINE g == [Top(p) EXCEPT !.pc = "cache"]
  <2>1. g \in Frame /\ g.script = Top(p).script /\ g.pc # "acquire"
    BY <1>1, AtFacts DEF Frame
  <2>2. OwnText(g, TopPath(p) \notin raced, cache[TopPath(p)])
    BY <1>1, AtFacts DEF OwnText, Frame
  <2>3. stack' = [stack EXCEPT ![p] = <<g>> \o Tail(@)]
    BY <1>6 DEF Goto
  <2> HIDE DEF g
  <2>4. QED
    BY <1>5, <2>1, <2>2, <2>3
<1>7. CASE Goto(p, [Top(p) EXCEPT !.compiled = Top(p).src], "emit")
  <2> DEFINE g == [[Top(p) EXCEPT !.compiled = Top(p).src] EXCEPT !.pc = "emit"]
  <2>1. g \in Frame /\ g.script = Top(p).script /\ g.pc # "acquire"
    BY <1>1, AtFacts DEF Frame
  <2>2. OwnText(g, TopPath(p) \notin raced, cache[TopPath(p)])
    BY <1>1, AtFacts DEF OwnText, Frame
  <2>3. stack' = [stack EXCEPT ![p] = <<g>> \o Tail(@)]
    BY <1>7 DEF Goto
  <2> HIDE DEF g
  <2>4. QED
    BY <1>5, <2>1, <2>2, <2>3
<1>8. QED
  BY <1>6, <1>7 DEF CleanMeta

LEMMA RuntimeInvReadCache ==
  ASSUME RuntimeInv, NEW p \in Procs, ReadCache(p)
  PROVE  RuntimeInv'
<1>1. /\ Running(p) /\ Top(p).pc = "cache" /\ Working(Top(p))
      /\ UNCHANGED <<text, stamp, lock, cache, meta, modules, flags, raced>>
  BY DEF ReadCache, At, files, Working
<1>2. PICK v \in Outcomes(cache[TopPath(p)], NoText) :
         Goto(p, [Top(p) EXCEPT !.cached = v], IF v = NoText THEN "rebuild" ELSE "bytes")
  BY DEF ReadCache
<1> DEFINE f == [Top(p) EXCEPT !.cached = v]
           pc == IF v = NoText THEN "rebuild" ELSE "bytes"
<1>3. v \in Texts \cup {NoText}
  BY <1>1, AtFacts DEF Outcomes
<1>4. f \in Frame /\ f.script = Top(p).script /\ pc # "acquire"
  BY <1>1, <1>3, AtFacts DEF Frame
<1>5. /\ [f EXCEPT !.pc = pc] \in Frame
      /\ OwnText([f EXCEPT !.pc = pc], TopPath(p) \notin raced, cache[TopPath(p)])
  BY <1>1, <1>3, AtFacts DEF Frame, OwnText
<1>6. Goto(p, f, pc)
  BY <1>2
<1> HIDE DEF f, pc
<1>7. QED
  BY <1>1, <1>4, <1>5, <1>6, AdvanceReading

LEMMA RuntimeInvReadBytes ==
  ASSUME RuntimeInv, NEW p \in Procs, ReadBytes(p)
  PROVE  RuntimeInv'
<1>1. /\ Running(p) /\ Top(p).pc = "bytes" /\ Working(Top(p))
      /\ UNCHANGED <<text, stamp, lock, cache, meta, modules, flags, raced>>
  BY DEF ReadBytes, At, files, Working
<1>2. PICK v \in Outcomes(cache[TopPath(p)], NoText) :
         Goto(p, [Top(p) EXCEPT !.bin = v], "meta")
  BY DEF ReadBytes
<1> DEFINE f == [Top(p) EXCEPT !.bin = v]
<1>3. v \in Texts \cup {NoText}
  BY <1>1, AtFacts DEF Outcomes
<1>4. f \in Frame /\ f.script = Top(p).script
  BY <1>1, <1>3, AtFacts DEF Frame
<1>5. /\ [f EXCEPT !.pc = "meta"] \in Frame
      /\ OwnText([f EXCEPT !.pc = "meta"], TopPath(p) \notin raced, cache[TopPath(p)])
  BY <1>1, <1>3, AtFacts DEF Frame, OwnText
<1>6. Goto(p, f, "meta")
  BY <1>2
<1> HIDE DEF f
<1>7. QED
  BY <1>1, <1>4, <1>5, <1>6, AdvanceReading

\* Metadata that vouches for the cached text vouches for the source's, unless two
\* processes have worked on the file at once.
LEMMA MatchIsSource ==
  ASSUME RuntimeInv, NEW p \in Procs, Running(p), TopPath(p) \notin raced,
         NEW m \in {meta[TopPath(p)], NoMeta}, HashMatch(m, Top(p))
  PROVE  Top(p).cached = Top(p).src
<1>1. m = meta[TopPath(p)] /\ m # NoMeta
  BY DEF HashMatch
<1>2. m.expanded = m.script
  BY <1>1, AtFacts DEF MetaHonest
<1>3. QED
  BY <1>2 DEF HashMatch

LEMMA RuntimeInvCheckMeta ==
  ASSUME RuntimeInv, NEW p \in Procs, CheckMeta(p)
  PROVE  RuntimeInv'
<1> DEFINE used == [Top(p) EXCEPT !.compiled = Top(p).cached, !.cached = NoText, !.bin = NoText]
           dropped == [Top(p) EXCEPT !.cached = NoText, !.bin = NoText]
<1>1. /\ Running(p) /\ Top(p).pc = "meta" /\ Working(Top(p))
      /\ UNCHANGED <<text, stamp, lock, cache, meta, modules, flags, raced>>
  BY DEF CheckMeta, At, files, Working
<1>2. PICK m \in {meta[TopPath(p)], NoMeta} :
         IF HashMatch(m, Top(p)) \/ Top(p).cached = Top(p).src
         THEN Goto(p, used, "hash")
         ELSE Goto(p, dropped, "rebuild")
  BY DEF CheckMeta, Outcomes
<1>3. Top(p).src # NoText /\ Top(p).cached # NoText
  BY <1>1, AtFacts DEF OwnText
<1>4. CASE Goto(p, dropped, "rebuild")
  <2>1. dropped \in Frame /\ dropped.script = Top(p).script
    BY <1>1, AtFacts DEF Frame
  <2>2. /\ [dropped EXCEPT !.pc = "rebuild"] \in Frame
        /\ OwnText([dropped EXCEPT !.pc = "rebuild"], TopPath(p) \notin raced, cache[TopPath(p)])
    BY <1>1, <1>3, AtFacts DEF Frame, OwnText
  <2> HIDE DEF dropped
  <2>3. QED
    BY <1>1, <1>4, <2>1, <2>2, AdvanceReading
<1>5. CASE /\ TopPath(p) \notin raced => Top(p).cached = Top(p).src
           /\ Goto(p, used, "hash")
  <2>1. used \in Frame /\ used.script = Top(p).script
    BY <1>1, AtFacts DEF Frame
  <2>2. /\ [used EXCEPT !.pc = "hash"] \in Frame
        /\ OwnText([used EXCEPT !.pc = "hash"], TopPath(p) \notin raced, cache[TopPath(p)])
    BY <1>1, <1>3, <1>5, AtFacts DEF Frame, OwnText
  <2>3. Goto(p, used, "hash")
    BY <1>5
  <2> HIDE DEF used
  <2>4. QED
    BY <1>1, <2>1, <2>2, <2>3, AdvanceReading
<1> HIDE DEF used, dropped
<1>6. QED
  BY <1>1, <1>2, <1>4, <1>5, MatchIsSource

LEMMA RuntimeInvRebuild ==
  ASSUME RuntimeInv, NEW p \in Procs, Rebuild(p)
  PROVE  RuntimeInv'
<1> DEFINE g == [Top(p) EXCEPT !.pc = "reread"]
<1>1. /\ Running(p) /\ Top(p).pc = "rebuild" /\ Working(Top(p))
      /\ UNCHANGED <<text, stamp, lock, meta, modules, flags, raced>>
  BY DEF Rebuild, At, Working
<1>2. /\ g \in Frame /\ g.script = Top(p).script /\ g.pc = "reread" /\ g.pc # "acquire"
      /\ g.src = Top(p).src /\ g.src \in Texts \cup {NoText} /\ g.src # NoText
  BY <1>1, AtFacts DEF Frame, OwnText
<1>3. stack' = [stack EXCEPT ![p] = <<g>> \o Tail(@)]
  BY DEF Rebuild, Goto
<1> HIDE DEF g
<1>4. cache' = [cache EXCEPT ![TopPath(p)] = g.src]
  BY <1>2 DEF Rebuild
<1>5. /\ cache' \in [CacheFiles -> Texts \cup {NoText}]
      /\ \A c \in CacheFiles : c # TopPath(p) => cache'[c] = cache[c]
      /\ cache'[TopPath(p)] = g.src
  BY <1>1, <1>2, <1>4, AtFacts
<1>6. OwnText(g, TopPath(p) \notin raced, cache'[TopPath(p)])
  BY <1>2, <1>5 DEF OwnText
<1>7. meta' \in [CacheFiles -> Meta \cup {NoMeta}] /\ MetaHonest'
  BY <1>1, AtFacts DEF MetaHonest
<1>8. QED
  BY <1>1, <1>2, <1>3, <1>5, <1>6, <1>7, Advance

LEMMA RuntimeInvReread ==
  ASSUME RuntimeInv, NEW p \in Procs, Reread(p)
  PROVE  RuntimeInv'
<1>1. /\ Running(p) /\ Top(p).pc = "reread" /\ Working(Top(p)) /\ Top(p).pc # "acquire"
      /\ UNCHANGED <<text, stamp, cache, modules, flags, raced>>
  BY DEF Reread, At, Working
<1>2. PICK v \in Outcomes(cache[TopPath(p)], NoText) :
         IF v # NoText
         THEN Goto(p, [Top(p) EXCEPT !.compiled = v], "hash") /\ UNCHANGED <<lock, meta>>
         ELSE /\ \E m \in Outcomes(NoMeta, meta[TopPath(p)]) :
                   meta' = [meta EXCEPT ![TopPath(p)] = m]
              /\ Release(p, Top(p).script)
              /\ Return(p)
  BY DEF Reread
<1>3. CASE v # NoText
  <2> DEFINE f == [Top(p) EXCEPT !.compiled = v]
  <2>1. /\ v \in Texts \cup {NoText}
        /\ TopPath(p) \notin raced => v = Top(p).src
    BY <1>1, <1>3, AtFacts DEF Outcomes, OwnText
  <2>2. f \in Frame /\ f.script = Top(p).script
    BY <1>1, <2>1, AtFacts DEF Frame
  <2>3. /\ [f EXCEPT !.pc = "hash"] \in Frame
        /\ OwnText([f EXCEPT !.pc = "hash"], TopPath(p) \notin raced, cache[TopPath(p)])
    BY <1>1, <1>3, <2>1, AtFacts DEF Frame, OwnText
  <2>4. Goto(p, f, "hash") /\ UNCHANGED <<lock, meta>>
    BY <1>2, <1>3
  <2> HIDE DEF f
  <2>5. QED
    BY <1>1, <2>2, <2>3, <2>4, AdvanceReading
<1>4. CASE v = NoText
  <2>1. PICK w \in {NoMeta, meta[TopPath(p)]} : meta' = [meta EXCEPT ![TopPath(p)] = w]
    BY <1>2, <1>4 DEF Outcomes
  <2>2. meta' \in [CacheFiles -> Meta \cup {NoMeta}] /\ MetaHonest'
    BY <1>1, <2>1, AtFacts DEF MetaHonest
  <2>3. /\ cache' \in [CacheFiles -> Texts \cup {NoText}]
        /\ modules' \in [Procs -> SUBSET Scripts]
    BY <1>1, AtFacts
  <2>4. Release(p, Top(p).script) /\ Return(p)
    BY <1>2, <1>4
  <2>5. QED
    BY <1>1, <2>2, <2>3, <2>4, Leave
<1>5. QED
  BY <1>3, <1>4

LEMMA RuntimeInvHashCache ==
  ASSUME RuntimeInv, NEW p \in Procs, HashCache(p)
  PROVE  RuntimeInv'
<1>1. /\ Running(p) /\ Top(p).pc = "hash" /\ Working(Top(p))
      /\ UNCHANGED <<text, stamp, lock, cache, meta, modules, flags, raced>>
  BY DEF HashCache, At, files, Working
<1>2. PICK v \in Outcomes(cache[TopPath(p)], NoText) :
         Goto(p, [Top(p) EXCEPT !.bin = v], "emit")
  BY DEF HashCache
<1> DEFINE f == [Top(p) EXCEPT !.bin = v]
<1>3. v \in Texts \cup {NoText}
  BY <1>1, AtFacts DEF Outcomes
<1>4. f \in Frame /\ f.script = Top(p).script
  BY <1>1, <1>3, AtFacts DEF Frame
<1>5. /\ [f EXCEPT !.pc = "emit"] \in Frame
      /\ OwnText([f EXCEPT !.pc = "emit"], TopPath(p) \notin raced, cache[TopPath(p)])
  BY <1>1, <1>3, AtFacts DEF Frame, OwnText
<1>6. Goto(p, f, "emit")
  BY <1>2
<1> HIDE DEF f
<1>7. QED
  BY <1>1, <1>4, <1>5, <1>6, AdvanceReading

\* The metadata that is written is honest, since the call has its own text, unless
\* two processes have worked on the file at once.
LEMMA RuntimeInvEmit ==
  ASSUME RuntimeInv, NEW p \in Procs, Emit(p)
  PROVE  RuntimeInv'
<1>1. /\ Running(p) /\ Top(p).pc = "emit" /\ Working(Top(p)) /\ Top(p).pc # "acquire"
      /\ UNCHANGED <<text, stamp, cache, flags, raced>>
  BY DEF Emit, At, Working
<1>2. CASE "diff_only" \in flags[p]
  <2>1. Release(p, Top(p).script) /\ Return(p) /\ UNCHANGED meta
    BY <1>2 DEF Emit
  <2>2. modules' \in [Procs -> SUBSET Scripts]
    BY <1>1, <1>2, AtFacts DEF Emit
  <2>3. QED
    BY <1>1, <2>1, <2>2, LeaveReading
<1>3. CASE "diff_only" \notin flags[p]
  <2> DEFINE f == Top(p)
             g == [[Top(p) EXCEPT !.bin = NoText] EXCEPT !.pc = "run"]
  <2>1. /\ stack' = [stack EXCEPT ![p] = <<g>> \o Tail(@)]
        /\ UNCHANGED <<lock, modules>>
        /\ meta' = meta \/ meta' = [meta EXCEPT ![TopPath(p)] = MetadataOf(f)]
    BY <1>3 DEF Emit, Goto
  <2>2. /\ g \in Frame /\ g.script = Top(p).script /\ g.pc # "acquire"
        /\ OwnText(g, TopPath(p) \notin raced, cache'[TopPath(p)])
    BY <1>1, AtFacts DEF Frame, OwnText
  <2>3. /\ f.src \in Texts /\ f.compiled \in Texts /\ f.bin \in Texts \cup {NoText}
        /\ TopPath(p) \notin raced => f.compiled = f.src
    BY <1>1, AtFacts DEF Frame, OwnText
  <2> HIDE DEF f, g
  <2>4. /\ MetadataOf(f) \in Meta
        /\ TopPath(p) \notin raced => MetadataOf(f).expanded = MetadataOf(f).script
    BY <2>3 DEF MetadataOf, Meta
  <2>5. meta' \in [CacheFiles -> Meta \cup {NoMeta}] /\ MetaHonest'
    BY <1>1, <2>1, <2>4, AtFacts DEF MetaHonest
  <2>6. cache' \in [CacheFiles -> Texts \cup {NoText}]
    BY <1>1, AtFacts
  <2>7. QED
    BY <1>1, <2>1, <2>2, <2>5, <2>6, Advance
<1>4. QED
  BY <1>2, <1>3

LEMMA RuntimeInvRequire ==
  ASSUME RuntimeInv, NEW p \in Procs, Require(p)
  PROVE  RuntimeInv'
<1>1. Running(p) /\ Top(p).pc = "run" /\ UNCHANGED <<files, modules, flags, raced>>
  BY DEF Require, At
<1>2. PICK s \in Requires[Top(p).script] : stack' = [stack EXCEPT ![p] = <<NewFrame(s)>> \o @]
  BY DEF Require
<1>3. s \in Scripts
  BY <1>1, <1>2, AtFacts, ScriptsAssumption
<1>4. modules' \in [Procs -> SUBSET Scripts] /\ flags' \in [Procs -> SUBSET Flags]
  BY <1>1 DEF RuntimeInv, RuntimeTypeOK
<1>5. Top(p) = stack[p][1]
  BY <1>1, TopFrame DEF RuntimeInv
<1>6. \A k \in DOMAIN stack[p] : stack[p][k].pc = "run"
  BY <1>1, <1>5, CallFacts
<1>7. UNCHANGED <<files, raced>> /\ \A q \in Procs : stack[q] # <<>> => flags'[q] = flags[q]
  BY <1>1
<1>8. QED
  BY <1>2, <1>3, <1>4, <1>6, <1>7, Enter

LEMMA RuntimeInvScriptEnds ==
  ASSUME RuntimeInv, NEW p \in Procs, ScriptEnds(p)
  PROVE  RuntimeInv'
<1>1. /\ Running(p) /\ Top(p).pc # "acquire" /\ Release(p, Top(p).script) /\ Return(p)
      /\ UNCHANGED <<text, stamp, cache, meta, flags, raced>>
  BY DEF ScriptEnds, At
<1>2. modules' \in [Procs -> SUBSET Scripts]
  BY <1>1, AtFacts DEF ScriptEnds
<1>3. QED
  BY <1>1, <1>2, LeaveReading

LEMMA RuntimeInvIoFails ==
  ASSUME RuntimeInv, NEW p \in Procs, IoFails(p)
  PROVE  RuntimeInv'
<1>1. /\ Running(p) /\ Working(Top(p)) /\ Top(p).pc # "acquire"
      /\ Release(p, Top(p).script) /\ Return(p)
      /\ UNCHANGED <<text, stamp, modules, flags, raced>>
  BY DEF IoFails, At, Working
<1>2. /\ cache' = cache \/ cache' = [cache EXCEPT ![TopPath(p)] = NoText]
      /\ meta' = meta \/ meta' = [meta EXCEPT ![TopPath(p)] = NoMeta]
  BY DEF IoFails, CommitFails
<1>3. /\ cache' \in [CacheFiles -> Texts \cup {NoText}]
      /\ \A c \in CacheFiles : c # TopPath(p) => cache'[c] = cache[c]
  BY <1>1, <1>2, AtFacts
<1>4. meta' \in [CacheFiles -> Meta \cup {NoMeta}] /\ MetaHonest'
  BY <1>1, <1>2, AtFacts DEF MetaHonest
<1>5. modules' \in [Procs -> SUBSET Scripts]
  BY <1>1, AtFacts
<1>6. QED
  BY <1>1, <1>3, <1>4, <1>5, Leave

LEMMA RuntimeInvProcessStep ==
  ASSUME RuntimeInv, NEW p \in Procs, ProcessStep(p)
  PROVE  RuntimeInv'
<1>1. CASE RuntimeStep(p)
  BY <1>1, RuntimeInvAcquire, RuntimeInvAcquireFails, RuntimeInvReadSource,
     RuntimeInvCleanCache, RuntimeInvCleanMeta, RuntimeInvReadCache, RuntimeInvReadBytes,
     RuntimeInvCheckMeta, RuntimeInvRebuild, RuntimeInvReread, RuntimeInvHashCache,
     RuntimeInvEmit
  DEF RuntimeStep
<1>2. CASE ScriptStep(p)
  BY <1>2, RuntimeInvRequire, RuntimeInvScriptEnds DEF ScriptStep
<1>3. CASE IoFails(p)
  BY <1>3, RuntimeInvIoFails
<1>4. QED
  BY <1>1, <1>2, <1>3 DEF ProcessStep

LEMMA RuntimeInvStutter == RuntimeInv /\ UNCHANGED runtimeVars => RuntimeInv'
<1> SUFFICES ASSUME RuntimeInv, UNCHANGED runtimeVars PROVE RuntimeInv'
  OBVIOUS
<1>1. UNCHANGED <<text, stamp, lock, cache, meta, stack, modules, flags, raced>>
  BY DEF runtimeVars, files
<1>2. RuntimeTypeOK' /\ LockExclusive' /\ NoLeakedLock' /\ MetaHonest' /\ HasOwnText'
  BY <1>1 DEF RuntimeInv, RuntimeTypeOK, LockExclusive, NoLeakedLock, MetaHonest, HasOwnText,
     CachePath
<1>3. RacedShared' /\ OuterCallsRun' /\ RacesSeen'
  BY <1>1 DEF RuntimeInv, RacedShared, OuterCallsRun, RacesSeen, CachePath
<1>4. QED
  BY <1>2, <1>3 DEF RuntimeInv

LEMMA RuntimeInvStep == RuntimeInv /\ [RuntimeNext]_runtimeVars => RuntimeInv'
<1> SUFFICES ASSUME RuntimeInv, [RuntimeNext]_runtimeVars PROVE RuntimeInv'
  OBVIOUS
<1>1. ASSUME NEW p \in Procs,
             (\E e \in Entries : StartProcess(p, e)) \/ ProcessStep(p) \/ Die(p)
      PROVE  RuntimeInv'
  BY <1>1, RuntimeInvStart, RuntimeInvProcessStep, RuntimeInvDie
<1>2. ASSUME NEW s \in Scripts, Edit(s)
      PROVE  RuntimeInv'
  BY <1>2, RuntimeInvEdit
<1>3. CASE UNCHANGED runtimeVars
  BY <1>3, RuntimeInvStutter
<1>4. QED
  BY <1>1, <1>2, <1>3 DEF RuntimeNext

-----------------------------------------------------------------------------
(* The theorems                                                            *)

\* In every behaviour of the processes the lock directory, the cache file and
\* the metadata of each script, and the calls working on it, agree.
THEOREM RuntimeInvariance == RuntimeSpec => []RuntimeInv
<1>1. RuntimeInit => RuntimeInv
  BY RuntimeInvInit
<1>2. RuntimeInv /\ [RuntimeNext]_runtimeVars => RuntimeInv'
  BY RuntimeInvStep
<1>3. QED
  BY <1>1, <1>2, PTL DEF RuntimeSpec

\* However many processes run a script, and whatever crashes and failing disks
\* do, at most one call is between AcquireDirectoryLock and ~ScriptCacheLock.
THEOREM ScriptLockExclusive == RuntimeSpec => []LockExclusive
<1>1. RuntimeInv => LockExclusive
  BY DEF RuntimeInv
<1>2. QED
  BY <1>1, RuntimeInvariance, PTL

\* Every return path of ExecuteScriptFile comes to ~ScriptCacheLock: a lock directory
\* that nobody will try to remove is that of a process that died, or one whose
\* removal failed.
THEOREM ScriptLockReleased == RuntimeSpec => []NoLeakedLock
<1>1. RuntimeInv => NoLeakedLock
  BY DEF RuntimeInv
<1>2. QED
  BY <1>1, RuntimeInvariance, PTL

\* The script cache is transparent: what is run is what was read, except from a cache
\* file that two processes have worked on at once.
THEOREM CacheTransparent == RuntimeSpec => []RunsWhatItRead
<1>1. RuntimeInv => RunsWhatItRead
  BY DEF RuntimeInv, HasOwnText, RunsWhatItRead
<1>2. QED
  BY <1>1, RuntimeInvariance, PTL

\* A script runs the text that was read from its file if no other script has its
\* cache file: without --cache_dir, or with it and a file name of its own.
OwnFileRuns ==
  \A p \in Procs : \A k \in DOMAIN stack[p] :
    LET f == stack[p][k] IN
    /\ f.pc = "run"
    /\ "cache_dir" \in flags[p] => \A r \in Scripts \ {f.script} : FileName[r] # FileName[f.script]
    => f.compiled = f.src

LEMMA OwnFileNotRaced == RuntimeInv => RunsWhatItRead /\ OwnFileRuns
<1> SUFFICES ASSUME RuntimeInv PROVE RunsWhatItRead /\ OwnFileRuns
  OBVIOUS
<1>1. RunsWhatItRead
  BY DEF RuntimeInv, HasOwnText, RunsWhatItRead
<1>2. ASSUME NEW p \in Procs, NEW k \in DOMAIN stack[p], stack[p][k].pc = "run",
             "cache_dir" \in flags[p] =>
               \A r \in Scripts \ {stack[p][k].script} : FileName[r] # FileName[stack[p][k].script]
      PROVE  stack[p][k].compiled = stack[p][k].src
  <2>1. stack[p][k].script \in Scripts
    BY CallFacts
  <2>2. CachePath(p, stack[p][k].script) \notin raced
    <3>1. CASE "cache_dir" \in flags[p]
      BY <1>2, <2>1, <3>1 DEF RuntimeInv, RacedShared, CachePath
    <3>2. CASE "cache_dir" \notin flags[p]
      BY <2>1, <3>2, NamesAssumption DEF RuntimeInv, RacedShared, CachePath
    <3>3. QED
      BY <3>1, <3>2
  <2>3. QED
    BY <1>1, <1>2, <2>2 DEF RunsWhatItRead
<1>3. QED
  BY <1>1, <1>2 DEF OwnFileRuns

\* With the cache file in its default place, or below --cache_dir under a name that no
\* other script has, the cache is transparent without exception.
THEOREM OwnFileTransparent == RuntimeSpec => []OwnFileRuns
<1>1. RuntimeInv => OwnFileRuns
  BY OwnFileNotRaced
<1>2. QED
  BY <1>1, RuntimeInvariance, PTL

-----------------------------------------------------------------------------
(* Who removes a lock                                                      *)

\* A step of a process makes a lock that did not exist, or removes the lock of the
\* call that it returns from, or fails to.
LEMMA LockChange ==
  ASSUME RuntimeInv, NEW p \in Procs, ProcessStep(p), lock' # lock
  PROVE  LET s == Top(p).script IN
         /\ Running(p)
         /\ \/ lock[s] = Free /\ lock' = [lock EXCEPT ![s] = p]
            \/ /\ Top(p).pc # "acquire"
               /\ \E v \in Outcomes(Free, Stale) : lock' = [lock EXCEPT ![s] = v]
               /\ stack' = [stack EXCEPT ![p] = Tail(@)]
<1>1. CASE Acquire(p)
  BY <1>1 DEF Acquire, At
<1>2. ~AcquireFails(p) /\ ~CleanCache(p) /\ ~CleanMeta(p) /\ ~ReadCache(p) /\ ~ReadBytes(p)
  BY DEF AcquireFails, CleanCache, CleanMeta, ReadCache, ReadBytes, files
<1>3. ~CheckMeta(p) /\ ~Rebuild(p) /\ ~HashCache(p) /\ ~Require(p)
  BY DEF CheckMeta, Rebuild, HashCache, Require, files
<1>4. CASE Running(p) /\ Top(p).pc # "acquire" /\ Release(p, Top(p).script) /\ Return(p)
  <2>1. lock[Top(p).script] = p
    BY <1>4, TopFrame, CallFacts DEF RuntimeInv
  <2>2. \E v \in Outcomes(Free, Stale) : lock' = [lock EXCEPT ![Top(p).script] = v]
    BY <1>4, <2>1 DEF Release
  <2>3. QED
    BY <1>4, <2>2 DEF Return
<1>5. CASE ReadSource(p)
  BY <1>4, <1>5 DEF ReadSource, At
<1>6. CASE Reread(p)
  BY <1>4, <1>6 DEF Reread, At
<1>7. CASE Emit(p)
  BY <1>4, <1>7 DEF Emit, At
<1>8. CASE ScriptEnds(p)
  BY <1>4, <1>8 DEF ScriptEnds, At
<1>9. CASE IoFails(p)
  BY <1>4, <1>9 DEF IoFails, At
<1>10. QED
  BY <1>1, <1>2, <1>3, <1>5, <1>6, <1>7, <1>8, <1>9 DEF ProcessStep, RuntimeStep, ScriptStep

\* The lock of s is given up by the one who made it, who returns from a call or dies.
GivenUp(s) ==
  /\ lock[s] \in Procs
  /\ Len(stack'[lock[s]]) < Len(stack[lock[s]])

LEMMA ProcessGivesUp ==
  ASSUME RuntimeInv, NEW p \in Procs, ProcessStep(p),
         NEW s \in Scripts, lock[s] # Free, lock'[s] # lock[s]
  PROVE  GivenUp(s)
<1>1. /\ stack \in [Procs -> Seq(Frame)] /\ lock \in [Scripts -> Procs \cup {Free, Stale}]
  BY DEF RuntimeInv, RuntimeTypeOK
<1>2. /\ Running(p) /\ stack[p] \in Seq(Frame) /\ stack[p] # <<>>
      /\ 1 \in DOMAIN stack[p] /\ Top(p) = stack[p][1]
  BY LockChange, TopFrame DEF RuntimeInv
<1>3. /\ s = Top(p).script
      /\ Top(p).pc # "acquire"
      /\ stack' = [stack EXCEPT ![p] = Tail(@)]
  BY <1>1, LockChange
<1>4. lock[s] = p
  BY <1>2, <1>3, CallFacts
<1>5. stack'[p] = Tail(stack[p])
  BY <1>1, <1>3
<1>6. Len(Tail(stack[p])) < Len(stack[p])
  BY <1>2
<1>7. QED
  BY <1>4, <1>5, <1>6 DEF GivenUp

LEMMA DeathGivesUp ==
  ASSUME RuntimeInv, NEW p \in Procs, Die(p), NEW s \in Scripts, lock'[s] # lock[s]
  PROVE  GivenUp(s)
<1>1. stack \in [Procs -> Seq(Frame)] /\ lock[s] = p /\ stack[p] # <<>> /\ stack'[p] = <<>>
  BY DEF RuntimeInv, RuntimeTypeOK, Die, Running
<1>2. Len(stack[p]) > 0 /\ Len(<<>>) = 0
  BY <1>1
<1>3. QED
  BY <1>1, <1>2 DEF GivenUp

\* A lock that exists is given up by its maker only: nobody removes the lock of
\* another process, and nobody one that was left behind.
LocksGivenUp == [][\A s \in Scripts : lock[s] # Free /\ lock'[s] # lock[s] => GivenUp(s)]_runtimeVars

\* Without a watcher, whatever fails, the lock directory of a script is removed by
\* the process that made it, when the call that took it returns; one that is left
\* behind, by a death or a removal that failed, stays for ever, and so every later call
\* for that script times out (AcquireDirectoryLock, ~ScriptCacheLock).
THEOREM LocksOwned == RuntimeSpec => LocksGivenUp
<1>1. RuntimeInv /\ [RuntimeNext]_runtimeVars
      => [\A s \in Scripts : lock[s] # Free /\ lock'[s] # lock[s] => GivenUp(s)]_runtimeVars
  <2> SUFFICES ASSUME RuntimeInv, RuntimeNext, NEW s \in Scripts,
                      lock[s] # Free, lock'[s] # lock[s]
               PROVE  GivenUp(s)
    OBVIOUS
  <2>1. CASE \E p \in Procs : \E e \in Entries : StartProcess(p, e)
    BY <2>1 DEF StartProcess, files
  <2>2. CASE \E p \in Procs : ProcessStep(p)
    BY <2>2, ProcessGivesUp
  <2>3. CASE \E p \in Procs : Die(p)
    BY <2>3, DeathGivesUp
  <2>4. CASE \E t \in Scripts : Edit(t)
    BY <2>4 DEF Edit
  <2>5. QED
    BY <2>1, <2>2, <2>3, <2>4 DEF RuntimeNext
<1>2. QED
  BY <1>1, RuntimeInvariance, PTL DEF RuntimeSpec, LocksGivenUp

\* No lock directory is left behind.
NoneLeftBehind == \A s \in Scripts : lock[s] # Stale

\* When no process dies and no removal fails, no lock directory is ever left behind: with
\* ScriptLockReleased, each one that exists has a living call that will remove it.
THEOREM LocksLive ==
  ASSUME "io" \notin Failures, "crash" \notin Failures
  PROVE  RuntimeSpec => []NoneLeftBehind
<1>1. RuntimeInit => NoneLeftBehind
  BY MarksAssumption DEF RuntimeInit, NoneLeftBehind
<1>2. RuntimeInv /\ NoneLeftBehind /\ [RuntimeNext]_runtimeVars => NoneLeftBehind'
  <2> SUFFICES ASSUME RuntimeInv, NoneLeftBehind, [RuntimeNext]_runtimeVars, lock' # lock
               PROVE  NoneLeftBehind'
    BY DEF NoneLeftBehind
  <2>1. PICK p \in Procs : ProcessStep(p)
    BY DEF RuntimeNext, runtimeVars, files, StartProcess, Edit
  <2>2. \E v \in {Free, p} : lock' = [lock EXCEPT ![Top(p).script] = v]
    BY <2>1, LockChange DEF Outcomes
  <2>3. QED
    BY <2>2, MarksAssumption DEF RuntimeInv, RuntimeTypeOK, NoneLeftBehind
<1>3. QED
  BY <1>1, <1>2, RuntimeInvariance, PTL DEF RuntimeSpec

-----------------------------------------------------------------------------
(* Watch mode: the watcher and its child                                   *)

\* The watcher has no child between StopChild and SpawnChild, and after Stop.
NoChildWhileRestarting == wpc \in {"clean", "spawn", "stopped"} => ~child_pid

Shape == DOMAIN stack = Procs /\ DOMAIN lock = Scripts

WatchInv == Shape /\ NoOrphan /\ NoChildWhileRestarting

-----------------------------------------------------------------------------
(* What a step of a process may do to the stacks and the locks             *)

\* What a step of p may make of a lock: it leaves one behind on a failing disk only.
LocksOf(p) == {Free, p} \cup IF "io" \in Failures THEN {Stale} ELSE {}

\* A step of p: the other processes stay where they are, and a lock is made or
\* removed by p, or left behind.
OwnStep(p) ==
  /\ DOMAIN stack' = Procs /\ DOMAIN lock' = Scripts
  /\ \A q \in Procs \ {p} : stack'[q] = stack[q]
  /\ \A s \in Scripts : lock'[s] \in {lock[s]} \cup LocksOf(p)

LEMMA OwnStepOf ==
  ASSUME Shape, NEW p \in Procs, NEW x, stack' = [stack EXCEPT ![p] = x],
         NEW s, \/ lock' = lock
                \/ \E v \in {lock[s]} \cup LocksOf(p) : lock' = [lock EXCEPT ![s] = v]
  PROVE  OwnStep(p)
  BY DEF Shape, OwnStep

LEMMA ProcessStepOwn ==
  ASSUME Shape, NEW p \in Procs, ProcessStep(p)
  PROVE  Running(p) /\ OwnStep(p)
<1> DEFINE Lock(s) == \/ lock' = lock
                      \/ \E v \in {lock[s]} \cup LocksOf(p) : lock' = [lock EXCEPT ![s] = v]
<1>0. \A s : Release(p, s) => Lock(s)
  BY DEF Release, Outcomes, LocksOf
<1>1. /\ Running(p)
      /\ \E x : stack' = [stack EXCEPT ![p] = x]
      /\ Lock(Top(p).script)
  <2>1. CASE Acquire(p)
    BY <2>1 DEF Acquire, At, Goto, LocksOf
  <2>2. CASE AcquireFails(p)
    BY <2>2 DEF AcquireFails, At, Return, files
  <2> HIDE DEF Lock
  <2>0. lock' = lock => Lock(Top(p).script)
    BY DEF Lock
  <2>3. CASE ReadSource(p)
    BY <1>0, <2>0, <2>3 DEF ReadSource, At, Goto, Return
  <2>4. CASE CleanCache(p)
    BY <2>0, <2>4 DEF CleanCache, At, Goto
  <2>5. CASE CleanMeta(p)
    BY <2>0, <2>5 DEF CleanMeta, At, Goto
  <2>6. CASE ReadCache(p)
    BY <2>0, <2>6 DEF ReadCache, At, Goto, files
  <2>7. CASE CheckMeta(p)
    BY <2>0, <2>7 DEF CheckMeta, At, Goto, files
  <2>8. CASE Rebuild(p)
    BY <2>0, <2>8 DEF Rebuild, At, Goto
  <2>9. CASE Reread(p)
    BY <1>0, <2>0, <2>9 DEF Reread, At, Goto, Return
  <2>10. CASE HashCache(p)
    BY <2>0, <2>10 DEF HashCache, At, Goto, files
  <2>11. CASE Emit(p)
    BY <1>0, <2>0, <2>11 DEF Emit, At, Goto, Return
  <2>12. CASE Require(p)
    BY <2>0, <2>12 DEF Require, At, files
  <2>13. CASE ScriptEnds(p)
    BY <1>0, <2>13 DEF ScriptEnds, At, Return
  <2>14. CASE IoFails(p)
    BY <1>0, <2>14 DEF IoFails, At, Return
  <2>15. CASE ReadBytes(p)
    BY <2>0, <2>15 DEF ReadBytes, At, Goto, files
  <2>16. QED
    BY <2>1, <2>2, <2>3, <2>4, <2>5, <2>6, <2>7, <2>8, <2>9, <2>10, <2>11, <2>12, <2>13, <2>14,
       <2>15
    DEF ProcessStep, RuntimeStep, ScriptStep
<1>2. QED
  BY <1>1, OwnStepOf

LEMMA StartProcessOwn ==
  ASSUME Shape, NEW p \in Procs, NEW e \in Entries, StartProcess(p, e)
  PROVE  ~Running(p) /\ OwnStep(p)
<1>1. ~Running(p) /\ stack' = [stack EXCEPT ![p] = <<NewFrame(e)>>] /\ lock' = lock
  BY DEF StartProcess, files
<1>2. QED
  BY <1>1, OwnStepOf

LEMMA DieShape ==
  ASSUME Shape, NEW p \in Procs, Die(p)
  PROVE  /\ Running(p) /\ stack'[p] = <<>> /\ Shape'
         /\ \A q \in Procs \ {p} : stack'[q] = stack[q]
  BY DEF Die, Shape

-----------------------------------------------------------------------------
(* The child                                                               *)

LEMMA WatchInvInit == Init => WatchInv
  BY ChildAssumption DEF Init, RuntimeInit, WatchInv, Shape, NoOrphan, NoChildWhileRestarting, Running

\* A step of the watcher's own that leaves the processes alone.
LEMMA WatchInvWatcher ==
  ASSUME WatchInv, WatcherStep
  PROVE  WatchInv'
<1> USE DEF WatchInv
<1>1. CASE WatchTick \/ Snapshot \/ RecompileFails \/ LeaveLoop
  BY <1>1 DEF WatchTick, Snapshot, RecompileFails, LeaveLoop, Watcher, runtimeVars, files,
     Shape, NoOrphan, NoChildWhileRestarting, Running
<1>2. CASE Cleanup
  <2>1. /\ wpc = "clean" /\ wpc' = "spawn" /\ UNCHANGED <<stack, child_pid>>
        /\ DOMAIN lock' = Scripts
    BY <1>2 DEF Cleanup, Watcher
  <2>2. QED
    BY <2>1 DEF Shape, NoOrphan, NoChildWhileRestarting, Running
<1>3. CASE Spawn
  <2>1. wpc' = "idle" /\ child_pid' = TRUE /\ StartProcess(Child, Entry)
    BY <1>3 DEF Spawn, Watcher
  <2>2. Shape'
    BY <2>1, StartProcessOwn, ChildAssumption DEF OwnStep, Shape
  <2>3. QED
    BY <2>1, <2>2 DEF NoOrphan, NoChildWhileRestarting
<1>4. ASSUME NEW from, NEW to, StopReap(from, to)
      PROVE  WatchInv'
  BY <1>4 DEF StopReap, Watcher, runtimeVars, files, Shape, NoOrphan, NoChildWhileRestarting, Running
<1>5. ASSUME NEW from, NEW to \in {"term", "lastTerm"}, StopTerm(from, to)
      PROVE  WatchInv'
  BY <1>5 DEF StopTerm, Watcher, runtimeVars, files, Shape, NoOrphan, NoChildWhileRestarting, Running
<1>6. ASSUME NEW from, NEW to, StopKill(from, to)
      PROVE  WatchInv'
  <2>1. Die(Child) /\ child_pid' = FALSE
    BY <1>6 DEF StopKill
  <2>2. stack'[Child] = <<>> /\ Shape'
    BY <2>1, DieShape, ChildAssumption
  <2>3. QED
    BY <2>1, <2>2 DEF NoOrphan, NoChildWhileRestarting, Running
<1>7. QED
  BY <1>1, <1>2, <1>3, <1>4, <1>5, <1>6 DEF WatcherStep

\* A step that leaves the watcher alone, and the child too unless it is the
\* child's own or ends it.
LEMMA WatchInvOutside ==
  ASSUME WatchInv, UNCHANGED <<wpc, child_pid>>, Shape', Running(Child)' => Running(Child)
  PROVE  WatchInv'
  BY DEF WatchInv, NoOrphan, NoChildWhileRestarting

LEMMA WatchInvStep == WatchInv /\ [Next]_vars => WatchInv'
<1> SUFFICES ASSUME WatchInv, [Next]_vars PROVE WatchInv'
  OBVIOUS
<1>1. CASE WatcherStep
  BY <1>1, WatchInvWatcher
<1>2. CASE WatchFsEvent
  BY <1>2 DEF WatchFsEvent, Watcher, runtimeVars, files, WatchInv, Shape, NoOrphan,
     NoChildWhileRestarting, Running
<1>3. CASE RequestStop
  BY <1>3 DEF RequestStop, runtimeVars, files, WatchInv, Shape, NoOrphan,
     NoChildWhileRestarting, Running
<1>4. ASSUME NEW p \in Procs, Die(p), UNCHANGED watchVars
      PROVE  WatchInv'
  <2>1. Shape' /\ (Running(Child)' => Running(Child))
    BY <1>4, DieShape, ChildAssumption DEF WatchInv, Running
  <2>2. QED
    BY <1>4, <2>1, WatchInvOutside DEF watchVars
<1>5. CASE FileChange
  <2>1. UNCHANGED <<wpc, child_pid, stack, lock>>
    BY <1>5 DEF FileChange, Edit
  <2>2. QED
    BY <2>1 DEF WatchInv, Shape, NoOrphan, NoChildWhileRestarting, Running
<1>6. CASE ChildStep
  <2>1. ProcessStep(Child) /\ UNCHANGED <<wpc, child_pid>>
    BY <1>6 DEF ChildStep, watchVars
  <2>2. Running(Child) /\ Shape'
    BY <2>1, ProcessStepOwn, ChildAssumption DEF WatchInv, OwnStep, Shape
  <2>3. QED
    BY <2>1, <2>2, WatchInvOutside
<1>7. ASSUME NEW p \in Procs \ {Child}, UNCHANGED watchVars,
             ProcessStep(p) \/ \E e \in Entries : StartProcess(p, e)
      PROVE  WatchInv'
  <2>1. OwnStep(p)
    BY <1>7, StartProcessOwn, ProcessStepOwn DEF WatchInv
  <2>2. Shape' /\ stack'[Child] = stack[Child]
    BY <2>1, ChildAssumption DEF OwnStep, Shape
  <2>3. QED
    BY <1>7, <2>2, WatchInvOutside DEF watchVars, Running
<1>8. CASE UNCHANGED vars
  BY <1>8 DEF vars, watchVars, runtimeVars, files, WatchInv, Shape, NoOrphan,
     NoChildWhileRestarting, Running
<1>9. QED
  BY <1>1, <1>2, <1>3, <1>4, <1>5, <1>6, <1>7, <1>8, ChildAssumption
  DEF Next, Terminated, OtherProcess, ProcessDies

\* StopChild and Stop forget a child only when it is dead, whatever order signals,
\* crashes, failed forks and requests to stop come in.
THEOREM WatcherOwnsChild == SafeSpec => []NoOrphan
<1>1. Init => WatchInv
  BY WatchInvInit
<1>2. WatchInv /\ [Next]_vars => WatchInv'
  BY WatchInvStep
<1>3. WatchInv => NoOrphan
  BY DEF WatchInv
<1>4. QED
  BY <1>1, <1>2, <1>3, PTL DEF SafeSpec

-----------------------------------------------------------------------------
(* The lock in the way of the child                                        *)

\* A lock is left behind by a death or a removal that fails, and the child is not alive
\* when it is about to be started.
LEMMA NoStaleStep ==
  ASSUME Watched = Entry, "crash" \in Failures \/ "io" \in Failures => Procs = {Child},
         WatchInv, SpawnUnblocked, [Next]_vars
  PROVE  SpawnUnblocked'
<1> SUFFICES ASSUME wpc' = "spawn" PROVE lock'[Entry] # Stale
  BY DEF SpawnUnblocked
<1>1. CASE wpc = "spawn"
  <2>1. lock[Entry] # Stale /\ ~Running(Child) /\ ~child_pid
    BY <1>1 DEF SpawnUnblocked, WatchInv, NoOrphan, NoChildWhileRestarting
  <2>2. ASSUME NEW p \in Procs, p # Child, OwnStep(p)
        PROVE  lock'[Entry] # Stale
    BY <2>1, <2>2, MarksAssumption, ScriptsAssumption, ChildAssumption DEF OwnStep, LocksOf
  <2>3. ~WatcherStep /\ ~WatchFsEvent
    BY <1>1 DEF WatcherStep, WatchTick, Snapshot, Cleanup, RecompileFails, Spawn, LeaveLoop,
       StopReap, StopTerm, StopKill, Watcher, WatchFsEvent
  <2>4. ~Terminated /\ ~ProcessDies
    BY <2>1 DEF Terminated, ProcessDies, Die
  <2>5. CASE RequestStop \/ FileChange \/ UNCHANGED vars
    <3>1. UNCHANGED lock
      BY <2>5 DEF RequestStop, FileChange, Edit, vars, runtimeVars, files
    <3>2. QED
      BY <2>1, <3>1
  <2>6. ~ChildStep
    BY <2>1, ProcessStepOwn, ChildAssumption DEF ChildStep, WatchInv
  <2>7. CASE OtherProcess
    <3>1. PICK p \in Procs \ {Child} : ProcessStep(p) \/ \E e \in Entries : StartProcess(p, e)
      BY <2>7 DEF OtherProcess
    <3>2. OwnStep(p)
      BY <3>1, StartProcessOwn, ProcessStepOwn DEF WatchInv
    <3>3. QED
      BY <2>2, <3>2
  <2>8. QED
    BY <2>3, <2>4, <2>5, <2>6, <2>7 DEF Next
<1>2. CASE wpc # "spawn"
  <2>1. Cleanup
    BY <1>2 DEF Next, WatcherStep, WatchTick, Snapshot, RecompileFails, Spawn, LeaveLoop,
       StopReap, StopTerm, StopKill, Watcher, WatchFsEvent, RequestStop, Terminated, FileChange,
       ChildStep, OtherProcess, ProcessDies, watchVars, vars
  <2>2. QED
    BY <2>1, MarksAssumption, ScriptsAssumption, ChildAssumption DEF Cleanup
<1>3. QED
  BY <1>1, <1>2

\* When the watched path is the script itself, and no process but the child can
\* die or fail to remove a lock, Recompile starts a child whose entry script has no lock
\* that was left behind, however the child before it ended or was stopped.
THEOREM RestartUnblocked ==
  ASSUME Watched = Entry, "crash" \in Failures \/ "io" \in Failures => Procs = {Child}
  PROVE  SafeSpec => []SpawnUnblocked
<1>1. Init => WatchInv /\ SpawnUnblocked
  BY WatchInvInit DEF Init, SpawnUnblocked
<1>2. (WatchInv /\ SpawnUnblocked) /\ [Next]_vars => (WatchInv /\ SpawnUnblocked)'
  BY WatchInvStep, NoStaleStep
<1>3. QED
  BY <1>1, <1>2, PTL DEF SafeSpec

-----------------------------------------------------------------------------
(* Removing a lock that no living process holds                            *)

\* When the watcher is about to remove the lock directory of a script, no process
\* but its own child has it.
RecoversAlone ==
  wpc = "clean" /\ Watched \in Scripts => lock[Watched] \notin Procs \ {Child}

LEMMA AloneCleanup ==
  ASSUME RecoversAlone, RuntimeInv, WatchInv, Cleanup
  PROVE  RuntimeInv'
<1>1. /\ lock' = [s \in Scripts |-> IF s = Watched THEN Free ELSE lock[s]]
      /\ UNCHANGED <<text, stamp, cache, meta, stack, modules, flags, raced>>
  BY DEF Cleanup
<1>2. wpc = "clean" /\ DOMAIN stack[Child] = {}
  BY DEF Cleanup, Watcher, WatchInv, NoOrphan, NoChildWhileRestarting, Running
<1>3. Watched \in Scripts => lock[Watched] \notin Procs
  BY <1>2, ChildAssumption DEF RecoversAlone, RuntimeInv, NoLeakedLock
<1>4. RuntimeTypeOK'
  <2>1. lock' \in [Scripts -> Procs \cup {Free, Stale}]
    BY <1>1 DEF RuntimeInv, RuntimeTypeOK
  <2>2. QED
    BY <1>1, <2>1 DEF RuntimeInv, RuntimeTypeOK
<1>5. \A s \in Scripts : lock[s] \in Procs \/ lock'[s] \in Procs => lock'[s] = lock[s]
  BY <1>1, <1>3, MarksAssumption
<1>6. NoLeakedLock' /\ MetaHonest'
  BY <1>1, <1>5 DEF RuntimeInv, NoLeakedLock, MetaHonest
<1>7. HasOwnText' /\ RacedShared' /\ OuterCallsRun' /\ RacesSeen'
  BY <1>1 DEF RuntimeInv, HasOwnText, RacedShared, OuterCallsRun, RacesSeen, CachePath
<1>8. LockExclusive'
  <2>1. SUFFICES ASSUME NEW p \in Procs, NEW q \in Procs,
                        NEW k \in DOMAIN stack[p], NEW m \in DOMAIN stack[q],
                        stack[p][k].pc # "acquire"
                 PROVE  /\ lock'[stack[p][k].script] = p
                        /\ stack[p][k].script = stack[q][m].script /\ stack[q][m].pc # "acquire"
                           => p = q /\ k = m
    BY <1>1 DEF LockExclusive
  <2>2. lock[stack[p][k].script] = p /\ stack[p][k].script \in Scripts
    BY <2>1, CallFacts
  <2>3. QED
    BY <1>5, <2>1, <2>2, OneHolder
<1>9. QED
  BY <1>4, <1>6, <1>7, <1>8 DEF RuntimeInv

\* A process starts, and it is the child only on the entry script.
Starts == \E p \in Procs : \E e \in Entries : StartProcess(p, e) /\ (p = Child => e = Entry)

\* What a step of watch mode is to the processes and the files.
LEMMA WatchSteps ==
  ASSUME [Next]_vars
  PROVE  \/ UNCHANGED runtimeVars
         \/ Cleanup
         \/ Starts
         \/ \E p \in Procs : Die(p) \/ ProcessStep(p)
         \/ \E s \in Scripts : Edit(s)
<1>1. CASE WatcherStep
  BY <1>1, ChildAssumption DEF WatcherStep, WatchTick, Snapshot, RecompileFails, Spawn, LeaveLoop,
     StopReap, StopTerm, StopKill, Starts
<1>2. CASE WatchFsEvent \/ RequestStop \/ UNCHANGED vars
  BY <1>2 DEF WatchFsEvent, RequestStop, vars
<1>3. CASE Terminated \/ FileChange \/ ChildStep \/ OtherProcess \/ ProcessDies
  BY <1>3, ChildAssumption DEF Terminated, FileChange, ChildStep, OtherProcess, ProcessDies, Starts
<1>4. QED
  BY <1>1, <1>2, <1>3 DEF Next

LEMMA AloneStep ==
  ASSUME RecoversAlone, RuntimeInv, WatchInv, [Next]_vars
  PROVE  RuntimeInv'
  BY WatchSteps, AloneCleanup, RuntimeInvStutter, RuntimeInvDie, RuntimeInvStart,
     RuntimeInvProcessStep, RuntimeInvEdit DEF Starts

\* With any number of other processes that run the script, edits, kills and crashes:
\* as long as Recompile never meets a lock directory that a living process has, the
\* lock and the cache do in watch mode what they do without it.
THEOREM RecoveryHarmless == SafeSpec /\ []RecoversAlone => []RuntimeInv
<1>1. Init => RuntimeInv /\ WatchInv
  BY RuntimeInvInit, WatchInvInit DEF Init
<1>2. RecoversAlone /\ (RuntimeInv /\ WatchInv) /\ [Next]_vars => (RuntimeInv /\ WatchInv)'
  BY AloneStep, WatchInvStep
<1>3. QED
  BY <1>1, <1>2, PTL DEF SafeSpec

\* A lock that exists is given up by its maker, or it is that of the watched path
\* and Recompile removes it.
LocksGivenUpOrRecovered ==
  [][\A s \in Scripts : lock[s] # Free /\ lock'[s] # lock[s] =>
       GivenUp(s) \/ (s = Watched /\ wpc = "clean")]_vars

\* Recompile recovers the lock of the watched path and no other: the one that a killed
\* child leaves on a script it required stays for ever (watch_recompile_service.cc:46).
THEOREM OnlyWatchedRecovered == SafeSpec /\ []RecoversAlone => LocksGivenUpOrRecovered
<1>1. RuntimeInv /\ [Next]_vars
      => [\A s \in Scripts : lock[s] # Free /\ lock'[s] # lock[s] =>
            GivenUp(s) \/ (s = Watched /\ wpc = "clean")]_vars
  <2> SUFFICES ASSUME RuntimeInv, [Next]_vars, NEW s \in Scripts,
                      lock[s] # Free, lock'[s] # lock[s]
               PROVE  GivenUp(s) \/ (s = Watched /\ wpc = "clean")
    OBVIOUS
  <2>1. CASE UNCHANGED runtimeVars \/ \E t \in Scripts : Edit(t)
    BY <2>1 DEF runtimeVars, files, Edit
  <2>2. CASE Cleanup
    BY <2>2 DEF Cleanup, Watcher
  <2>3. CASE Starts \/ \E p \in Procs : Die(p) \/ ProcessStep(p)
    BY <2>3, DeathGivesUp, ProcessGivesUp DEF Starts, StartProcess, files
  <2>4. QED
    BY <2>1, <2>2, <2>3, WatchSteps
<1>2. QED
  BY <1>1, RecoveryHarmless, PTL DEF SafeSpec, LocksGivenUpOrRecovered

\* When nobody runs the script outside the watcher, or the watched path is the .ts
\* file and so has another lock directory than the script compiled from it, removing
\* the directory without asking who made it does no harm: in watch mode too a process
\* runs the text it read, across any number of restarts, kills and crashes, except from a
\* file below --cache_dir that scripts of one name share.
THEOREM WatchedCacheTransparent ==
  ASSUME Procs = {Child} \/ Watched \notin Scripts
  PROVE  SafeSpec => [](RunsWhatItRead /\ OwnFileRuns)
<1>1. RecoversAlone
  BY DEF RecoversAlone
<1>2. RuntimeInv => RunsWhatItRead /\ OwnFileRuns
  BY OwnFileNotRaced
<1>3. QED
  BY <1>1, <1>2, RecoveryHarmless, PTL

-----------------------------------------------------------------------------
(* A watched .ts file                                                      *)

\* The outermost call of the child is that of the entry script.
EntryFirst == stack[Child] # <<>> => stack[Child][Len(stack[Child])].script = Entry

\* A step of p that replaces its innermost call, returns from it, or enters another.
StackStep(p) ==
  \/ \E g : g.script = Top(p).script /\ stack' = [stack EXCEPT ![p] = <<g>> \o Tail(@)]
  \/ stack' = [stack EXCEPT ![p] = Tail(@)]
  \/ \E g : stack' = [stack EXCEPT ![p] = <<g>> \o @]

LEMMA GotoStackStep ==
  ASSUME NEW p \in Procs, NEW f, f \in Frame, f.script = Top(p).script, NEW pc, Goto(p, f, pc)
  PROVE  StackStep(p)
<1> DEFINE g == [f EXCEPT !.pc = pc]
<1>1. g.script = Top(p).script
  BY DEF Frame
<1>2. stack' = [stack EXCEPT ![p] = <<g>> \o Tail(@)]
  BY DEF Goto
<1> HIDE DEF g
<1>3. QED
  BY <1>1, <1>2 DEF StackStep

\* A call whose texts are replaced is still a call of its script.
LEMMA FrameTexts ==
  ASSUME NEW f \in Frame, NEW v \in Texts \cup {NoText}
  PROVE  /\ [f EXCEPT !.src = v] \in Frame /\ [f EXCEPT !.src = v].script = f.script
         /\ [f EXCEPT !.cached = v] \in Frame /\ [f EXCEPT !.cached = v].script = f.script
         /\ [f EXCEPT !.compiled = v] \in Frame /\ [f EXCEPT !.compiled = v].script = f.script
         /\ [f EXCEPT !.bin = v] \in Frame /\ [f EXCEPT !.bin = v].script = f.script
         /\ [f EXCEPT !.cached = NoText, !.bin = NoText] \in Frame
         /\ [f EXCEPT !.cached = NoText, !.bin = NoText].script = f.script
         /\ [f EXCEPT !.compiled = v, !.cached = NoText, !.bin = NoText] \in Frame
         /\ [f EXCEPT !.compiled = v, !.cached = NoText, !.bin = NoText].script = f.script
  BY DEF Frame

LEMMA ProcessStackStep ==
  ASSUME RuntimeInv, NEW p \in Procs, ProcessStep(p)
  PROVE  Running(p) /\ StackStep(p)
<1>1. Running(p)
  BY ProcessStepOwn DEF Shape, RuntimeInv, RuntimeTypeOK
<1> SUFFICES StackStep(p)
  BY <1>1
<1> DEFINE f == Top(p)
<1>2. f \in Frame /\ f.script \in Scripts /\ f.src \in Texts \cup {NoText}
      /\ f.cached \in Texts \cup {NoText}
  <2>1. f \in Frame
    BY <1>1, TopFrame DEF RuntimeInv
  <2>2. QED
    BY <2>1 DEF Frame
<1>3. text[f.script] \in Texts \cup {NoText} /\ cache[TopPath(p)] \in Texts \cup {NoText}
  BY <1>1, <1>2, AtFacts
<1>4. Return(p) => StackStep(p)
  BY DEF Return, StackStep
<1>5. ASSUME NEW v, NEW w \in Texts \cup {NoText}, NEW m, v \in Outcomes(w, m), m \in Texts \cup {NoText}
      PROVE  v \in Texts \cup {NoText}
  BY <1>5 DEF Outcomes
<1> HIDE DEF f
<1>6. \A g \in Frame : \A pc : g.script = f.script /\ Goto(p, g, pc) => StackStep(p)
  BY GotoStackStep DEF f
<1>7. CASE Acquire(p)
  BY <1>2, <1>6, <1>7 DEF Acquire, f
<1>8. CASE AcquireFails(p)
  BY <1>4, <1>8 DEF AcquireFails
<1>9. CASE ReadSource(p)
  <2> DEFINE g == [f EXCEPT !.src = text[f.script]]
  <2>1. g \in Frame /\ g.script = f.script /\ g.src \in Texts \cup {NoText}
    BY <1>2, <1>3, FrameTexts DEF Frame
  <2> DEFINE h == [g EXCEPT !.compiled = g.src]
  <2>2. \/ Return(p) \/ \E pc : Goto(p, g, pc)
        \/ Goto(p, h, "emit")
    BY <1>9 DEF ReadSource, f
  <2> HIDE DEF g
  <2>3. h \in Frame /\ h.script = f.script
    BY <2>1, FrameTexts
  <2> HIDE DEF h
  <2>4. QED
    BY <1>4, <1>6, <2>1, <2>2, <2>3
<1>10. CASE CleanCache(p)
  BY <1>2, <1>6, <1>10 DEF CleanCache, f
<1>11. CASE CleanMeta(p)
  <2> DEFINE h == [f EXCEPT !.compiled = f.src]
  <2>1. Goto(p, f, "cache") \/ Goto(p, h, "emit")
    BY <1>11 DEF CleanMeta, f
  <2>2. h \in Frame /\ h.script = f.script
    BY <1>2, FrameTexts
  <2> HIDE DEF h
  <2>3. QED
    BY <1>2, <1>6, <2>1, <2>2
<1>12. CASE ReadCache(p)
  <2>1. PICK v \in Outcomes(cache[TopPath(p)], NoText) :
          Goto(p, [f EXCEPT !.cached = v], IF v = NoText THEN "rebuild" ELSE "bytes")
    BY <1>12 DEF ReadCache, f
  <2>2. v \in Texts \cup {NoText}
    BY <1>3, <1>5, <2>1
  <2>3. QED
    BY <1>2, <1>6, <2>1, <2>2, FrameTexts
<1>13. CASE CheckMeta(p)
  <2> DEFINE h == [f EXCEPT !.compiled = f.cached, !.cached = NoText, !.bin = NoText]
             g == [f EXCEPT !.cached = NoText, !.bin = NoText]
  <2>1. Goto(p, g, "rebuild") \/ Goto(p, h, "hash")
    BY <1>13 DEF CheckMeta, f
  <2>2. h \in Frame /\ h.script = f.script /\ g \in Frame /\ g.script = f.script
    BY <1>2, FrameTexts
  <2> HIDE DEF h, g
  <2>3. QED
    BY <1>6, <2>1, <2>2
<1>14. CASE Rebuild(p)
  BY <1>2, <1>6, <1>14 DEF Rebuild, f
<1>15. CASE Reread(p)
  <2>1. PICK v \in Outcomes(cache[TopPath(p)], NoText) :
          Return(p) \/ Goto(p, [f EXCEPT !.compiled = v], "hash")
    BY <1>15 DEF Reread, f
  <2>2. v \in Texts \cup {NoText}
    BY <1>3, <1>5, <2>1
  <2>3. QED
    BY <1>2, <1>4, <1>6, <2>1, <2>2, FrameTexts
<1>16. CASE HashCache(p)
  <2>1. PICK v \in Outcomes(cache[TopPath(p)], NoText) : Goto(p, [f EXCEPT !.bin = v], "emit")
    BY <1>16 DEF HashCache, f
  <2>2. v \in Texts \cup {NoText}
    BY <1>3, <1>5, <2>1
  <2>3. QED
    BY <1>2, <1>6, <2>1, <2>2, FrameTexts
<1>17. CASE Emit(p)
  <2> DEFINE g == [f EXCEPT !.bin = NoText]
  <2>1. Return(p) \/ Goto(p, g, "run")
    BY <1>17 DEF Emit, f
  <2>2. g \in Frame /\ g.script = f.script
    BY <1>2, FrameTexts
  <2> HIDE DEF g
  <2>3. QED
    BY <1>4, <1>6, <2>1, <2>2
<1>18. CASE Require(p)
  <2>1. \E s : stack' = [stack EXCEPT ![p] = <<NewFrame(s)>> \o @]
    BY <1>18 DEF Require
  <2>2. QED
    BY <2>1 DEF StackStep
<1>19. CASE ScriptEnds(p)
  BY <1>4, <1>19 DEF ScriptEnds
<1>20. CASE IoFails(p)
  BY <1>4, <1>20 DEF IoFails
<1>21. CASE ReadBytes(p)
  <2>1. PICK v \in Outcomes(cache[TopPath(p)], NoText) : Goto(p, [f EXCEPT !.bin = v], "meta")
    BY <1>21 DEF ReadBytes, f
  <2>2. v \in Texts \cup {NoText}
    BY <1>3, <1>5, <2>1
  <2>3. QED
    BY <1>2, <1>6, <2>1, <2>2, FrameTexts
<1>22. QED
  BY <1>1, <1>7, <1>8, <1>9, <1>10, <1>11, <1>12, <1>13, <1>14, <1>15, <1>16, <1>17, <1>18,
     <1>19, <1>20, <1>21 DEF ProcessStep, RuntimeStep, ScriptStep

\* The outermost call of a stack that a step leaves not empty.
LEMMA Outermost ==
  ASSUME NEW s \in Seq(Frame), s # <<>>
  PROVE  /\ Tail(s) # <<>> => Tail(s)[Len(Tail(s))] = s[Len(s)]
         /\ \A g : (<<g>> \o s)[Len(<<g>> \o s)] = s[Len(s)]
         /\ \A g : (<<g>> \o Tail(s))[Len(<<g>> \o Tail(s))] = IF Len(s) = 1 THEN g ELSE s[Len(s)]
<1>1. Len(s) \in Nat \ {0} /\ Tail(s) \in Seq(Frame) /\ Len(Tail(s)) = Len(s) - 1
  OBVIOUS
<1>2. \A g : <<g>> \o s = [i \in 1 .. Len(s) + 1 |-> IF i = 1 THEN g ELSE s[i - 1]]
  OBVIOUS
<1>3. QED
  BY <1>1, <1>2

LEMMA EntryFirstChild ==
  ASSUME RuntimeInv, EntryFirst, ProcessStep(Child)
  PROVE  EntryFirst'
<1> USE ChildAssumption
<1>1. Running(Child) /\ StackStep(Child)
  BY ProcessStackStep
<1>2. /\ stack \in [Procs -> Seq(Frame)]
      /\ stack[Child] \in Seq(Frame) /\ stack[Child] # <<>> /\ Top(Child) = stack[Child][1]
  BY <1>1, TopFrame DEF RuntimeInv, RuntimeTypeOK
<1>3. stack[Child][Len(stack[Child])].script = Entry
  BY <1>2 DEF EntryFirst
<1>4. CASE \E g : /\ g.script = Top(Child).script
                  /\ stack' = [stack EXCEPT ![Child] = <<g>> \o Tail(@)]
  <2>1. PICK g : g.script = Top(Child).script /\ stack'[Child] = <<g>> \o Tail(stack[Child])
    BY <1>2, <1>4
  <2>2. Len(stack[Child]) = 1 => g.script = Entry
    BY <1>2, <1>3, <2>1
  <2>3. QED
    BY <1>2, <1>3, <2>1, <2>2, Outermost DEF EntryFirst
<1>5. CASE stack' = [stack EXCEPT ![Child] = Tail(@)]
  BY <1>2, <1>3, <1>5, Outermost DEF EntryFirst
<1>6. CASE \E g : stack' = [stack EXCEPT ![Child] = <<g>> \o @]
  BY <1>2, <1>3, <1>6, Outermost DEF EntryFirst
<1>7. QED
  BY <1>1, <1>4, <1>5, <1>6 DEF StackStep

LEMMA EntryFirstStep ==
  ASSUME RuntimeInv, EntryFirst, [Next]_vars
  PROVE  EntryFirst'
<1>1. stack \in [Procs -> Seq(Frame)] /\ Shape
  BY DEF RuntimeInv, RuntimeTypeOK, Shape
<1>2. CASE UNCHANGED runtimeVars \/ Cleanup \/ \E s \in Scripts : Edit(s)
  <2>1. stack' = stack
    BY <1>2 DEF runtimeVars, Cleanup, Edit
  <2>2. QED
    BY <2>1 DEF EntryFirst
<1>3. CASE StartProcess(Child, Entry)
  <2>1. stack' = [stack EXCEPT ![Child] = <<NewFrame(Entry)>>]
    BY <1>3 DEF StartProcess
  <2>2. NewFrame(Entry).script = Entry
    BY DEF NewFrame
  <2> HIDE DEF NewFrame
  <2>3. Len(<<NewFrame(Entry)>>) = 1 /\ <<NewFrame(Entry)>>[1] = NewFrame(Entry)
    OBVIOUS
  <2>4. QED
    BY <1>1, <2>1, <2>2, <2>3, ChildAssumption DEF EntryFirst
<1>4. ASSUME NEW p \in Procs, Die(p)
      PROVE  EntryFirst'
  BY <1>1, <1>4, ChildAssumption DEF Die, EntryFirst
<1>5. ASSUME NEW p \in Procs \ {Child}, ProcessStep(p) \/ \E e \in Entries : StartProcess(p, e)
      PROVE  EntryFirst'
  <2>1. OwnStep(p)
    BY <1>1, <1>5, ProcessStepOwn, StartProcessOwn
  <2>2. stack'[Child] = stack[Child]
    BY <2>1, ChildAssumption DEF OwnStep
  <2>3. QED
    BY <2>2 DEF EntryFirst
<1>6. ASSUME Starts
      PROVE  EntryFirst'
  BY <1>3, <1>5, <1>6 DEF Starts
<1>7. QED
  BY <1>2, <1>4, <1>5, <1>6, WatchSteps, EntryFirstChild

\* The lock of the entry script is left behind, and no text of it is entered.
NeverRunAgain == [][lock[Entry] = Stale => lock'[Entry] = Stale /\ ran' = ran]_vars

\* When the watched path is the .ts file that the entry script is compiled from, a process
\* that leaves the lock of the entry script behind, killed while it has it or unable to
\* remove it, is the last one that runs: the lock stays for ever, and while it does no
\* child enters the script, whatever is edited and however often the watcher restarts
\* (watch_recompile_service.cc:46).
THEOREM KilledTypeScriptStaysLocked ==
  ASSUME Watched \notin Scripts
  PROVE  SafeSpec => NeverRunAgain
<1>1. SafeSpec => []RuntimeInv
  <2>1. RecoversAlone
    BY DEF RecoversAlone
  <2>2. QED
    BY <2>1, RecoveryHarmless, PTL
<1>2. SafeSpec => []EntryFirst
  <2>1. Init => EntryFirst
    BY ChildAssumption DEF Init, RuntimeInit, EntryFirst
  <2>2. RuntimeInv /\ EntryFirst /\ [Next]_vars => EntryFirst'
    BY EntryFirstStep
  <2>3. QED
    BY <1>1, <2>1, <2>2, PTL DEF SafeSpec
<1>3. RuntimeInv /\ EntryFirst /\ [Next]_vars
      => [lock[Entry] = Stale => lock'[Entry] = Stale /\ ran' = ran]_vars
  <2> SUFFICES ASSUME RuntimeInv, EntryFirst, [Next]_vars, lock[Entry] = Stale
               PROVE  lock'[Entry] = Stale /\ ran' = ran
    OBVIOUS
  <2>1. lock'[Entry] = Stale
    <3> SUFFICES ASSUME lock'[Entry] # lock[Entry] PROVE FALSE
      OBVIOUS
    <3>1. lock[Entry] # Free /\ lock[Entry] \notin Procs /\ Entry \in Scripts
      BY MarksAssumption, ScriptsAssumption, ChildAssumption
    <3>2. ~GivenUp(Entry)
      BY <3>1 DEF GivenUp
    <3>3. CASE UNCHANGED runtimeVars \/ \E t \in Scripts : Edit(t)
      BY <3>3 DEF runtimeVars, files, Edit
    <3>4. CASE Cleanup
      BY <3>1, <3>4 DEF Cleanup
    <3>5. CASE Starts \/ \E p \in Procs : Die(p) \/ ProcessStep(p)
      BY <3>1, <3>2, <3>5, DeathGivesUp, ProcessGivesUp DEF Starts, StartProcess, files
    <3>6. QED
      BY <3>3, <3>4, <3>5, WatchSteps
  <2>2. ran' = ran
    <3>1. CASE ChildStep
      <4> SUFFICES ASSUME At(Child, "emit"), Len(stack[Child]) = 1
                   PROVE  FALSE
        BY <3>1 DEF ChildStep
      <4>1. /\ stack[Child] # <<>> /\ 1 \in DOMAIN stack[Child]
            /\ stack[Child][1].pc = "emit" /\ stack[Child][1].script = Entry
        BY ChildAssumption, TopFrame DEF At, EntryFirst, RuntimeInv
      <4>2. lock[Entry] = Child
        BY <4>1, ChildAssumption, CallFacts
      <4>3. QED
        BY <4>2, ChildAssumption, MarksAssumption
    <3>2. CASE WatcherStep
      BY <3>2 DEF WatcherStep, WatchTick, Snapshot, Cleanup, RecompileFails, Spawn, LeaveLoop,
         StopReap, StopTerm, StopKill
    <3>3. CASE WatchFsEvent \/ RequestStop \/ UNCHANGED vars \/ Terminated \/ FileChange
               \/ OtherProcess \/ ProcessDies
      BY <3>3 DEF WatchFsEvent, RequestStop, vars, Terminated, FileChange, OtherProcess, ProcessDies
    <3>4. QED
      BY <3>1, <3>2, <3>3 DEF Next
  <2>3. QED
    BY <2>1, <2>2
<1>4. QED
  BY <1>1, <1>2, <1>3, PTL DEF SafeSpec, NeverRunAgain
=============================================================================
