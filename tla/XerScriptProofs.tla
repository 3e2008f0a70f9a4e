---------------------------- MODULE XerScriptProofs ----------------------------
(***************************************************************************)
(* Proofs about XER scripts.  XerArtifacts: any number of processes that   *)
(* compile, run and inspect one script, any texts and keys.  XerParser:    *)
(* any programs, of any length and depth, and any edit of their text.      *)
(*                                                                         *)
(* The parser is proved correct with two invariants.  Sound: the text that *)
(* is read so far is what the tree that is built so far is written as, so  *)
(* that a tree that is accepted is written as the text.  Complete: as long *)
(* as the text is that of a program, the tree is the start of the program, *)
(* or a receiver was taken for the name of an argument and the tree has    *)
(* left the program for good.                                              *)
(***************************************************************************)
EXTENDS XerArtifacts, XerParser, InductionLemmas


AnyPart == [kind : {"header", "manifest", "crypto", "payload", "hole"},
            of : Writers \cup {NoProc}]
AnyText == Texts \cup {NoText, EmptyText}
Stages == {"new", "compile", "create", "write", "manifest", "source", "open", "read", "done",
           "failed"}
Commands == {"none", "run", "compile", "runbin", "inspect"}
AnyProc == [pc : Stages, cmd : Commands, key : Keys \cup {NoKey}, text : AnyText, size : Nat,
            ran : AnyText \cup {Garbled}, of : Writers \cup {NoProc},
            shown : Writers \cup {NoProc}]

-----------------------------------------------------------------------------
(* The container                                                           *)

LEMMA JoinTwo ==
  ASSUME NEW S, NEW a \in S, NEW b \in S, NEW c \in S
  PROVE  <<a, b>> \o <<c>> = <<a, b, c>>
<1> DEFINE s == <<a, b>> \o <<c>>
           t == <<a, b, c>>
<1>1. <<a, b>> \in Seq(S) /\ <<c>> \in Seq(S) /\ Len(<<a, b>>) = 2 /\ Len(<<c>>) = 1
  OBVIOUS
<1>2. /\ s \in Seq(S) /\ Len(s) = 3 /\ s[1] = a /\ s[2] = b /\ s[3] = c
  BY <1>1
<1>3. t \in Seq(S) /\ Len(t) = 3 /\ t[1] = a /\ t[2] = b /\ t[3] = c
  OBVIOUS
<1> HIDE DEF s, t
<1>4. \A i \in 1 .. 3 : i = 1 \/ i = 2 \/ i = 3
  OBVIOUS
<1>5. \A i \in 1 .. Len(s) : s[i] = t[i]
  BY <1>2, <1>3, <1>4
<1>6. s = t
  BY <1>2, <1>3, <1>5, SeqEqual
<1>7. QED
  BY <1>6 DEF s, t

LEMMA JoinThree ==
  ASSUME NEW S, NEW a \in S, NEW b \in S, NEW c \in S, NEW d \in S
  PROVE  <<a, b, c>> \o <<d>> = <<a, b, c, d>>
<1> DEFINE s == <<a, b, c>> \o <<d>>
           t == <<a, b, c, d>>
<1>1. <<a, b, c>> \in Seq(S) /\ <<d>> \in Seq(S) /\ Len(<<a, b, c>>) = 3 /\ Len(<<d>>) = 1
  OBVIOUS
<1>2. /\ s \in Seq(S) /\ Len(s) = 4 /\ s[1] = a /\ s[2] = b /\ s[3] = c /\ s[4] = d
  BY <1>1
<1>3. t \in Seq(S) /\ Len(t) = 4 /\ t[1] = a /\ t[2] = b /\ t[3] = c /\ t[4] = d
  OBVIOUS
<1> HIDE DEF s, t
<1>4. \A i \in 1 .. 4 : i = 1 \/ i = 2 \/ i = 3 \/ i = 4
  OBVIOUS
<1>5. \A i \in 1 .. Len(s) : s[i] = t[i]
  BY <1>2, <1>3, <1>4
<1>6. s = t
  BY <1>2, <1>3, <1>5, SeqEqual
<1>7. QED
  BY <1>6 DEF s, t

\* A container has three parts or, with a key, four, each at its place.
LEMMA ContainerFacts ==
  ASSUME NEW b
  PROVE  /\ Encrypted(b) => Container(b) = <<Part("header", b), Part("manifest", b),
                                             Part("crypto", b), Part("payload", b)>>
         /\ ~Encrypted(b) => Container(b) = <<Part("header", b), Part("manifest", b),
                                              Part("payload", b)>>
<1> DEFINE h == Part("header", b)
           m == Part("manifest", b)
           c == Part("crypto", b)
           d == Part("payload", b)
<1>1. Container(b) = <<h, m>> \o (IF Encrypted(b) THEN <<c>> ELSE <<>>) \o <<d>>
  BY DEF Container
<1> HIDE DEF h, m, c, d
<1> DEFINE S == {h, m, c, d}
<1>2. h \in S /\ m \in S /\ c \in S /\ d \in S
  OBVIOUS
<1> HIDE DEF S
<1>3. CASE Encrypted(b)
  <2>1. <<h, m>> \o <<c>> = <<h, m, c>> /\ <<h, m, c>> \o <<d>> = <<h, m, c, d>>
    BY <1>2, JoinTwo, JoinThree
  <2>2. QED
    BY <1>1, <1>3, <2>1 DEF h, m, c, d
<1>4. CASE ~Encrypted(b)
  <2>1. <<h, m>> \o <<d>> = <<h, m, d>>
    BY <1>2, JoinTwo
  <2>2. <<h, m>> \o <<>> = <<h, m>>
    OBVIOUS
  <2>3. QED
    BY <1>1, <1>4, <2>1, <2>2 DEF h, m, c, d
<1>5. QED
  BY <1>3, <1>4

LEMMA ContainerPlaces ==
  ASSUME NEW b
  PROVE  /\ Len(Container(b)) = IF Encrypted(b) THEN 4 ELSE 3
         /\ DOMAIN Container(b) = 1 .. Len(Container(b))
         /\ Container(b)[1] = Part("header", b) /\ Container(b)[2] = Part("manifest", b)
         /\ Encrypted(b) => Container(b)[3] = Part("crypto", b)
         /\ Container(b)[Len(Container(b))] = Part("payload", b)
         /\ \A i \in DOMAIN Container(b) : Container(b)[i].of = b
         /\ \A i \in DOMAIN Container(b) :
              Container(b)[i] \in {Part("header", b), Part("manifest", b),
                                   Part("crypto", b), Part("payload", b)}
<1> DEFINE C == Container(b)
<1>1. CASE Encrypted(b)
  <2>1. C = <<Part("header", b), Part("manifest", b), Part("crypto", b), Part("payload", b)>>
    BY <1>1, ContainerFacts
  <2> HIDE DEF C
  <2>2. /\ Len(C) = 4 /\ DOMAIN C = 1 .. 4 /\ C[1] = Part("header", b)
        /\ C[2] = Part("manifest", b) /\ C[3] = Part("crypto", b) /\ C[4] = Part("payload", b)
    BY <2>1
  <2>3. \A i \in 1 .. 4 : i = 1 \/ i = 2 \/ i = 3 \/ i = 4
    OBVIOUS
  <2>4. QED
    BY <1>1, <2>2, <2>3 DEF Part, C
<1>2. CASE ~Encrypted(b)
  <2>1. C = <<Part("header", b), Part("manifest", b), Part("payload", b)>>
    BY <1>2, ContainerFacts
  <2> HIDE DEF C
  <2>2. /\ Len(C) = 3 /\ DOMAIN C = 1 .. 3 /\ C[1] = Part("header", b)
        /\ C[2] = Part("manifest", b) /\ C[3] = Part("payload", b)
    BY <2>1
  <2>3. \A i \in 1 .. 3 : i = 1 \/ i = 2 \/ i = 3
    OBVIOUS
  <2>4. QED
    BY <1>2, <2>2, <2>3 DEF Part, C
<1>3. QED
  BY <1>1, <1>2

LEMMA Offsets ==
  ASSUME NEW b
  PROVE  /\ Offset(b, "payload") = Len(Container(b)) /\ Offset(b, "manifest") = 2
         /\ Encrypted(b) => Offset(b, "crypto") = 3
<1> DEFINE C == Container(b)
           n == Len(C)
<1>1. /\ n = (IF Encrypted(b) THEN 4 ELSE 3) /\ DOMAIN C = 1 .. n
      /\ C[1].kind = "header" /\ C[2].kind = "manifest" /\ C[n].kind = "payload"
      /\ Encrypted(b) => C[3].kind = "crypto"
  <2>1. \A k : Part(k, b).kind = k
    BY DEF Part
  <2>2. /\ n = (IF Encrypted(b) THEN 4 ELSE 3) /\ DOMAIN C = 1 .. n
        /\ C[1] = Part("header", b) /\ C[2] = Part("manifest", b) /\ C[n] = Part("payload", b)
        /\ Encrypted(b) => C[3] = Part("crypto", b)
    BY ContainerPlaces
  <2> HIDE DEF C, n
  <2>3. QED
    BY <2>1, <2>2
<1> HIDE DEF C, n
<1>2. /\ \A i \in DOMAIN C : C[i].kind = "payload" <=> i = n
      /\ \A i \in DOMAIN C : C[i].kind = "manifest" <=> i = 2
      /\ Encrypted(b) => \A i \in DOMAIN C : C[i].kind = "crypto" <=> i = 3
  <2>1. CASE Encrypted(b)
    <3>1. \A i \in 1 .. 4 : i = 1 \/ i = 2 \/ i = 3 \/ i = 4
      OBVIOUS
    <3>2. QED
      BY <1>1, <2>1, <3>1
  <2>2. CASE ~Encrypted(b)
    <3>1. \A i \in 1 .. 3 : i = 1 \/ i = 2 \/ i = 3
      OBVIOUS
    <3>2. QED
      BY <1>1, <2>2, <3>1
  <2>3. QED
    BY <2>1, <2>2
<1>3. n \in DOMAIN C /\ 2 \in DOMAIN C /\ (Encrypted(b) => 3 \in DOMAIN C)
  BY <1>1
<1>4. \A kind : Offset(b, kind) = CHOOSE i \in DOMAIN C : C[i].kind = kind
  BY DEF Offset, C
<1>5. Offset(b, "payload") = n
  BY <1>2, <1>3, <1>4
<1>6. Offset(b, "manifest") = 2
  BY <1>2, <1>3, <1>4
<1>7. Encrypted(b) => Offset(b, "crypto") = 3
  BY <1>2, <1>3, <1>4
<1>8. QED
  BY <1>5, <1>6, <1>7 DEF n, C

-----------------------------------------------------------------------------
(* The invariant                                                           *)

\* The process has compiled the script: its text and its key stay.
Made(b) == b \in Writers /\ proc[b].text # NoText

\* Every part of the .bin is where its build put it.
PartPlaced(i) ==
  \/ bin[i] = Part("hole", NoProc)
  \/ /\ Made(bin[i].of) /\ i \in DOMAIN Container(bin[i].of)
     /\ bin[i] = Container(bin[i].of)[i]
IsFile == bin \in Seq(AnyPart) /\ \A i \in DOMAIN bin : PartPlaced(i)

\* What a record of process p says by its pc.
StageFits(r, p) ==
  /\ r.pc \in {"new", "compile", "open", "read"} => r.text = NoText /\ r.of = NoProc
  /\ r.pc \in {"create", "write", "manifest", "source"} => r.text # NoText /\ r.of = NoProc
  /\ r.text # NoText => p \in Writers
  /\ r.pc = "compile" => p \in Writers

\* What a record says of the container that was read.
SoundProc(r) ==
  r.of # NoProc => /\ Made(r.of)
                   /\ IF r.shown # NoProc THEN r.shown = r.of
                      ELSE /\ r.ran = proc[r.of].text
                           /\ Encrypted(r.of) => r.key = proc[r.of].key

\* A process that had the .bin to itself has written what it has counted.
SoloFits ==
  solo # NoProc =>
    /\ Made(solo) /\ \A q \in Procs : proc[q].pc = "write" => q = solo
    /\ proc[solo].pc \in {"write", "manifest", "source", "done", "failed"}
    /\ proc[solo].pc = "write" => bin = SubSeq(Container(solo), 1, proc[solo].size)
                                  /\ proc[solo].size <= Len(Container(solo))
    /\ proc[solo].pc \in {"manifest", "source", "done"} => bin = Container(solo)

XerInv ==
  /\ source \in AnyText /\ proc \in [Procs -> AnyProc] /\ solo \in Procs \cup {NoProc}
  /\ bin # NoFile => IsFile
  /\ \A p \in Procs : StageFits(proc[p], p) /\ SoundProc(proc[p])
  /\ \A p \in Procs : proc[p].pc \in {"write", "read"} => IsFile
  /\ SoloFits

LEMMA NewProcFacts ==
  NewProc \in AnyProc /\ NewProc.pc = "new" /\ NewProc.text = NoText /\ NewProc.of = NoProc
  /\ NewProc.shown = NoProc
<1>1. "new" \in Stages /\ "none" \in Commands /\ 0 \in Nat
  BY DEF Stages, Commands
<1>2. NoKey \in Keys \cup {NoKey} /\ NoText \in AnyText /\ NoText \in AnyText \cup {Garbled}
      /\ NoProc \in Writers \cup {NoProc}
  BY DEF AnyText
<1>3. NewProc \in AnyProc
  BY <1>1, <1>2, Zenon DEF NewProc, AnyProc
<1>4. QED
  BY <1>3 DEF NewProc

LEMMA XerInvInit == XerInit => XerInv
<1> SUFFICES ASSUME XerInit PROVE XerInv
  OBVIOUS
<1>1. NewProc \in AnyProc
  BY NewProcFacts
<1>2. \A p \in Procs : proc[p] = NewProc
  BY DEF XerInit
<1>3. /\ NewProc.pc = "new" /\ NewProc.text = NoText /\ NewProc.of = NoProc
  BY DEF NewProc
<1>4. \A p \in Procs : StageFits(proc[p], p) /\ SoundProc(proc[p])
  BY <1>2, <1>3 DEF StageFits, SoundProc
<1>5. proc \in [Procs -> AnyProc]
  BY <1>1 DEF XerInit
<1>6. QED
  BY <1>2, <1>3, <1>4, <1>5 DEF XerInv, XerInit, SoloFits, AnyText

\* A step that leaves the text and the key of every compiled script leaves
\* every container.
LEMMA ContainersKept ==
  ASSUME XerInv, NEW p \in Procs, NEW r \in AnyProc, proc' = [proc EXCEPT ![p] = r],
         Made(p) => r.text = proc[p].text /\ r.key = proc[p].key
  PROVE  /\ \A q \in Procs : proc'[q] = IF q = p THEN r ELSE proc[q]
         /\ \A b : Made(b) => /\ Made(b)' /\ proc'[b].text = proc[b].text
                              /\ proc'[b].key = proc[b].key
                              /\ Encrypted(b)' = Encrypted(b)
                              /\ Container(b)' = Container(b)
         /\ proc' \in [Procs -> AnyProc]
<1>1. \A q \in Procs : proc'[q] = IF q = p THEN r ELSE proc[q]
  BY DEF XerInv
<1>2. \A b : Made(b) => b \in Procs
  BY DEF Made, Procs
<1>3. \A b : Made(b) => proc'[b].text = proc[b].text /\ proc'[b].key = proc[b].key
  BY <1>1, <1>2
<1>4. \A b : Made(b) => Made(b)'
  BY <1>3 DEF Made
<1>5. ASSUME NEW b, Made(b) PROVE Encrypted(b)' = Encrypted(b) /\ Container(b)' = Container(b)
  <2>1. proc'[b].key = proc[b].key
    BY <1>3, <1>5
  <2>2. QED
    BY <2>1 DEF Encrypted, Container
<1>6. proc' \in [Procs -> AnyProc]
  BY DEF XerInv
<1>7. QED
  BY <1>1, <1>3, <1>4, <1>5, <1>6

\* What a step says of another process, or said of this one before, still holds.
LEMMA SoundKept ==
  ASSUME XerInv, NEW p \in Procs, NEW r \in AnyProc, proc' = [proc EXCEPT ![p] = r],
         Made(p) => r.text = proc[p].text /\ r.key = proc[p].key,
         StageFits(r, p), SoundProc(r)
  PROVE  \A q \in Procs : StageFits(proc'[q], q) /\ SoundProc(proc[q])'
<1>1. ASSUME NEW s, SoundProc(s) PROVE s.of # NoProc => /\ Made(s.of)'
                   /\ IF s.shown # NoProc THEN s.shown = s.of
                      ELSE /\ s.ran = proc'[s.of].text
                           /\ Encrypted(s.of)' => s.key = proc'[s.of].key
  BY <1>1, ContainersKept DEF SoundProc
<1>2. SUFFICES ASSUME NEW q \in Procs PROVE StageFits(proc'[q], q) /\ SoundProc(proc[q])'
  OBVIOUS
<1>3. proc'[q] = (IF q = p THEN r ELSE proc[q]) /\ StageFits(proc[q], q) /\ SoundProc(proc[q])
  BY ContainersKept DEF XerInv
<1>4. CASE q = p
  <2>1. proc'[q] = r
    BY <1>3, <1>4
  <2>2. QED
    BY <1>1, <1>4, <2>1 DEF SoundProc
<1>5. CASE q # p
  <2>1. proc'[q] = proc[q]
    BY <1>3, <1>5
  <2>2. QED
    BY <1>1, <1>3, <2>1 DEF SoundProc
<1>6. QED
  BY <1>4, <1>5

\* The parts of a file that a step does not write stay where they belong.
LEMMA FileKept ==
  ASSUME XerInv, IsFile, bin' = bin,
         \A b : Made(b) => Made(b)' /\ Container(b)' = Container(b)
  PROVE  IsFile'
<1>1. \A i \in DOMAIN bin : PartPlaced(i)'
  BY DEF IsFile, PartPlaced
<1>2. QED
  BY <1>1 DEF IsFile

\* A step of process p that does not touch the .bin.
LEMMA XerInvLocal ==
  ASSUME XerInv, NEW p \in Procs, NEW r \in AnyProc, proc' = [proc EXCEPT ![p] = r],
         Made(p) => r.text = proc[p].text /\ r.key = proc[p].key,
         StageFits(r, p), SoundProc(r),
         r.pc # "write", r.pc = "read" => IsFile,
         solo = p => r.pc \in {"manifest", "source", "done", "failed"},
         solo = p /\ r.pc \in {"manifest", "source", "done"} => bin = Container(p),
         UNCHANGED <<source, bin, solo>>
  PROVE  XerInv'
<1>1. /\ \A q \in Procs : proc'[q] = IF q = p THEN r ELSE proc[q]
      /\ \A b : Made(b) => Made(b)' /\ Container(b)' = Container(b)
      /\ proc' \in [Procs -> AnyProc]
  BY ContainersKept
<1>2. IsFile => IsFile'
  BY <1>1, FileKept
<1>3. \A q \in Procs : StageFits(proc[q], q)' /\ SoundProc(proc[q])'
  <2>1. \A q \in Procs : StageFits(proc'[q], q) /\ SoundProc(proc[q])'
    BY SoundKept
  <2>2. QED
    BY <2>1 DEF StageFits
<1>4. \A q \in Procs : proc'[q].pc \in {"write", "read"} => IsFile'
  BY <1>1, <1>2 DEF XerInv
<1>5. SoloFits'
  <2> SUFFICES ASSUME solo # NoProc
               PROVE  /\ Made(solo)' /\ \A q \in Procs : proc'[q].pc = "write" => q = solo
                      /\ proc'[solo].pc \in {"write", "manifest", "source", "done", "failed"}
                      /\ proc'[solo].pc = "write" =>
                           /\ bin = SubSeq(Container(solo)', 1, proc'[solo].size)
                           /\ proc'[solo].size <= Len(Container(solo)')
                      /\ proc'[solo].pc \in {"manifest", "source", "done"} =>
                           bin = Container(solo)'
    BY DEF SoloFits
  <2>1. Made(solo) /\ Made(solo)' /\ Container(solo)' = Container(solo) /\ solo \in Procs
    BY <1>1 DEF XerInv, SoloFits
  <2>2. CASE solo = p
    BY <1>1, <2>1, <2>2 DEF XerInv, SoloFits
  <2>3. CASE solo # p
    BY <1>1, <2>1, <2>3 DEF XerInv, SoloFits
  <2>4. QED
    BY <2>2, <2>3
<1>6. QED
  BY <1>1, <1>2, <1>3, <1>4, <1>5 DEF XerInv

-----------------------------------------------------------------------------
(* Steps that do not write the .bin                                        *)

LEMMA ProcFacts ==
  ASSUME XerInv, NEW p \in Procs
  PROVE  /\ proc[p] \in AnyProc
         /\ proc[p].pc \in Stages /\ proc[p].cmd \in Commands
         /\ proc[p].key \in Keys \cup {NoKey} /\ proc[p].text \in AnyText
         /\ proc[p].size \in Nat /\ proc[p].ran \in AnyText \cup {Garbled}
         /\ proc[p].of \in Writers \cup {NoProc} /\ proc[p].shown \in Writers \cup {NoProc}
         /\ StageFits(proc[p], p) /\ SoundProc(proc[p])
         /\ proc[p].pc \in {"new", "compile", "open", "read"} => ~Made(p)
         /\ solo = p => proc[p].pc \in {"write", "manifest", "source", "done", "failed"}
<1>1. proc[p] \in AnyProc /\ StageFits(proc[p], p) /\ SoundProc(proc[p])
  BY DEF XerInv
<1>2. solo = p => proc[p].pc \in {"write", "manifest", "source", "done", "failed"}
  BY XerAssumption DEF XerInv, SoloFits, Procs
<1>3. QED
  BY <1>1, <1>2 DEF AnyProc, StageFits, Made

LEMMA EndsFacts ==
  ASSUME XerInv, NEW p \in Procs, NEW e \in {"done", "failed"}
  PROVE  LET r == Ends(p, e) IN
         /\ r \in AnyProc /\ r.pc = e /\ r.text = proc[p].text /\ r.of = NoProc
         /\ r.shown = NoProc /\ (Made(p) => r.key = proc[p].key)
         /\ StageFits(r, p) /\ SoundProc(r)
<1> DEFINE k == IF proc[p].text = NoText THEN NoKey ELSE proc[p].key
           x == proc[p].text
           r == [NewProc EXCEPT !.pc = e, !.text = x, !.key = k]
<1>1. Ends(p, e) = r
  BY DEF Ends
<1>2. e \in Stages /\ k \in Keys \cup {NoKey} /\ x \in AnyText
  BY ProcFacts DEF Stages
<1>3. (Made(p) => k = proc[p].key) /\ (x # NoText => p \in Writers)
  BY ProcFacts DEF Made, StageFits
<1>4. r \in AnyProc /\ r.pc = e /\ r.text = x /\ r.of = NoProc /\ r.shown = NoProc /\ r.key = k
  <2> HIDE DEF k, x
  <2>1. QED
    BY <1>2, NewProcFacts DEF AnyProc
<1> HIDE DEF r
<1>5. StageFits(r, p) /\ SoundProc(r)
  <2> HIDE DEF x
  <2>1. QED
    BY <1>3, <1>4 DEF StageFits, SoundProc
<1>6. r.text = proc[p].text /\ (Made(p) => r.key = proc[p].key)
  BY <1>3, <1>4
<1>7. QED
  BY <1>1, <1>4, <1>5, <1>6

LEMMA XerInvFails ==
  ASSUME XerInv, NEW p \in Procs, proc' = [proc EXCEPT ![p] = Fails(p)],
         UNCHANGED <<source, bin, solo>>
  PROVE  XerInv'
<1> DEFINE r == Fails(p)
<1>1. /\ r \in AnyProc /\ r.pc = "failed" /\ r.text = proc[p].text
      /\ (Made(p) => r.key = proc[p].key) /\ StageFits(r, p) /\ SoundProc(r)
  BY EndsFacts DEF Fails
<1>2. proc' = [proc EXCEPT ![p] = r]
  OBVIOUS
<1> HIDE DEF r
<1>3. QED
  BY <1>1, <1>2, XerInvLocal

LEMMA XerInvStart ==
  ASSUME XerInv, NEW p \in Procs, NEW c \in {"run", "compile", "runbin", "inspect"},
         NEW k \in Keys \cup {NoKey, BadKey}, StartCommand(p, c, k)
  PROVE  XerInv'
<1> DEFINE pc0 == IF p \in Writers THEN "compile" ELSE "open"
           key == IF c = "inspect" THEN NoKey ELSE k
           r == [proc[p] EXCEPT !.pc = pc0, !.cmd = c, !.key = key]
<1>1. proc[p].pc = "new" /\ UNCHANGED <<source, bin, solo>>
  BY DEF StartCommand, Goes
<1>2. CASE proc' = [proc EXCEPT ![p] = Fails(p)]
  BY <1>1, <1>2, XerInvFails
<1>3. CASE ~(c # "inspect" /\ k = BadKey) /\ proc' = [proc EXCEPT ![p] = r]
  <2>1. key \in Keys \cup {NoKey} /\ pc0 \in {"compile", "open"} /\ pc0 \in Stages
        /\ c \in Commands /\ (pc0 = "compile" => p \in Writers)
    BY <1>3 DEF Stages, Commands
  <2> HIDE DEF key, pc0
  <2>2. proc[p] \in AnyProc /\ proc[p].text = NoText /\ proc[p].of = NoProc /\ ~Made(p)
        /\ solo # p
    BY <1>1, ProcFacts DEF StageFits
  <2>3. r \in AnyProc /\ r.pc = pc0 /\ r.text = NoText /\ r.of = NoProc
    BY <2>1, <2>2 DEF AnyProc
  <2>4. proc' = [proc EXCEPT ![p] = r]
    BY <1>3
  <2> HIDE DEF r
  <2>5. StageFits(r, p) /\ SoundProc(r)
    BY <2>1, <2>3 DEF StageFits, SoundProc
  <2>6. r.pc # "write" /\ r.pc # "read"
    BY <2>1, <2>3
  <2>7. QED
    BY <1>1, <2>2, <2>3, <2>4, <2>5, <2>6, XerInvLocal
<1>4. QED
  BY <1>2, <1>3 DEF StartCommand, Goes

LEMMA XerInvCompile ==
  ASSUME XerInv, NEW p \in Procs, Compile(p) PROVE XerInv'
<1> DEFINE r == [proc[p] EXCEPT !.pc = "create", !.text = source]
<1>1. proc[p].pc = "compile" /\ UNCHANGED <<source, bin, solo>>
  BY DEF Compile, Goes
<1>2. CASE proc' = [proc EXCEPT ![p] = Fails(p)]
  BY <1>1, <1>2, XerInvFails
<1>3. CASE source \notin {NoText, EmptyText} /\ proc' = [proc EXCEPT ![p] = r]
  <2>1. source \in AnyText /\ source # NoText
    BY <1>3 DEF XerInv
  <2>2. proc[p] \in AnyProc /\ proc[p].of = NoProc /\ ~Made(p) /\ p \in Writers /\ solo # p
    BY <1>1, ProcFacts DEF StageFits
  <2>3. r \in AnyProc /\ r.pc = "create" /\ r.text = source /\ r.of = NoProc
    BY <2>1, <2>2 DEF AnyProc, Stages
  <2>4. proc' = [proc EXCEPT ![p] = r]
    BY <1>3
  <2> HIDE DEF r
  <2>5. StageFits(r, p) /\ SoundProc(r)
    BY <2>1, <2>2, <2>3 DEF StageFits, SoundProc
  <2>6. QED
    BY <1>1, <2>2, <2>3, <2>4, <2>5, XerInvLocal
<1>4. QED
  BY <1>2, <1>3 DEF Compile, Goes

\* The whole of a container is the container.
LEMMA WholeContainer == ASSUME NEW b PROVE SubSeq(Container(b), 1, Len(Container(b))) = Container(b)
<1> DEFINE C == Container(b)
           S == {Part("header", b), Part("manifest", b), Part("crypto", b), Part("payload", b)}
<1>1. C \in Seq(S) /\ Len(C) \in Nat
  <2>1. CASE Encrypted(b)
    <3>1. C = <<Part("header", b), Part("manifest", b), Part("crypto", b), Part("payload", b)>>
      BY <2>1, ContainerFacts
    <3> HIDE DEF C
    <3>2. QED
      BY <3>1
  <2>2. CASE ~Encrypted(b)
    <3>1. C = <<Part("header", b), Part("manifest", b), Part("payload", b)>>
      BY <2>2, ContainerFacts
    <3> HIDE DEF C
    <3>2. QED
      BY <3>1
  <2>3. QED
    BY <2>1, <2>2
<1> HIDE DEF C, S
<1>2. SubSeq(C, 1, Len(C)) = C
  BY <1>1, SubSeqFull
<1>3. QED
  BY <1>2 DEF C

LEMMA XerInvClose ==
  ASSUME XerInv, NEW p \in Procs, CloseBin(p) PROVE XerInv'
<1> DEFINE r == [proc[p] EXCEPT !.pc = "manifest", !.size = 0]
<1>1. /\ proc[p].pc = "write" /\ proc[p].size = Len(Container(p)) /\ UNCHANGED <<source, bin, solo>>
      /\ proc' = [proc EXCEPT ![p] = r]
  BY DEF CloseBin, Goes
<1>2. proc[p] \in AnyProc /\ proc[p].of = NoProc /\ p \in Writers /\ proc[p].text # NoText
  BY <1>1, ProcFacts DEF StageFits
<1>3. r \in AnyProc /\ r.pc = "manifest" /\ r.text = proc[p].text /\ r.key = proc[p].key
      /\ r.of = NoProc
  BY <1>2 DEF AnyProc, Stages
<1> HIDE DEF r
<1>4. StageFits(r, p) /\ SoundProc(r)
  BY <1>2, <1>3 DEF StageFits, SoundProc
<1>5. solo = p => bin = Container(p)
  <2>1. solo = p => bin = SubSeq(Container(p), 1, proc[p].size)
    BY <1>1, XerAssumption DEF XerInv, SoloFits, Procs
  <2>2. QED
    BY <1>1, <2>1, WholeContainer
<1>6. QED
  BY <1>1, <1>2, <1>3, <1>4, <1>5, XerInvLocal

LEMMA SoloWhole ==
  ASSUME XerInv, NEW p \in Procs, solo = p, proc[p].pc \in {"manifest", "source", "done"}
  PROVE  bin = Container(p)
  BY XerAssumption DEF XerInv, SoloFits, Procs

LEMMA XerInvBak ==
  ASSUME XerInv, NEW p \in Procs, WriteBak(p) PROVE XerInv'
<1> DEFINE s == [proc[p] EXCEPT !.pc = "source"]
           r == IF proc[p].cmd = "compile" THEN Ends(p, "done") ELSE s
<1>1. proc[p].pc = "manifest" /\ UNCHANGED <<source, bin, solo>> /\ proc' = [proc EXCEPT ![p] = r]
  BY DEF WriteBak, Goes
<1>2. proc[p] \in AnyProc /\ proc[p].of = NoProc /\ p \in Writers /\ proc[p].text # NoText
  BY <1>1, ProcFacts DEF StageFits
<1>3. s \in AnyProc /\ s.pc = "source" /\ s.text = proc[p].text /\ s.key = proc[p].key
      /\ s.of = NoProc
  BY <1>2 DEF AnyProc, Stages
<1>4. StageFits(s, p) /\ SoundProc(s)
  <2> HIDE DEF s
  <2>1. QED
    BY <1>2, <1>3 DEF StageFits, SoundProc
<1>5. /\ r \in AnyProc /\ r.pc \in {"source", "done"} /\ r.text = proc[p].text
      /\ (Made(p) => r.key = proc[p].key) /\ StageFits(r, p) /\ SoundProc(r)
  <2>1. CASE proc[p].cmd = "compile"
    BY <2>1, EndsFacts
  <2>2. CASE proc[p].cmd # "compile"
    <3> HIDE DEF s
    <3>1. QED
      BY <1>3, <1>4, <2>2
  <2>3. QED
    BY <2>1, <2>2
<1>6. solo = p => bin = Container(p)
  BY <1>1, SoloWhole
<1> HIDE DEF r, s
<1>7. QED
  BY <1>1, <1>5, <1>6, XerInvLocal

LEMMA XerInvRunSource ==
  ASSUME XerInv, NEW p \in Procs, RunSource(p) PROVE XerInv'
<1> DEFINE e == Ends(p, "done")
           r == [e EXCEPT !.ran = source]
<1>1. proc[p].pc = "source" /\ UNCHANGED <<source, bin, solo>>
  BY DEF RunSource, Goes
<1>2. CASE proc' = [proc EXCEPT ![p] = Fails(p)]
  BY <1>1, <1>2, XerInvFails
<1>3. CASE proc' = [proc EXCEPT ![p] = r]
  <2>1. /\ e \in AnyProc /\ e.pc = "done" /\ e.text = proc[p].text /\ e.of = NoProc
        /\ (Made(p) => e.key = proc[p].key) /\ StageFits(e, p)
    BY EndsFacts
  <2>2. source \in AnyText \cup {Garbled}
    BY DEF XerInv
  <2> HIDE DEF e
  <2>3. r \in AnyProc /\ r.pc = "done" /\ r.text = e.text /\ r.of = NoProc /\ r.key = e.key
    BY <2>1, <2>2 DEF AnyProc
  <2>4. proc' = [proc EXCEPT ![p] = r]
    BY <1>3
  <2> HIDE DEF r
  <2>5. StageFits(r, p) /\ SoundProc(r)
    BY <2>1, <2>3 DEF StageFits, SoundProc
  <2>6. solo = p => bin = Container(p)
    BY <1>1, SoloWhole
  <2>7. QED
    BY <1>1, <2>1, <2>3, <2>4, <2>5, <2>6, XerInvLocal
<1>4. QED
  BY <1>2, <1>3 DEF RunSource, Goes

LEMMA XerInvMeasure ==
  ASSUME XerInv, NEW p \in Procs, MeasureBin(p) PROVE XerInv'
<1> DEFINE r == [proc[p] EXCEPT !.pc = "read", !.size = Len(bin)]
<1>1. proc[p].pc = "open" /\ UNCHANGED <<source, bin, solo>>
  BY DEF MeasureBin, Goes
<1>2. CASE proc' = [proc EXCEPT ![p] = Fails(p)]
  BY <1>1, <1>2, XerInvFails
<1>3. CASE bin # NoFile /\ proc' = [proc EXCEPT ![p] = r]
  <2>1. IsFile /\ Len(bin) \in Nat
    BY <1>3 DEF XerInv, IsFile
  <2>2. proc[p] \in AnyProc /\ proc[p].text = NoText /\ proc[p].of = NoProc /\ ~Made(p) /\ solo # p
    BY <1>1, ProcFacts DEF StageFits
  <2>3. r \in AnyProc /\ r.pc = "read" /\ r.text = NoText /\ r.of = NoProc
    BY <2>1, <2>2 DEF AnyProc, Stages
  <2>4. proc' = [proc EXCEPT ![p] = r]
    BY <1>3
  <2> HIDE DEF r
  <2>5. StageFits(r, p) /\ SoundProc(r)
    BY <2>2, <2>3 DEF StageFits, SoundProc
  <2>6. QED
    BY <1>1, <2>1, <2>2, <2>3, <2>4, <2>5, XerInvLocal
<1>4. QED
  BY <1>2, <1>3 DEF MeasureBin, Goes

-----------------------------------------------------------------------------
(* Reading the .bin                                                        *)

\* The bytes that were read are parts of the file at their places; a header
\* names a build, and a section with the checksum of the build is its own.
LEMMA ReadFacts ==
  ASSUME XerInv, NEW p \in Procs, proc[p].pc = "read", ~(Len(bin) < proc[p].size),
         HeaderValid(Read(p))
  PROVE  LET f == Read(p)
             b == f[1].of
         IN /\ Made(b) /\ b \in Writers /\ b # NoProc
            /\ \A o \in DOMAIN Container(b) :
                 o <= Len(f) /\ f[o].of = b => f[o] = Container(b)[o]
<1> DEFINE f == Read(p)
           n == proc[p].size
           b == f[1].of
<1>1. bin \in Seq(AnyPart) /\ (\A i \in DOMAIN bin : PartPlaced(i)) /\ n \in Nat
  BY ProcFacts DEF XerInv, IsFile
<1>2. Len(bin) \in Nat /\ n <= Len(bin) /\ DOMAIN bin = 1 .. Len(bin)
  BY <1>1
<1>3. Len(f) = n /\ \A i \in 1 .. n : f[i] = bin[i] /\ i \in DOMAIN bin
  BY <1>1, <1>2 DEF Read
<1>4. Len(f) >= 1 /\ f[1].kind = "header"
  BY DEF HeaderValid
<1> HIDE DEF f, n
<1>5. 1 \in 1 .. n
  BY <1>1, <1>3, <1>4
<1>6. bin[1].kind = "header" /\ b = bin[1].of /\ PartPlaced(1)
  BY <1>1, <1>3, <1>4, <1>5
<1>7. Made(b) /\ b \in Writers /\ b # NoProc
  <2>1. bin[1] # Part("hole", NoProc)
    BY <1>6 DEF Part
  <2>2. QED
    BY <1>6, <2>1, XerAssumption DEF PartPlaced, Made
<1>8. ASSUME NEW o \in DOMAIN Container(b), o <= Len(f), f[o].of = b
      PROVE  f[o] = Container(b)[o]
  <2>1. o \in 1 .. n
    BY <1>1, <1>3, <1>8, ContainerPlaces
  <2>2. f[o] = bin[o] /\ PartPlaced(o)
    BY <1>1, <1>3, <2>1
  <2>3. bin[o] # Part("hole", NoProc)
    BY <1>7, <1>8, <2>2 DEF Part
  <2>4. QED
    BY <1>8, <2>2, <2>3 DEF PartPlaced
<1>9. QED
  BY <1>7, <1>8 DEF f

\* Decode accepts only the work of one build, and with its key.
LEMMA DecodesSound ==
  ASSUME XerInv, NEW p \in Procs, proc[p].pc = "read", ~(Len(bin) < proc[p].size),
         Decodes(Read(p), proc[p].key)
  PROVE  LET b == Read(p)[1].of
         IN /\ Made(b) /\ Decoded(Read(p)) = proc[b].text
            /\ Encrypted(b) => proc[p].key = proc[b].key
<1> DEFINE f == Read(p)
           b == f[1].of
           o == Len(Container(b))
<1>1. /\ HeaderValid(f) /\ SectionValid(f, b, "payload")
      /\ Encrypted(b) => Decrypts(f, b, proc[p].key)
  BY DEF Decodes
<1>2. /\ Made(b) /\ \A k \in DOMAIN Container(b) : k <= Len(f) /\ f[k].of = b => f[k] = Container(b)[k]
  BY <1>1, ReadFacts
<1>3. Offset(b, "payload") = o
  BY Offsets
<1> HIDE DEF f
<1>4. o \in DOMAIN Container(b) /\ Container(b)[o] = Part("payload", b)
  BY ContainerPlaces
<1>5. o <= Len(f) /\ f[o].of = b
  BY <1>1, <1>3 DEF SectionValid, SameChecksum
<1>6. f[o] = Part("payload", b)
  BY <1>2, <1>4, <1>5
<1>7. Decoded(f) = proc[b].text
  BY <1>3, <1>6 DEF Decoded
<1>8. Encrypted(b) => proc[p].key = proc[b].key
  BY <1>1 DEF Decrypts
<1>9. QED
  BY <1>2, <1>7, <1>8 DEF f

LEMMA XerInvRunBin ==
  ASSUME XerInv, NEW p \in Procs, RunBin(p) PROVE XerInv'
<1> DEFINE e == Ends(p, "done")
           b == Read(p)[1].of
           x == Decoded(Read(p))
           r == [e EXCEPT !.ran = x, !.key = proc[p].key, !.of = b]
<1>1. proc[p].pc = "read" /\ UNCHANGED <<source, bin, solo>>
  BY DEF RunBin, Goes
<1>2. CASE proc' = [proc EXCEPT ![p] = Fails(p)]
  BY <1>1, <1>2, XerInvFails
<1>3. CASE /\ ~(Len(bin) < proc[p].size) /\ Decodes(Read(p), proc[p].key)
           /\ proc' = [proc EXCEPT ![p] = r]
  <2>1. Made(b) /\ x = proc[b].text /\ (Encrypted(b) => proc[p].key = proc[b].key)
    BY <1>1, <1>3, DecodesSound
  <2> HIDE DEF b, x
  <2>2. b \in Writers /\ b \in Procs
    BY <2>1 DEF Made, Procs
  <2>3. x \in AnyText \cup {Garbled} /\ proc[p].key \in Keys \cup {NoKey} /\ ~Made(p) /\ solo # p
        /\ proc[p].text = NoText
    BY <1>1, <2>1, <2>2, ProcFacts DEF StageFits
  <2>4. e \in AnyProc /\ e.pc = "done" /\ e.text = proc[p].text /\ e.shown = NoProc
    BY EndsFacts
  <2> HIDE DEF e
  <2>5. /\ r \in AnyProc /\ r.pc = "done" /\ r.text = NoText /\ r.of = b /\ r.ran = x
        /\ r.key = proc[p].key /\ r.shown = NoProc
    BY <2>2, <2>3, <2>4 DEF AnyProc
  <2>6. proc' = [proc EXCEPT ![p] = r]
    BY <1>3
  <2> HIDE DEF r
  <2>7. StageFits(r, p)
    BY <2>5 DEF StageFits
  <2>8. SoundProc(r)
    BY <2>1, <2>5 DEF SoundProc
  <2>9. QED
    BY <1>1, <2>3, <2>5, <2>6, <2>7, <2>8, XerInvLocal
<1>4. QED
  BY <1>2, <1>3 DEF RunBin, Goes

LEMMA XerInvInspect ==
  ASSUME XerInv, NEW p \in Procs, InspectFile(p) PROVE XerInv'
<1> DEFINE e == Ends(p, "done")
           b == Read(p)[1].of
           m == Read(p)[2].of
           r == [e EXCEPT !.of = b, !.shown = m]
<1>1. proc[p].pc = "read" /\ UNCHANGED <<source, bin, solo>>
  BY DEF InspectFile, Goes
<1>2. CASE proc' = [proc EXCEPT ![p] = Fails(p)]
  BY <1>1, <1>2, XerInvFails
<1>3. CASE ~(Len(bin) < proc[p].size) /\ Inspects(Read(p)) /\ proc' = [proc EXCEPT ![p] = r]
  <2>1. HeaderValid(Read(p)) /\ SectionValid(Read(p), b, "manifest")
    BY <1>3 DEF Inspects
  <2>2. Made(b) /\ b \in Writers /\ b # NoProc
    BY <1>1, <1>3, <2>1, ReadFacts
  <2>3. Offset(b, "manifest") = 2
    BY Offsets
  <2>4. m = b
    BY <2>1, <2>3 DEF SectionValid, SameChecksum
  <2> HIDE DEF b, m
  <2>5. e \in AnyProc /\ e.pc = "done" /\ e.text = proc[p].text
    BY EndsFacts
  <2>6. proc[p].text = NoText /\ ~Made(p) /\ solo # p
    BY <1>1, ProcFacts DEF StageFits
  <2> HIDE DEF e
  <2>7. r \in AnyProc /\ r.pc = "done" /\ r.text = NoText /\ r.of = b /\ r.shown = m
    BY <2>2, <2>4, <2>5, <2>6 DEF AnyProc
  <2>8. proc' = [proc EXCEPT ![p] = r]
    BY <1>3
  <2> HIDE DEF r
  <2>9. StageFits(r, p) /\ SoundProc(r)
    BY <2>2, <2>4, <2>7 DEF StageFits, SoundProc
  <2>10. QED
    BY <1>1, <2>6, <2>7, <2>8, <2>9, XerInvLocal
<1>4. QED
  BY <1>2, <1>3 DEF InspectFile, Goes

-----------------------------------------------------------------------------
(* Writing the .bin                                                        *)

LEMMA XerInvOpen ==
  ASSUME XerInv, NEW p \in Procs, OpenBin(p) PROVE XerInv'
<1> DEFINE r == [proc[p] EXCEPT !.pc = "write", !.size = 0]
<1>1. /\ proc[p].pc = "create" /\ proc' = [proc EXCEPT ![p] = r] /\ bin' = <<>> /\ source' = source
      /\ solo' = IF \E q \in Procs : proc[q].pc = "write" THEN NoProc ELSE p
  BY DEF OpenBin, Goes
<1>2. proc[p] \in AnyProc /\ proc[p].of = NoProc /\ p \in Writers /\ proc[p].text # NoText
  BY <1>1, ProcFacts DEF StageFits
<1>3. r \in AnyProc /\ r.pc = "write" /\ r.text = proc[p].text /\ r.key = proc[p].key
      /\ r.of = NoProc /\ r.size = 0
  BY <1>2 DEF AnyProc, Stages
<1> HIDE DEF r
<1>4. StageFits(r, p) /\ SoundProc(r)
  BY <1>2, <1>3 DEF StageFits, SoundProc
<1>5. /\ \A q \in Procs : proc'[q] = IF q = p THEN r ELSE proc[q]
      /\ \A b : Made(b) => Made(b)' /\ Container(b)' = Container(b)
      /\ proc' \in [Procs -> AnyProc]
  BY <1>1, <1>3, ContainersKept
<1>6. \A q \in Procs : StageFits(proc[q], q)' /\ SoundProc(proc[q])'
  <2>1. \A q \in Procs : StageFits(proc'[q], q) /\ SoundProc(proc[q])'
    BY <1>1, <1>3, <1>4, SoundKept
  <2>2. QED
    BY <2>1 DEF StageFits
<1>7. IsFile'
  <2>1. bin' \in Seq(AnyPart) /\ DOMAIN bin' = {}
    BY <1>1
  <2>2. QED
    BY <2>1 DEF IsFile
<1>8. SoloFits'
  <2>1. CASE \E q \in Procs : proc[q].pc = "write"
    BY <1>1, <2>1 DEF SoloFits
  <2>2. CASE \A q \in Procs : proc[q].pc # "write"
    <3>1. solo' = p /\ Made(p)' /\ proc'[p].pc = "write" /\ proc'[p].size = 0
      BY <1>1, <1>2, <1>3, <1>5, <2>2 DEF Made
    <3>2. \A q \in Procs : proc'[q].pc = "write" => q = p
      BY <1>5, <2>2
    <3>3. bin' = SubSeq(Container(p)', 1, 0) /\ 0 <= Len(Container(p)')
      <4>1. Container(p)' = Container(p)
        BY <1>2, <1>5 DEF Made
      <4>2. Len(Container(p)) \in Nat
        BY ContainerPlaces
      <4>3. SubSeq(Container(p), 1, 0) = <<>>
        OBVIOUS
      <4>4. QED
        BY <1>1, <4>1, <4>2, <4>3
    <3>4. QED
      BY <3>1, <3>2, <3>3 DEF SoloFits
  <2>3. QED
    BY <2>1, <2>2
<1>9. QED
  BY <1>1, <1>5, <1>6, <1>7, <1>8 DEF XerInv

LEMMA XerInvWrite ==
  ASSUME XerInv, NEW p \in Procs, WritePart(p) PROVE XerInv'
<1> DEFINE n == proc[p].size + 1
           C == Container(p)
           l == Len(bin)
           m == IF n > l THEN n ELSE l
           r == [proc[p] EXCEPT !.size = n]
<1>1. /\ proc[p].pc = "write" /\ n <= Len(C) /\ proc' = [proc EXCEPT ![p] = r]
      /\ bin' = [i \in 1 .. m |-> IF i = n THEN C[n]
                                  ELSE IF i <= l THEN bin[i] ELSE Part("hole", NoProc)]
      /\ source' = source /\ solo' = solo
  BY DEF WritePart, Goes
<1>2. /\ proc[p] \in AnyProc /\ proc[p].of = NoProc /\ p \in Writers /\ proc[p].text # NoText
      /\ proc[p].size \in Nat /\ IsFile
  BY <1>1, ProcFacts DEF StageFits, XerInv
<1>3. n \in Nat /\ n >= 1 /\ l \in Nat /\ m \in Nat /\ Len(C) \in Nat /\ DOMAIN C = 1 .. Len(C)
      /\ n \in DOMAIN C
  <2>1. l \in Nat
    BY <1>2 DEF IsFile
  <2>2. Len(C) \in Nat /\ DOMAIN C = 1 .. Len(C)
    BY ContainerPlaces
  <2> HIDE DEF l, C
  <2>3. QED
    BY <1>1, <1>2, <2>1, <2>2
<1>4. r \in AnyProc /\ r.pc = "write" /\ r.text = proc[p].text /\ r.key = proc[p].key
      /\ r.of = NoProc /\ r.size = n
  <2> HIDE DEF n
  <2>1. QED
    BY <1>1, <1>2, <1>3 DEF AnyProc
<1> HIDE DEF r
<1>5. StageFits(r, p) /\ SoundProc(r)
  BY <1>2, <1>4 DEF StageFits, SoundProc
<1>6. /\ \A q \in Procs : proc'[q] = IF q = p THEN r ELSE proc[q]
      /\ \A b : Made(b) => Made(b)' /\ Container(b)' = Container(b)
      /\ proc' \in [Procs -> AnyProc]
  BY <1>1, <1>4, ContainersKept
<1>7. \A q \in Procs : StageFits(proc[q], q)' /\ SoundProc(proc[q])'
  <2>1. \A q \in Procs : StageFits(proc'[q], q) /\ SoundProc(proc[q])'
    BY <1>1, <1>4, <1>5, SoundKept
  <2>2. QED
    BY <2>1 DEF StageFits
<1>8. C[n] \in AnyPart /\ C[n].of = p /\ Part("hole", NoProc) \in AnyPart
  <2>1. C[n] \in {Part("header", p), Part("manifest", p), Part("crypto", p), Part("payload", p)}
        /\ C[n].of = p
    BY <1>3, ContainerPlaces
  <2> HIDE DEF C, n
  <2>2. QED
    BY <1>2, <2>1 DEF Part, AnyPart
<1>9. \A i \in 1 .. m : /\ i \in DOMAIN bin' 
                        /\ bin'[i] = IF i = n THEN C[n]
                                     ELSE IF i <= l THEN bin[i] ELSE Part("hole", NoProc)
  BY <1>1
<1>10. \A i \in 1 .. m : i <= l => i \in DOMAIN bin /\ bin[i] \in AnyPart /\ PartPlaced(i)
  <2>1. bin \in Seq(AnyPart) /\ \A i \in DOMAIN bin : PartPlaced(i)
    BY <1>2 DEF IsFile
  <2>2. DOMAIN bin = 1 .. l /\ \A i \in 1 .. l : bin[i] \in AnyPart
    BY <2>1
  <2> HIDE DEF l, m
  <2>3. QED
    BY <1>3, <2>1, <2>2
<1>11. Made(p) /\ Made(p)' /\ Container(p)' = C
  BY <1>2, <1>6 DEF Made
<1>12. bin' \in Seq(AnyPart) /\ DOMAIN bin' = 1 .. m /\ Len(bin') = m
  <2> HIDE DEF l, m, n, C
  <2>1. bin' \in [1 .. m -> AnyPart]
    BY <1>1, <1>8, <1>10
  <2>2. QED
    BY <1>3, <2>1
<1>13. IsFile'
  <2> SUFFICES ASSUME NEW i \in 1 .. m PROVE PartPlaced(i)'
    BY <1>12 DEF IsFile
  <2>1. CASE i = n
    <3>1. bin'[i] = C[n]
      BY <1>9, <2>1
    <3> HIDE DEF C, n
    <3>2. bin'[i].of = p /\ i \in DOMAIN Container(p)' /\ bin'[i] = Container(p)'[i]
      BY <1>3, <1>8, <1>11, <2>1, <3>1
    <3>3. QED
      BY <1>11, <3>2 DEF PartPlaced
  <2>2. CASE i # n /\ i <= l
    <3>1. bin'[i] = bin[i] /\ PartPlaced(i)
      BY <1>9, <1>10, <2>2
    <3>2. QED
      BY <1>6, <3>1 DEF PartPlaced
  <2>3. CASE i # n /\ ~(i <= l)
    <3>1. bin'[i] = Part("hole", NoProc)
      BY <1>9, <2>3
    <3>2. QED
      BY <3>1 DEF PartPlaced, Part
  <2>4. QED
    BY <2>1, <2>2, <2>3
<1>14. SoloFits'
  <2>1. SUFFICES ASSUME solo # NoProc PROVE SoloFits'
    BY <1>1 DEF SoloFits
  <2>2. solo = p
    BY <1>1, <2>1 DEF XerInv, SoloFits
  <2>3. bin = SubSeq(C, 1, proc[p].size) /\ \A q \in Procs : proc[q].pc = "write" => q = p
    BY <1>1, <2>1, <2>2 DEF XerInv, SoloFits
  <2>4. C \in Seq({C[i] : i \in DOMAIN C})
    <3> HIDE DEF C
    <3>1. C = [i \in 1 .. Len(C) |-> C[i]]
      <4>1. SubSeq(C, 1, Len(C)) = C
        BY WholeContainer DEF C
      <4>2. SubSeq(C, 1, Len(C)) = [i \in 1 .. Len(C) |-> C[i]]
        BY <1>3
      <4>3. QED
        BY <4>1, <4>2
    <3>2. QED
      BY <1>3, <3>1
  <2> HIDE DEF C
  <2>5. l = n - 1 /\ \A i \in 1 .. n - 1 : bin[i] = C[i]
    BY <1>1, <1>2, <1>3, <2>3, <2>4
  <2>6. m = n
    <3> HIDE DEF n, l
    <3>1. QED
      BY <1>3, <2>5
  <2>7. bin' = SubSeq(C, 1, n)
    <3> DEFINE s == SubSeq(C, 1, n)
    <3>1. Len(s) = n /\ \A i \in 1 .. n : s[i] = C[i]
      BY <1>1, <1>3, <2>4
    <3>2. s \in Seq({C[i] : i \in DOMAIN C})
      BY <1>1, <1>3, <2>4
    <3>3. \A i \in 1 .. n : bin'[i] = C[i]
      <4> HIDE DEF m, n, l
      <4>1. \A i \in 1 .. n : i = n \/ (i \in 1 .. n - 1 /\ i <= l)
        BY <1>3, <2>5
      <4>2. QED
        BY <1>9, <2>5, <2>6, <4>1
    <3>4. bin' = [i \in 1 .. n |-> C[i]]
      <4> HIDE DEF m, n, l
      <4>1. bin' = [i \in 1 .. n |-> bin'[i]]
        BY <1>1, <2>6
      <4>2. QED
        BY <3>3, <4>1
    <3>5. s = [i \in 1 .. n |-> C[i]]
      BY <1>1, <1>3, <2>4
    <3>6. QED
      BY <3>4, <3>5
  <2>8. proc'[p].pc = "write" /\ proc'[p].size = n /\ \A q \in Procs : proc'[q].pc = "write" => q = p
    BY <1>4, <1>6, <2>3
  <2>9. Container(p)' = C /\ n <= Len(C) /\ Made(p)' /\ solo' = p
    BY <1>1, <1>11, <2>2
  <2> HIDE DEF n
  <2>10. QED
    BY <2>7, <2>8, <2>9 DEF SoloFits
<1>15. QED
  BY <1>1, <1>6, <1>7, <1>13, <1>14 DEF XerInv

LEMMA XerInvRest ==
  ASSUME XerInv, proc' = proc, bin' = bin, solo' = solo, source' \in AnyText
  PROVE  XerInv'
<1>1. \A b : Made(b)' = Made(b) /\ Encrypted(b)' = Encrypted(b) /\ Container(b)' = Container(b)
  BY DEF Made, Encrypted, Container
<1>2. IsFile' = IsFile
  BY <1>1 DEF IsFile, PartPlaced
<1>3. SoloFits'
  BY <1>1 DEF XerInv, SoloFits
<1>4. \A p \in Procs : StageFits(proc[p], p)' /\ SoundProc(proc[p])'
  BY <1>1 DEF XerInv, StageFits, SoundProc
<1>5. QED
  BY <1>2, <1>3, <1>4 DEF XerInv

LEMMA XerInvStep == XerInv /\ [XerNext]_xerVars => XerInv'
<1> SUFFICES ASSUME XerInv, [XerNext]_xerVars PROVE XerInv'
  OBVIOUS
<1>1. ASSUME NEW p \in Procs, ProcStep(p) PROVE XerInv'
  <2>1. CASE WriteFails(p)
    BY <2>1, XerInvFails DEF WriteFails
  <2>2. QED
    BY <1>1, <2>1, XerInvCompile, XerInvOpen, XerInvWrite, XerInvClose, XerInvBak,
       XerInvRunSource, XerInvMeasure, XerInvRunBin, XerInvInspect DEF ProcStep
<1>2. ASSUME NEW p \in Procs, Dies(p) PROVE XerInv'
  BY <1>2, XerInvFails DEF Dies
<1>3. CASE EditSource
  BY <1>3, XerInvRest DEF EditSource, AnyText
<1>4. CASE UNCHANGED xerVars
  <2>1. proc' = proc /\ bin' = bin /\ solo' = solo /\ source' = source
    BY <1>4 DEF xerVars
  <2>2. source' \in AnyText
    BY <2>1 DEF XerInv
  <2>3. QED
    BY <2>1, <2>2, XerInvRest
<1>5. QED
  BY <1>1, <1>2, <1>3, <1>4, XerInvStart DEF XerNext

LEMMA XerInvAlways == XerSpec => []XerInv
  BY XerInvInit, XerInvStep, PTL DEF XerSpec

\* A protected script that is run is the work of one build, run with its key
\* and with the text it was built from, whatever processes write the file
\* meanwhile (xer_encode.cc).
THEOREM ContainersSound == XerSpec => []DecodeSound
<1>1. XerInv => DecodeSound
  BY DEF XerInv, SoundProc, DecodeSound
<1>2. QED
  BY <1>1, XerInvAlways, PTL

\* A build that nobody disturbed leaves a container that decodes.
THEOREM ContainersStand == XerSpec => []BuildStands
<1>1. XerInv => BuildStands
  <2> SUFFICES ASSUME XerInv, NEW p \in Writers, solo = p,
                      proc[p].pc \in {"manifest", "source", "done"}
               PROVE  bin = Container(p) /\ Decodes(bin, proc[p].key)
    BY DEF BuildStands
  <2> DEFINE C == Container(p)
             n == Len(C)
  <2>1. bin = C /\ p \in Procs
    BY SoloWhole DEF Procs
  <2>2. /\ n = (IF Encrypted(p) THEN 4 ELSE 3) /\ C[1] = Part("header", p)
        /\ C[n] = Part("payload", p) /\ (Encrypted(p) => C[3] = Part("crypto", p))
    BY ContainerPlaces
  <2>3. Offset(p, "payload") = n /\ (Encrypted(p) => Offset(p, "crypto") = 3)
    BY Offsets
  <2>4. C # NoFile
    <3>1. /\ Part("header", p) \in AnyPart /\ Part("manifest", p) \in AnyPart
          /\ Part("crypto", p) \in AnyPart /\ Part("payload", p) \in AnyPart
      BY DEF Part, AnyPart
    <3>2. C \in Seq(AnyPart)
      <4>1. CASE Encrypted(p)
        <5>1. C = <<Part("header", p), Part("manifest", p), Part("crypto", p),
                    Part("payload", p)>>
          BY <4>1, ContainerFacts
        <5> HIDE DEF C
        <5>2. QED
          BY <3>1, <5>1
      <4>2. CASE ~Encrypted(p)
        <5>1. C = <<Part("header", p), Part("manifest", p), Part("payload", p)>>
          BY <4>2, ContainerFacts
        <5> HIDE DEF C
        <5>2. QED
          BY <3>1, <5>1
      <4>3. QED
        BY <4>1, <4>2
    <3> HIDE DEF C
    <3>3. QED
      BY <3>2, XerAssumption DEF AnyPart
  <2> HIDE DEF C
  <2>5. HeaderValid(C) /\ C[1].of = p
    BY <2>2, <2>4 DEF HeaderValid, Part, n
  <2>6. SectionValid(C, p, "payload") /\ SameChecksum(C[Offset(p, "payload")], p)
    BY <2>2, <2>3 DEF SectionValid, SameChecksum, Part, n
  <2>7. Encrypted(p) => SectionValid(C, p, "crypto") /\ Decrypts(C, p, proc[p].key)
    BY <2>2, <2>3 DEF SectionValid, SameChecksum, Decrypts, Encrypted, Part, n
  <2>8. Decodes(C, proc[p].key)
    BY <2>5, <2>6, <2>7 DEF Decodes
  <2>9. QED
    BY <2>1, <2>8 DEF C
<1>2. QED
  BY <1>1, XerInvAlways, PTL

-----------------------------------------------------------------------------
(* The parser: how a tree is written                                       *)

SomeText == [tokens : Seq(Kinds), open : Seq(Calls)]
NoTokens == [tokens |-> <<>>, open |-> <<>>]

LEMMA NodeParts ==
  ASSUME NEW e \in NodeType
  PROVE  /\ e.kind \in {"import", "end", "function", "statement", "call", "map", "num", "str", "id"}
         /\ e.flag \in BOOLEAN /\ e.label \in {"none", "id", "str"}
         /\ e = Node(e.kind, e.flag, e.label)
  BY DEF NodeType, Node, Calls, Lists, Leaves

LEMMA CallStack ==
  ASSUME NEW s \in Seq(Calls)
  PROVE  /\ Top(s) \in {"program"} \cup Calls /\ (Top(s) = "program" <=> s = <<>>)
         /\ Under(s) \in Seq(Calls) /\ Returned(s) \in Seq(Calls)
<1>1. Top(s) \in {"program"} \cup Calls /\ (Top(s) = "program" <=> s = <<>>)
  BY DEF Top, Calls, Lists
<1>2. Under(s) \in Seq(Calls)
  <2>1. CASE s = <<>>
    BY <2>1 DEF Under
  <2>2. CASE s # <<>>
    BY <2>2 DEF Under
  <2>3. QED
    BY <2>1, <2>2
<1>3. QED
  BY <1>1, <1>2 DEF Returned

LEMMA AfterType ==
  ASSUME NEW e \in NodeType, NEW s \in Seq(Calls)
  PROVE  After(e, s) \in Seq(Calls)
<1>1. Returned(s) \in Seq(Calls) /\ Returned(Under(s)) \in Seq(Calls)
  BY CallStack
<1>2. CASE e.kind = "import"
  <2>1. After(e, s) = s
    BY <1>2 DEF After, Calls, Lists, Leaves
  <2>2. QED
    BY <2>1
<1>3. CASE e.kind \in Calls
  <2>1. After(e, s) = Append(s, e.kind)
    BY <1>3 DEF After, Calls, Lists, Leaves
  <2>2. QED
    BY <1>3, <2>1
<1>4. CASE e.kind \in Leaves
  <2>1. After(e, s) = Returned(s)
    BY <1>4 DEF After, Calls, Lists, Leaves
  <2>2. QED
    BY <1>1, <2>1
<1>5. CASE e.kind = "end"
  <2>1. After(e, s) = Returned(Under(s))
    BY <1>5 DEF After, Calls, Lists, Leaves
  <2>2. QED
    BY <1>1, <2>1
<1>6. QED
  BY <1>2, <1>3, <1>4, <1>5, NodeParts DEF Calls, Lists, Leaves

LEMMA KindList ==
  /\ "id" \in Kinds /\ "num" \in Kinds /\ "big" \in Kinds /\ "str" \in Kinds /\ "import" \in Kinds
  /\ "as" \in Kinds /\ "async" \in Kinds /\ "local" \in Kinds /\ "then" \in Kinds
  /\ "end" \in Kinds /\ "(" \in Kinds /\ ")" \in Kinds /\ "{" \in Kinds /\ "}" \in Kinds
  /\ "," \in Kinds /\ ":" \in Kinds /\ ";" \in Kinds /\ "=" \in Kinds /\ "->" \in Kinds
  /\ "eof" \notin Kinds
  BY DEF Kinds

LEMMA KindTuples ==
  /\ \A a \in Kinds : <<a>> \in Seq(Kinds)
  /\ \A a, b \in Kinds : <<a, b>> \in Seq(Kinds)
  /\ \A a, b, c \in Kinds : <<a, b, c>> \in Seq(Kinds)
  /\ \A a, b, c, d \in Kinds : <<a, b, c, d>> \in Seq(Kinds)
  /\ \A a, b, c, d, e \in Kinds : <<a, b, c, d, e>> \in Seq(Kinds)
  /\ \A a, b, c, d, e, f \in Kinds : <<a, b, c, d, e, f>> \in Seq(Kinds)
  /\ \A a, b, c, d, e, f, g \in Kinds : <<a, b, c, d, e, f, g>> \in Seq(Kinds)
  /\ <<>> \in Seq(Kinds)
  OBVIOUS

\* The tokens of the nodes.
LEMMA Spelled ==
  /\ <<"{">> \in Seq(Kinds)
  /\ <<"id", ":", "id", "(">> \in Seq(Kinds)
  /\ <<"id", "(">> \in Seq(Kinds)
  /\ <<"num">> \in Seq(Kinds)
  /\ <<"str">> \in Seq(Kinds)
  /\ <<"id">> \in Seq(Kinds)
  /\ <<"import", "(", "str", ")", "as", "id">> \in Seq(Kinds)
  /\ <<"async", "id", "(", ")", "->", "then", "{">> \in Seq(Kinds)
  /\ <<"id", "(", ")", "->", "then", "{">> \in Seq(Kinds)
  /\ <<"local", "id", "=">> \in Seq(Kinds)
  /\ <<>> \in Seq(Kinds)
  /\ <<")">> \in Seq(Kinds)
  /\ <<"}">> \in Seq(Kinds)
  /\ <<"}", "end">> \in Seq(Kinds)
  /\ <<",">> \in Seq(Kinds)
  /\ <<";">> \in Seq(Kinds)
  /\ <<"id", ":">> \in Seq(Kinds)
  /\ <<"str", ":">> \in Seq(Kinds)
<1>1. <<"{">> \in Seq(Kinds)
  BY KindList, KindTuples
<1>2. <<"id", ":", "id", "(">> \in Seq(Kinds)
  BY KindList, KindTuples
<1>3. <<"id", "(">> \in Seq(Kinds)
  BY KindList, KindTuples
<1>4. <<"num">> \in Seq(Kinds)
  BY KindList, KindTuples
<1>5. <<"str">> \in Seq(Kinds)
  BY KindList, KindTuples
<1>6. <<"id">> \in Seq(Kinds)
  BY KindList, KindTuples
<1>7. <<"import", "(", "str", ")", "as", "id">> \in Seq(Kinds)
  BY KindList, KindTuples
<1>8. <<"async", "id", "(", ")", "->", "then", "{">> \in Seq(Kinds)
  BY KindList, KindTuples
<1>9. <<"id", "(", ")", "->", "then", "{">> \in Seq(Kinds)
  BY KindList, KindTuples
<1>10. <<"local", "id", "=">> \in Seq(Kinds)
  BY KindList, KindTuples
<1>11. <<>> \in Seq(Kinds)
  BY KindList, KindTuples
<1>12. <<")">> \in Seq(Kinds)
  BY KindList, KindTuples
<1>13. <<"}">> \in Seq(Kinds)
  BY KindList, KindTuples
<1>14. <<"}", "end">> \in Seq(Kinds)
  BY KindList, KindTuples
<1>15. <<",">> \in Seq(Kinds)
  BY KindList, KindTuples
<1>16. <<";">> \in Seq(Kinds)
  BY KindList, KindTuples
<1>17. <<"id", ":">> \in Seq(Kinds)
  BY KindList, KindTuples
<1>18. <<"str", ":">> \in Seq(Kinds)
  BY KindList, KindTuples
<1> QED
  BY <1>1, <1>2, <1>3, <1>4, <1>5, <1>6, <1>7, <1>8, <1>9, <1>10, <1>11, <1>12, <1>13, <1>14, <1>15, <1>16, <1>17, <1>18, Zenon

LEMMA ValueType ==
  ASSUME NEW e \in NodeType, e.kind \in Leaves \cup Lists
  PROVE  /\ e.kind = "map" => Value(e) = <<"{">>
         /\ e.kind = "call" /\ e.flag => Value(e) = <<"id", ":", "id", "(">>
         /\ e.kind = "call" /\ ~e.flag => Value(e) = <<"id", "(">>
         /\ e.kind = "num" => Value(e) = <<"num">>
         /\ e.kind = "str" => Value(e) = <<"str">>
         /\ e.kind = "id" => Value(e) = <<"id">>
         /\ Value(e) \in Seq(Kinds)
<1>1. e.flag \in BOOLEAN /\ e.kind \in {"map", "call", "num", "str", "id"}
  BY NodeParts DEF Leaves, Lists
<1>2. e.kind = "map" => Value(e) = <<"{">>
  BY DEF Value
<1>3. e.kind = "call" /\ e.flag => Value(e) = <<"id", ":", "id", "(">>
  BY DEF Value
<1>4. e.kind = "call" /\ ~e.flag => Value(e) = <<"id", "(">>
  BY DEF Value
<1>5. e.kind = "num" => Value(e) = <<"num">>
  BY DEF Value
<1>6. e.kind = "str" => Value(e) = <<"str">>
  BY DEF Value
<1>7. e.kind = "id" => Value(e) = <<"id">>
  BY DEF Value
<1>8. Value(e) \in Seq(Kinds)
  BY <1>1, <1>2, <1>3, <1>4, <1>5, <1>6, <1>7, Spelled, Zenon
<1>9. QED
  BY <1>2, <1>3, <1>4, <1>5, <1>6, <1>7, <1>8, Zenon

\* What is written before the value of a part: a comma, and its label.
Comma(s, first) == IF Top(s) \in Lists /\ ~first THEN <<",">> ELSE <<>>
Label(e) == IF e.label = "none" THEN <<>> ELSE <<e.label, ":">>

LEMMA TokensCases ==
  ASSUME NEW e \in NodeType, NEW s \in Seq(Calls), NEW first
  PROVE  /\ e.kind = "import" => Tokens(e, s, first) = <<"import", "(", "str", ")", "as", "id">>
         /\ e.kind = "function" /\ e.flag =>
              Tokens(e, s, first) = <<"async", "id", "(", ")", "->", "then", "{">>
         /\ e.kind = "function" /\ ~e.flag =>
              Tokens(e, s, first) = <<"id", "(", ")", "->", "then", "{">>
         /\ e.kind = "statement" /\ e.flag => Tokens(e, s, first) = <<"local", "id", "=">>
         /\ e.kind = "statement" /\ ~e.flag => Tokens(e, s, first) = <<>>
         /\ e.kind = "end" /\ Top(s) = "call" => Tokens(e, s, first) = <<")">>
         /\ e.kind = "end" /\ Top(s) = "map" => Tokens(e, s, first) = <<"}">>
         /\ e.kind = "end" /\ Top(s) \notin Lists => Tokens(e, s, first) = <<"}", "end">>
         /\ e.kind \in Leaves \cup Lists =>
              Tokens(e, s, first) = Comma(s, first) \o Label(e) \o Value(e)
         /\ Tokens(e, s, first) \in Seq(Kinds)
<1> DEFINE ts == Tokens(e, s, first)
<1>1. e.flag \in BOOLEAN
  BY NodeParts
<1>2. e.kind = "import" => ts = <<"import", "(", "str", ")", "as", "id">>
  BY DEF Tokens
<1>3. e.kind = "function" /\ e.flag => ts = <<"async", "id", "(", ")", "->", "then", "{">>
  BY DEF Tokens
<1>4. e.kind = "function" /\ ~e.flag => ts = <<"id", "(", ")", "->", "then", "{">>
  BY DEF Tokens
<1>5. e.kind = "statement" /\ e.flag => ts = <<"local", "id", "=">>
  BY DEF Tokens
<1>6. e.kind = "statement" /\ ~e.flag => ts = <<>>
  BY DEF Tokens
<1>7. e.kind = "end" /\ Top(s) = "call" => ts = <<")">>
  BY DEF Tokens
<1>8. e.kind = "end" /\ Top(s) = "map" => ts = <<"}">>
  BY DEF Tokens
<1>9. e.kind = "end" /\ Top(s) \notin Lists => ts = <<"}", "end">>
  BY DEF Tokens, Lists
<1>10. e.kind \in Leaves \cup Lists => ts = Comma(s, first) \o Label(e) \o Value(e)
  BY DEF Tokens, Leaves, Lists, Comma, Label
<1>11. ts \in Seq(Kinds)
  <2> HIDE DEF ts
  <2>1. CASE e.kind = "import"
    BY <2>1, <1>2, Spelled, Zenon
  <2>2. CASE e.kind = "function"
    BY <2>2, <1>1, <1>3, <1>4, Spelled, Zenon
  <2>3. CASE e.kind = "statement"
    BY <2>3, <1>1, <1>5, <1>6, Spelled, Zenon
  <2>4. CASE e.kind = "end"
    <3>1. Top(s) \notin Lists \/ Top(s) = "call" \/ Top(s) = "map"
      BY DEF Lists
    <3>2. QED
      BY <2>4, <1>7, <1>8, <1>9, <3>1, Spelled, Zenon
  <2>5. CASE e.kind \in Leaves \cup Lists
    <3>1. Comma(s, first) \in Seq(Kinds)
      BY Spelled, Zenon DEF Comma
    <3>2. Label(e) \in Seq(Kinds)
      BY NodeParts, Spelled, Zenon DEF Label
    <3>3. Value(e) \in Seq(Kinds)
      BY <2>5, ValueType
    <3>4. \A a, b, c \in Seq(Kinds) : a \o b \o c \in Seq(Kinds)
      OBVIOUS
    <3>5. QED
      BY <2>5, <1>10, <3>1, <3>2, <3>3, <3>4, Zenon
  <2>6. QED
    BY <2>1, <2>2, <2>3, <2>4, <2>5, NodeParts DEF Leaves, Lists
<1> HIDE DEF ts
<1>12. QED
  BY <1>2, <1>3, <1>4, <1>5, <1>6, <1>7, <1>8, <1>9, <1>10, <1>11 DEF ts

Semi(s, n) == IF n \in s THEN <<";">> ELSE <<>>

LEMMA WithNodeOpen ==
  ASSUME NEW t \in Seq(NodeType), NEW s, NEW n \in 1 .. Len(t), NEW x \in SomeText
  PROVE  WithNode(t, s, n, x).open = After(t[n], x.open)
  BY DEF WithNode

LEMMA WithNodeTokens ==
  ASSUME NEW t \in Seq(NodeType), NEW s, NEW n \in 1 .. Len(t), NEW x \in SomeText
  PROVE  WithNode(t, s, n, x).tokens =
           x.tokens \o Tokens(t[n], x.open, Opens(t, n - 1)) \o Semi(s, n)
<1> DEFINE a == x.tokens \o Tokens(t[n], x.open, Opens(t, n - 1))
                  \o (IF n \in s THEN <<";">> ELSE <<>>)
           o == After(t[n], x.open)
<1>1. WithNode(t, s, n, x) = [tokens |-> a, open |-> o]
  BY Zenon DEF WithNode
<1>2. a = x.tokens \o Tokens(t[n], x.open, Opens(t, n - 1)) \o Semi(s, n)
  BY Zenon DEF Semi
<1> HIDE DEF a, o
<1>3. WithNode(t, s, n, x).tokens = a
  BY <1>1
<1>4. QED
  BY <1>2, <1>3, Zenon

LEMMA WithNodeType ==
  ASSUME NEW t \in Seq(NodeType), NEW s, NEW n \in 1 .. Len(t), NEW x \in SomeText
  PROVE  WithNode(t, s, n, x) \in SomeText
<1>1. t[n] \in NodeType /\ x.tokens \in Seq(Kinds) /\ x.open \in Seq(Calls)
  BY DEF SomeText
<1> DEFINE ts == Tokens(t[n], x.open, Opens(t, n - 1))
           semi == IF n \in s THEN <<";">> ELSE <<>>
           o == After(t[n], x.open)
<1>2. ts \in Seq(Kinds)
  BY <1>1, TokensCases
<1>3. semi \in Seq(Kinds)
  BY Spelled, Zenon
<1>4. o \in Seq(Calls)
  BY <1>1, AfterType
<1>5. WithNode(t, s, n, x) = [tokens |-> x.tokens \o ts \o semi, open |-> o]
  BY DEF WithNode
<1> HIDE DEF ts, semi, o
<1>6. QED
  BY <1>1, <1>2, <1>3, <1>4, <1>5 DEF SomeText

\* The recursion behind Written.
WrittenStep(t, s) == [n \in 1 .. Len(t) |-> [x \in SomeText |-> WithNode(t, s, n, x)]]

LEMMA WrittenUnfolds ==
  ASSUME NEW t \in Seq(NodeType), NEW s
  PROVE  Unfolds(Written(t, s), NoTokens, WrittenStep(t, s), Len(t), SomeText)
<1> DEFINE L == Len(t)
           g == WrittenStep(t, s)
           F(f) == f = [n \in 0 .. L |-> IF n = 0 THEN [tokens |-> <<>>, open |-> <<>>]
                                         ELSE WithNode(t, s, n, f[n - 1])]
           u == CHOOSE f : F(f)
<1>1. L \in Nat /\ NoTokens \in SomeText
  BY DEF NoTokens, SomeText
<1>2. IsStep(g, L, SomeText)
  BY WithNodeType DEF IsStep, WrittenStep
<1>3. PICK f : Unfolds(f, NoTokens, g, L, SomeText)
  <2> HIDE DEF g, L
  <2>1. QED
    BY <1>1, <1>2, FiniteRecursion
<1>4. ASSUME NEW e, F(e) PROVE Unfolds(e, NoTokens, g, L, SomeText)
  <2>1. e[0] = NoTokens /\ \A n \in 1 .. L : e[n] = WithNode(t, s, n, e[n - 1])
    <3> HIDE DEF L
    <3>1. 0 \in 0 .. L /\ \A n \in 1 .. L : n \in 0 .. L /\ n # 0
      BY <1>1
    <3>2. e[0] = NoTokens
      BY <1>4, <3>1 DEF NoTokens
    <3>3. ASSUME NEW n \in 1 .. L PROVE e[n] = WithNode(t, s, n, e[n - 1])
      BY <1>4, <3>1
    <3>4. QED
      BY <3>2, <3>3
  <2> DEFINE T == {n \in Nat : n <= L => e[n] \in SomeText}
  <2>2. Nat \subseteq T
    <3>1. 0 \in T
      BY <1>1, <2>1
    <3>2. \A n \in Nat : n \in T => n + 1 \in T
      <4> SUFFICES ASSUME NEW n \in Nat, n \in T, n + 1 <= L PROVE e[n + 1] \in SomeText
        OBVIOUS
      <4>1. n + 1 \in 1 .. L /\ (n + 1) - 1 = n /\ e[n] \in SomeText
        BY <1>1
      <4>2. QED
        BY <2>1, <4>1, WithNodeType
    <3> HIDE DEF T
    <3>3. QED
      BY <3>1, <3>2, NatInd
  <2>3. e \in [0 .. L -> SomeText]
    <3>1. \A n \in 0 .. L : e[n] \in SomeText
      BY <1>1, <2>2
    <3>2. e = [n \in 0 .. L |-> e[n]]
      BY <1>4
    <3>3. QED
      BY <3>1, <3>2
  <2>4. \A n \in 1 .. L : e[n] = g[n][e[n - 1]]
    <3> SUFFICES ASSUME NEW n \in 1 .. L PROVE e[n] = g[n][e[n - 1]]
      OBVIOUS
    <3>1. e[n - 1] \in SomeText
      BY <1>1, <2>3
    <3>2. QED
      BY <1>1, <2>1, <3>1 DEF WrittenStep
  <2>5. QED
    BY <2>1, <2>3, <2>4 DEF Unfolds
<1>5. F(f)
  <2>1. f \in [0 .. L -> SomeText] /\ f[0] = NoTokens /\ \A n \in 1 .. L : f[n] = g[n][f[n - 1]]
    BY <1>3 DEF Unfolds
  <2>2. \A n \in 1 .. L : f[n] = WithNode(t, s, n, f[n - 1])
    <3> SUFFICES ASSUME NEW n \in 1 .. L PROVE f[n] = WithNode(t, s, n, f[n - 1])
      OBVIOUS
    <3>1. n - 1 \in 0 .. L /\ f \in [0 .. L -> SomeText]
      BY <1>1, <2>1
    <3>2. f[n - 1] \in SomeText
      BY <3>1
    <3>3. QED
      BY <2>1, <3>2 DEF WrittenStep
  <2> HIDE DEF L
  <2>3. \A n \in 0 .. L : n = 0 \/ n \in 1 .. L
    BY <1>1
  <2>4. \A n \in 0 .. L : f[n] = IF n = 0 THEN [tokens |-> <<>>, open |-> <<>>]
                                ELSE WithNode(t, s, n, f[n - 1])
    BY <2>1, <2>2, <2>3 DEF NoTokens
  <2>5. f = [n \in 0 .. L |-> f[n]]
    BY <2>1
  <2>6. QED
    BY <2>4, <2>5
<1>6. F(u)
  BY <1>5
<1>7. Written(t, s) = u
  BY DEF Written
<1> HIDE DEF u, F
<1>8. QED
  BY <1>4, <1>6, <1>7

-----------------------------------------------------------------------------
(* The text of the first n nodes, and the calls that are open there        *)

Txt(t, s, n) == Written(t, s)[n].tokens
Opn(t, n) == Written(t, {})[n].open
TokensAt(t, n) == Tokens(t[n], Opn(t, n - 1), Opens(t, n - 1))

LEMMA WrittenOpen ==
  ASSUME NEW t \in Seq(NodeType), NEW s
  PROVE  \A n \in 0 .. Len(t) : Written(t, s)[n].open = Opn(t, n)
<1> DEFINE T == {n \in Nat : n <= Len(t) => Written(t, s)[n].open = Opn(t, n)}
           v == Written(t, s)
           w == Written(t, {})
<1>1. /\ Unfolds(v, NoTokens, WrittenStep(t, s), Len(t), SomeText)
      /\ Unfolds(w, NoTokens, WrittenStep(t, {}), Len(t), SomeText)
  BY WrittenUnfolds
<1>2. 0 \in T
  BY <1>1 DEF Unfolds, Opn
<1>3. \A n \in Nat : n \in T => n + 1 \in T
  <2> SUFFICES ASSUME NEW n \in Nat, n \in T, n + 1 <= Len(t)
               PROVE  v[n + 1].open = w[n + 1].open
    BY DEF Opn
  <2>1. n + 1 \in 1 .. Len(t) /\ (n + 1) - 1 = n /\ n \in 0 .. Len(t)
    OBVIOUS
  <2>2. v[n].open = w[n].open
    BY <2>1 DEF Opn
  <2> HIDE DEF v, w, T
  <2>3. v[n] \in SomeText /\ w[n] \in SomeText
    BY <1>1, <2>1 DEF Unfolds
  <2>4. v[n + 1] = WithNode(t, s, n + 1, v[n]) /\ w[n + 1] = WithNode(t, {}, n + 1, w[n])
    BY <1>1, <2>1, <2>3 DEF Unfolds, WrittenStep
  <2>5. QED
    BY <2>1, <2>2, <2>3, <2>4, WithNodeOpen
<1>4. Nat \subseteq T
  <2> HIDE DEF T
  <2>1. QED
    BY <1>2, <1>3, NatInd
<1>5. QED
  BY <1>4

\* Node n is written after those before it.
LEMMA WrittenNode ==
  ASSUME NEW t \in Seq(NodeType), NEW s
  PROVE  /\ Txt(t, s, 0) = <<>> /\ Opn(t, 0) = <<>>
         /\ \A n \in 0 .. Len(t) : Txt(t, s, n) \in Seq(Kinds) /\ Opn(t, n) \in Seq(Calls)
         /\ \A n \in 1 .. Len(t) :
              /\ Txt(t, s, n) = Txt(t, s, n - 1) \o TokensAt(t, n) \o Semi(s, n)
              /\ Opn(t, n) = After(t[n], Opn(t, n - 1))
<1> DEFINE v == Written(t, s)
<1>1. Unfolds(v, NoTokens, WrittenStep(t, s), Len(t), SomeText)
  BY WrittenUnfolds
<1>2. \A n \in 0 .. Len(t) : v[n].open = Opn(t, n) /\ v[n].tokens = Txt(t, s, n)
  BY WrittenOpen DEF Txt
<1> HIDE DEF v
<1>3. v[0] = NoTokens /\ \A n \in 0 .. Len(t) : v[n] \in SomeText
  BY <1>1 DEF Unfolds
<1>4. Txt(t, s, 0) = <<>> /\ Opn(t, 0) = <<>>
  BY <1>2, <1>3 DEF NoTokens
<1>5. \A n \in 0 .. Len(t) : Txt(t, s, n) \in Seq(Kinds) /\ Opn(t, n) \in Seq(Calls)
  <2> SUFFICES ASSUME NEW n \in 0 .. Len(t)
               PROVE  Txt(t, s, n) \in Seq(Kinds) /\ Opn(t, n) \in Seq(Calls)
    OBVIOUS
  <2>1. v[n].tokens \in Seq(Kinds) /\ v[n].open \in Seq(Calls)
    BY <1>3 DEF SomeText
  <2>2. QED
    BY <1>2, <2>1
<1>6. ASSUME NEW n \in 1 .. Len(t)
      PROVE  /\ Txt(t, s, n) = Txt(t, s, n - 1) \o TokensAt(t, n) \o Semi(s, n)
             /\ Opn(t, n) = After(t[n], Opn(t, n - 1))
  <2>1. n \in 0 .. Len(t) /\ n - 1 \in 0 .. Len(t)
    OBVIOUS
  <2>2. v[n - 1] \in SomeText
    BY <1>3, <2>1
  <2>3. v[n] = WithNode(t, s, n, v[n - 1])
    BY <1>1, <2>1, <2>2 DEF Unfolds, WrittenStep
  <2>4. v[n - 1].open = Opn(t, n - 1) /\ v[n - 1].tokens = Txt(t, s, n - 1)
    BY <1>2, <2>1
  <2>5. v[n].open = Opn(t, n) /\ v[n].tokens = Txt(t, s, n)
    BY <1>2, <2>1
  <2>6. v[n].open = After(t[n], v[n - 1].open)
    BY <2>2, <2>3, WithNodeOpen
  <2>7. v[n].tokens = v[n - 1].tokens \o Tokens(t[n], v[n - 1].open, Opens(t, n - 1)) \o Semi(s, n)
    BY <2>2, <2>3, WithNodeTokens, Zenon
  <2>8. QED
    BY <2>4, <2>5, <2>6, <2>7, Zenon DEF TokensAt
<1>7. QED
  BY <1>4, <1>5, <1>6

\* What is written of the first m nodes depends on them only.
LEMMA SamePrefix ==
  ASSUME NEW t \in Seq(NodeType), NEW u \in Seq(NodeType), NEW s, NEW r,
         NEW m \in Nat, m <= Len(t), m <= Len(u),
         \A k \in 1 .. m : t[k] = u[k] /\ (k \in s <=> k \in r)
  PROVE  \A n \in 0 .. m : Txt(t, s, n) = Txt(u, r, n) /\ Opn(t, n) = Opn(u, n)
<1> DEFINE T == {n \in Nat : n <= m => Txt(t, s, n) = Txt(u, r, n) /\ Opn(t, n) = Opn(u, n)}
<1>1. 0 \in T
  BY WrittenNode
<1>2. \A n \in Nat : n \in T => n + 1 \in T
  <2> SUFFICES ASSUME NEW n \in Nat, n \in T, n + 1 <= m
               PROVE  Txt(t, s, n + 1) = Txt(u, r, n + 1) /\ Opn(t, n + 1) = Opn(u, n + 1)
    OBVIOUS
  <2>1. /\ n + 1 \in 1 .. Len(t) /\ n + 1 \in 1 .. Len(u) /\ (n + 1) - 1 = n /\ n + 1 \in 1 .. m
        /\ Txt(t, s, n) = Txt(u, r, n) /\ Opn(t, n) = Opn(u, n)
    OBVIOUS
  <2>2. t[n + 1] = u[n + 1] /\ Semi(s, n + 1) = Semi(r, n + 1)
    BY <2>1 DEF Semi
  <2>3. Opens(t, n) = Opens(u, n)
    <3>1. CASE n = 0
      BY <3>1 DEF Opens
    <3>2. CASE n # 0
      <4>1. n \in 1 .. m
        BY <2>1, <3>2
      <4>2. t[n] = u[n]
        BY <4>1
      <4>3. QED
        BY <4>2, Zenon DEF Opens
    <3>3. QED
      BY <3>1, <3>2
  <2>4. TokensAt(t, n + 1) = TokensAt(u, n + 1)
    BY <2>1, <2>2, <2>3 DEF TokensAt
  <2>5. /\ Txt(t, s, n + 1) = Txt(t, s, n) \o TokensAt(t, n + 1) \o Semi(s, n + 1)
        /\ Opn(t, n + 1) = After(t[n + 1], Opn(t, n))
    BY <2>1, WrittenNode
  <2>6. /\ Txt(u, r, n + 1) = Txt(u, r, n) \o TokensAt(u, n + 1) \o Semi(r, n + 1)
        /\ Opn(u, n + 1) = After(u[n + 1], Opn(u, n))
    BY <2>1, WrittenNode
  <2>7. QED
    BY <2>1, <2>2, <2>4, <2>5, <2>6, Zenon
<1>3. Nat \subseteq T
  <2> HIDE DEF T
  <2>1. QED
    BY <1>1, <1>2, NatInd
<1>4. QED
  BY <1>3

LEMMA SemiType ==
  ASSUME NEW s, NEW n
  PROVE  /\ Semi(s, n) \in Seq(Kinds)
         /\ n \in s => Len(Semi(s, n)) = 1 /\ Semi(s, n)[1] = ";"
         /\ n \notin s => Len(Semi(s, n)) = 0
<1>1. n \in s => Semi(s, n) = <<";">>
  BY DEF Semi
<1>2. n \notin s => Semi(s, n) = <<>>
  BY DEF Semi
<1>3. Semi(s, n) \in Seq(Kinds)
  BY <1>1, <1>2, Spelled, Zenon
<1>4. Len(<<";">>) = 1 /\ <<";">>[1] = ";" /\ Len(<<>>) = 0
  OBVIOUS
<1>5. QED
  BY <1>1, <1>2, <1>3, <1>4, Zenon

LEMMA TokensAtType ==
  ASSUME NEW t \in Seq(NodeType), NEW n \in 1 .. Len(t)
  PROVE  TokensAt(t, n) \in Seq(Kinds)
<1>1. n - 1 \in 0 .. Len(t) /\ t[n] \in NodeType
  OBVIOUS
<1>2. Opn(t, n - 1) \in Seq(Calls)
  BY <1>1, WrittenNode
<1>3. QED
  BY <1>1, <1>2, TokensCases DEF TokensAt

\* A longer text starts with the shorter.
LEMMA TextPrefix ==
  ASSUME NEW t \in Seq(NodeType), NEW s, NEW n \in 0 .. Len(t)
  PROVE  \A m \in n .. Len(t) :
           /\ Len(Txt(t, s, n)) <= Len(Txt(t, s, m))
           /\ \A i \in 1 .. Len(Txt(t, s, n)) : Txt(t, s, m)[i] = Txt(t, s, n)[i]
<1> DEFINE x(m) == Txt(t, s, m)
           Same(m) == Len(x(n)) <= Len(x(m)) /\ \A i \in 1 .. Len(x(n)) : x(m)[i] = x(n)[i]
           T == {d \in Nat : n + d <= Len(t) => Same(n + d)}
<1>1. \A m \in 0 .. Len(t) : x(m) \in Seq(Kinds)
  BY WrittenNode
<1>2. 0 \in T
  BY <1>1
<1>3. \A d \in Nat : d \in T => d + 1 \in T
  <2> SUFFICES ASSUME NEW d \in Nat, d \in T, n + (d + 1) <= Len(t) PROVE Same(n + (d + 1))
    OBVIOUS
  <2> DEFINE a == x(n + d)
             b == TokensAt(t, n + d + 1)
             c == Semi(s, n + d + 1)
  <2>1. n + d + 1 \in 1 .. Len(t) /\ n + d \in 0 .. Len(t) /\ (n + d + 1) - 1 = n + d
        /\ n + (d + 1) = n + d + 1 /\ Same(n + d)
    OBVIOUS
  <2>2. x(n + (d + 1)) = a \o b \o c
    <3>1. x(n + d + 1) = a \o b \o c
      BY <2>1, WrittenNode
    <3>2. QED
      BY <2>1, <3>1
  <2>3. a \in Seq(Kinds) /\ b \in Seq(Kinds) /\ c \in Seq(Kinds) /\ x(n) \in Seq(Kinds)
    BY <1>1, <2>1, TokensAtType, SemiType
  <2>4. Len(x(n)) <= Len(a) /\ \A i \in 1 .. Len(x(n)) : a[i] = x(n)[i]
    BY <2>1
  <2> HIDE DEF x, b, c, a
  <2>5. Len(a \o b \o c) >= Len(a) /\ \A i \in 1 .. Len(a) : (a \o b \o c)[i] = a[i]
    BY <2>3
  <2> DEFINE y == x(n + (d + 1))
             z == x(n)
  <2>6. Len(z) <= Len(y) /\ \A i \in 1 .. Len(z) : y[i] = z[i]
    <3>1. y = a \o b \o c /\ z \in Seq(Kinds)
      BY <2>2, <2>3, Zenon
    <3>2. Len(z) <= Len(a) /\ \A i \in 1 .. Len(z) : a[i] = z[i]
      BY <2>4, Zenon
    <3> HIDE DEF y, z
    <3>3. Len(y) >= Len(a) /\ \A i \in 1 .. Len(a) : y[i] = a[i]
      BY <2>5, <3>1
    <3>4. QED
      BY <2>3, <3>1, <3>2, <3>3
  <2>7. QED
    BY <2>6
<1>4. Nat \subseteq T
  <2> HIDE DEF T
  <2>1. QED
    BY <1>2, <1>3, NatInd
<1>5. ASSUME NEW m \in n .. Len(t) PROVE Same(m)
  <2>1. m - n \in Nat /\ n + (m - n) = m
    OBVIOUS
  <2>2. QED
    BY <1>4, <2>1
<1>6. QED
  BY <1>5

-----------------------------------------------------------------------------
(* Reading                                                                 *)

LEMMA ReadsConcat ==
  ASSUME NEW i \in Nat, NEW a \in Seq(Kinds), NEW b \in Seq(Kinds)
  PROVE  Reads(i, a \o b) <=> Reads(i, a) /\ Reads(i + Len(a), b)
<1>1. ASSUME Reads(i, a \o b) PROVE Reads(i, a) /\ Reads(i + Len(a), b)
  <2>0. DOMAIN (a \o b) = 1 .. Len(a) + Len(b)
    OBVIOUS
  <2>1. \A k \in 1 .. Len(a) + Len(b) : Peek(i + k - 1) = (a \o b)[k]
    BY <1>1, <2>0, Zenon DEF Reads
  <2>2. \A k \in 1 .. Len(a) : Peek(i + k - 1) = a[k]
    BY <2>1
  <2>3. ASSUME NEW k \in 1 .. Len(b) PROVE Peek((i + Len(a)) + k - 1) = b[k]
    <3>1. /\ Len(a) + k \in 1 .. Len(a) + Len(b) /\ (a \o b)[Len(a) + k] = b[k]
          /\ (i + Len(a)) + k - 1 = i + (Len(a) + k) - 1
      OBVIOUS
    <3>2. QED
      BY <2>1, <3>1
  <2>4. DOMAIN a = 1 .. Len(a) /\ DOMAIN b = 1 .. Len(b)
    OBVIOUS
  <2>5. QED
    BY <2>2, <2>3, <2>4 DEF Reads
<1>2. ASSUME Reads(i, a), Reads(i + Len(a), b) PROVE Reads(i, a \o b)
  <2>1. \A k \in 1 .. Len(a) : Peek(i + k - 1) = a[k]
    BY <1>2 DEF Reads
  <2>2. \A k \in 1 .. Len(b) : Peek((i + Len(a)) + k - 1) = b[k]
    BY <1>2 DEF Reads
  <2>3. ASSUME NEW k \in 1 .. Len(a) + Len(b) PROVE Peek(i + k - 1) = (a \o b)[k]
    <3>1. CASE k <= Len(a)
      BY <2>1, <3>1
    <3>2. CASE k > Len(a)
      <4>1. k - Len(a) \in 1 .. Len(b) /\ (i + Len(a)) + (k - Len(a)) - 1 = i + k - 1
        BY <3>2
      <4>2. (a \o b)[k] = b[k - Len(a)]
        BY <3>2
      <4>3. QED
        BY <2>2, <4>1, <4>2
    <3>3. QED
      BY <3>1, <3>2
  <2>4. DOMAIN (a \o b) = 1 .. Len(a) + Len(b)
    OBVIOUS
  <2>5. QED
    BY <2>3, <2>4 DEF Reads
<1>3. QED
  BY <1>1, <1>2

LEMMA ReadsTuple ==
  ASSUME NEW i \in Nat
  PROVE  /\ \A a \in Kinds : Reads(i, <<a>>) <=>
              Peek(i) = a
         /\ \A a, b \in Kinds : Reads(i, <<a, b>>) <=>
              Peek(i) = a /\ Peek(i + 1) = b
         /\ \A a, b, c \in Kinds : Reads(i, <<a, b, c>>) <=>
              Peek(i) = a /\ Peek(i + 1) = b /\ Peek(i + 2) = c
         /\ \A a, b, c, d \in Kinds : Reads(i, <<a, b, c, d>>) <=>
              Peek(i) = a /\ Peek(i + 1) = b /\ Peek(i + 2) = c /\ Peek(i + 3) = d
         /\ Reads(i, <<>>)
<1>1. ASSUME NEW a \in Kinds
      PROVE  Reads(i, <<a>>) <=>
               Peek(i) = a
  <2> DEFINE t == <<a>>
  <2>1. DOMAIN t = 1 .. 1 /\ t[1] = a
    OBVIOUS
  <2> HIDE DEF t
  <2>2. Reads(i, t) <=>
          Peek(i + 1 - 1) = a
    BY <2>1 DEF Reads
  <2>3. i + 1 - 1 = i
    OBVIOUS
  <2>4. QED
    BY <2>2, <2>3 DEF t
<1>2. ASSUME NEW a \in Kinds, NEW b \in Kinds
      PROVE  Reads(i, <<a, b>>) <=>
               Peek(i) = a /\ Peek(i + 1) = b
  <2> DEFINE t == <<a, b>>
  <2>1. DOMAIN t = 1 .. 2 /\ t[1] = a /\ t[2] = b
    OBVIOUS
  <2> HIDE DEF t
  <2>2. Reads(i, t) <=>
          Peek(i + 1 - 1) = a /\ Peek(i + 2 - 1) = b
    BY <2>1 DEF Reads
  <2>3. i + 1 - 1 = i /\ i + 2 - 1 = i + 1
    OBVIOUS
  <2>4. QED
    BY <2>2, <2>3 DEF t
<1>3. ASSUME NEW a \in Kinds, NEW b \in Kinds, NEW c \in Kinds
      PROVE  Reads(i, <<a, b, c>>) <=>
               Peek(i) = a /\ Peek(i + 1) = b /\ Peek(i + 2) = c
  <2> DEFINE t == <<a, b, c>>
  <2>1. DOMAIN t = 1 .. 3 /\ t[1] = a /\ t[2] = b /\ t[3] = c
    OBVIOUS
  <2> HIDE DEF t
  <2>2. Reads(i, t) <=>
          Peek(i + 1 - 1) = a /\ Peek(i + 2 - 1) = b /\ Peek(i + 3 - 1) = c
    BY <2>1 DEF Reads
  <2>3. i + 1 - 1 = i /\ i + 2 - 1 = i + 1 /\ i + 3 - 1 = i + 2
    OBVIOUS
  <2>4. QED
    BY <2>2, <2>3 DEF t
<1>4. ASSUME NEW a \in Kinds, NEW b \in Kinds, NEW c \in Kinds, NEW d \in Kinds
      PROVE  Reads(i, <<a, b, c, d>>) <=>
               Peek(i) = a /\ Peek(i + 1) = b /\ Peek(i + 2) = c /\ Peek(i + 3) = d
  <2> DEFINE t == <<a, b, c, d>>
  <2>1. DOMAIN t = 1 .. 4 /\ t[1] = a /\ t[2] = b /\ t[3] = c /\ t[4] = d
    OBVIOUS
  <2> HIDE DEF t
  <2>2. Reads(i, t) <=>
          Peek(i + 1 - 1) = a /\ Peek(i + 2 - 1) = b /\ Peek(i + 3 - 1) = c
          /\ Peek(i + 4 - 1) = d
    BY <2>1 DEF Reads
  <2>3. i + 1 - 1 = i /\ i + 2 - 1 = i + 1 /\ i + 3 - 1 = i + 2 /\ i + 4 - 1 = i + 3
    OBVIOUS
  <2>4. QED
    BY <2>2, <2>3 DEF t
<1>5. Reads(i, <<>>)
  BY DEF Reads
<1>6. QED
  BY <1>1, <1>2, <1>3, <1>4, <1>5, Zenon

LEMMA Reads5 ==
  ASSUME NEW i \in Nat, NEW t, DOMAIN t = 1 .. 5
  PROVE  Reads(i, t) <=>
           /\ Peek(i) = t[1] /\ Peek(i + 1) = t[2] /\ Peek(i + 2) = t[3]
           /\ Peek(i + 3) = t[4] /\ Peek(i + 4) = t[5]
<1>1. /\ i + 1 - 1 = i /\ i + 2 - 1 = i + 1 /\ i + 3 - 1 = i + 2 /\ i + 4 - 1 = i + 3
      /\ i + 5 - 1 = i + 4
  OBVIOUS
<1>2. Reads(i, t) <=>
        /\ Peek(i + 1 - 1) = t[1] /\ Peek(i + 2 - 1) = t[2] /\ Peek(i + 3 - 1) = t[3]
        /\ Peek(i + 4 - 1) = t[4] /\ Peek(i + 5 - 1) = t[5]
  BY DEF Reads
<1>3. QED
  BY <1>1, <1>2

LEMMA Reads6 ==
  ASSUME NEW i \in Nat, NEW t, DOMAIN t = 1 .. 6
  PROVE  Reads(i, t) <=>
           /\ Peek(i) = t[1] /\ Peek(i + 1) = t[2] /\ Peek(i + 2) = t[3]
           /\ Peek(i + 3) = t[4] /\ Peek(i + 4) = t[5] /\ Peek(i + 5) = t[6]
<1>1. /\ i + 1 - 1 = i /\ i + 2 - 1 = i + 1 /\ i + 3 - 1 = i + 2 /\ i + 4 - 1 = i + 3
      /\ i + 5 - 1 = i + 4 /\ i + 6 - 1 = i + 5
  OBVIOUS
<1>2. Reads(i, t) <=>
        /\ Peek(i + 1 - 1) = t[1] /\ Peek(i + 2 - 1) = t[2] /\ Peek(i + 3 - 1) = t[3]
        /\ Peek(i + 4 - 1) = t[4] /\ Peek(i + 5 - 1) = t[5] /\ Peek(i + 6 - 1) = t[6]
  BY DEF Reads
<1>3. QED
  BY <1>1, <1>2

LEMMA Reads7 ==
  ASSUME NEW i \in Nat, NEW t, DOMAIN t = 1 .. 7
  PROVE  Reads(i, t) <=>
           /\ Peek(i) = t[1] /\ Peek(i + 1) = t[2] /\ Peek(i + 2) = t[3]
           /\ Peek(i + 3) = t[4] /\ Peek(i + 4) = t[5] /\ Peek(i + 5) = t[6]
           /\ Peek(i + 6) = t[7]
<1>1. /\ i + 1 - 1 = i /\ i + 2 - 1 = i + 1 /\ i + 3 - 1 = i + 2 /\ i + 4 - 1 = i + 3
      /\ i + 5 - 1 = i + 4 /\ i + 6 - 1 = i + 5 /\ i + 7 - 1 = i + 6
  OBVIOUS
<1>2. Reads(i, t) <=>
        /\ Peek(i + 1 - 1) = t[1] /\ Peek(i + 2 - 1) = t[2] /\ Peek(i + 3 - 1) = t[3]
        /\ Peek(i + 4 - 1) = t[4] /\ Peek(i + 5 - 1) = t[5] /\ Peek(i + 6 - 1) = t[6]
        /\ Peek(i + 7 - 1) = t[7]
  BY DEF Reads
<1>3. QED
  BY <1>1, <1>2

LEMMA PeekKind ==
  ASSUME text \in Seq(Kinds), NEW i \in Nat
  PROVE  /\ Peek(i) \in Kinds => i < Len(text) /\ text[i + 1] = Peek(i)
         /\ i < Len(text) => Peek(i) \in Kinds /\ Peek(i) = text[i + 1]
         /\ Peek(i) = "eof" <=> i >= Len(text)
         /\ Peek(i) \in Kinds \cup {"eof"}
<1>0. "eof" \notin Kinds
  BY KindList, Zenon
<1>1. CASE i < Len(text)
  <2>1. Peek(i) = text[i + 1] /\ text[i + 1] \in Kinds
    BY <1>1 DEF Peek
  <2>2. QED
    BY <1>0, <1>1, <2>1
<1>2. CASE ~(i < Len(text))
  <2>1. Peek(i) = "eof"
    BY <1>2 DEF Peek
  <2>2. QED
    BY <1>0, <1>2, <2>1
<1>3. QED
  BY <1>1, <1>2

-----------------------------------------------------------------------------
(* The nodes that are built are those the text is written with             *)

AnyStage == {"new", "written", "edited", "parse", "parsed", "failed"}

\* x is the text up to i.
Starts(x, i) == x \in Seq(Kinds) /\ Len(x) = i /\ \A j \in 1 .. i : text[j] = x[j]

SoundType ==
  /\ text \in Seq(Kinds) /\ at \in 0 .. Len(text) /\ stage \in AnyStage
  /\ built \in Seq(NodeType) /\ semicolons \subseteq Endings(built)
  /\ edited \in BOOLEAN /\ program \in Seq(NodeType)
SoundTree ==
  /\ open = Opn(built, Len(built))
  /\ Starts(Txt(built, semicolons, Len(built)), at)
  /\ \A n \in DOMAIN built : Fits(built[n], Opn(built, n - 1))
SoundStage ==
  /\ stage \in {"new", "written", "edited"} =>
       built = <<>> /\ at = 0 /\ open = <<>> /\ semicolons = {}
  /\ stage = "parsed" => open = <<>> /\ at = Len(text)
Sound == SoundType /\ SoundTree /\ SoundStage

LEMMA EndingsAre ==
  ASSUME NEW t
  PROVE  Endings(t) = {n \in DOMAIN t : Completes(t[n], Opn(t, n - 1))}
  BY DEF Endings, Opn

LEMMA OpenType ==
  ASSUME Sound
  PROVE  open \in Seq(Calls)
<1>1. built \in Seq(NodeType) /\ Len(built) \in 0 .. Len(built)
  BY DEF Sound, SoundType
<1>2. QED
  BY <1>1, WrittenNode DEF Sound, SoundTree

\* The tokens of the node that comes next.
NextTokens(e) == Tokens(e, open, Opens(built, Len(built)))

\* Node e is read and put into the tree.
Puts(e) == /\ e \in NodeType /\ Fits(e, open) /\ Reads(at, NextTokens(e))
           /\ Make(e, at + Len(NextTokens(e)))

\* A tree with one node more.
LEMMA Longer ==
  ASSUME NEW t \in Seq(NodeType), NEW e \in NodeType, NEW s, NEW r,
         s \subseteq Endings(t), r = s \/ r = s \cup {Len(t) + 1}
  PROVE  /\ Append(t, e) \in Seq(NodeType) /\ Len(Append(t, e)) = Len(t) + 1
         /\ \A n \in 1 .. Len(t) : Append(t, e)[n] = t[n]
         /\ Append(t, e)[Len(t) + 1] = e
         /\ \A n \in 0 .. Len(t) : Opn(Append(t, e), n) = Opn(t, n)
         /\ Opn(Append(t, e), Len(t) + 1) = After(e, Opn(t, Len(t)))
         /\ Txt(Append(t, e), r, Len(t) + 1) =
              Txt(t, s, Len(t)) \o Tokens(e, Opn(t, Len(t)), Opens(t, Len(t))) \o Semi(r, Len(t) + 1)
<1> DEFINE L == Len(t)
           u == Append(t, e)
<1>1. /\ L \in Nat /\ u \in Seq(NodeType) /\ Len(u) = L + 1 /\ u[L + 1] = e
      /\ \A n \in 1 .. L : u[n] = t[n]
  OBVIOUS
<1>2. s \subseteq 1 .. L
  BY EndingsAre
<1> HIDE DEF L, u
<1>3. \A k \in 1 .. L : t[k] = u[k] /\ (k \in s <=> k \in r)
  BY <1>1, <1>2 DEF L
<1>4. L <= Len(t) /\ L <= Len(u)
  BY <1>1 DEF L
<1>5. \A n \in 0 .. L : Txt(t, s, n) = Txt(u, r, n) /\ Opn(t, n) = Opn(u, n)
  BY <1>1, <1>3, <1>4, SamePrefix
<1>6. L + 1 \in 1 .. Len(u) /\ (L + 1) - 1 = L /\ L \in 0 .. L
  BY <1>1
<1>7. /\ Txt(u, r, L + 1) = Txt(u, r, L) \o TokensAt(u, L + 1) \o Semi(r, L + 1)
      /\ Opn(u, L + 1) = After(u[L + 1], Opn(u, L))
  <2>1. /\ Txt(u, r, L + 1) = Txt(u, r, (L + 1) - 1) \o TokensAt(u, L + 1) \o Semi(r, L + 1)
        /\ Opn(u, L + 1) = After(u[L + 1], Opn(u, (L + 1) - 1))
    BY <1>1, <1>6, WrittenNode, Zenon
  <2>2. QED
    BY <1>6, <2>1, Zenon
<1>8. Opens(u, L) = Opens(t, L)
  <2>1. CASE L = 0
    BY <2>1 DEF Opens
  <2>2. CASE L # 0
    <3>1. u[L] = t[L]
      BY <1>1, <2>2
    <3>2. QED
      BY <3>1, Zenon DEF Opens
  <2>3. QED
    BY <2>1, <2>2
<1>9. TokensAt(u, L + 1) = Tokens(e, Opn(t, L), Opens(t, L))
  BY <1>1, <1>5, <1>6, <1>8 DEF TokensAt
<1>10. Txt(u, r, L) = Txt(t, s, L) /\ Opn(u, L) = Opn(t, L)
  BY <1>5, <1>6
<1>11. Txt(u, r, L + 1) = Txt(t, s, L) \o Tokens(e, Opn(t, L), Opens(t, L)) \o Semi(r, L + 1)
  BY <1>7, <1>9, <1>10, Zenon
<1>12. Opn(u, L + 1) = After(e, Opn(t, L))
  BY <1>1, <1>7, <1>10, Zenon
<1>13. QED
  BY <1>1, <1>5, <1>11, <1>12, Zenon DEF L, u

LEMMA ReadTokens ==
  ASSUME text \in Seq(Kinds), NEW i \in 0 .. Len(text), NEW ts \in Seq(Kinds), Reads(i, ts)
  PROVE  i + Len(ts) <= Len(text) /\ \A k \in 1 .. Len(ts) : text[i + k] = ts[k]
<1>1. ASSUME NEW k \in 1 .. Len(ts) PROVE i + k <= Len(text) /\ text[i + k] = ts[k]
  <2>1. Peek(i + k - 1) = ts[k] /\ ts[k] \in Kinds
    BY DEF Reads
  <2>2. i + k - 1 \in Nat /\ (i + k - 1) + 1 = i + k
    OBVIOUS
  <2>3. i + k - 1 < Len(text) /\ text[(i + k - 1) + 1] = ts[k]
    BY <2>1, <2>2, PeekKind
  <2>4. QED
    BY <2>2, <2>3
<1>2. CASE Len(ts) = 0
  BY <1>2
<1>3. CASE Len(ts) # 0
  <2>1. Len(ts) \in 1 .. Len(ts)
    BY <1>3
  <2>2. QED
    BY <1>1, <2>1
<1>4. QED
  BY <1>2, <1>3

LEMMA PutsSound ==
  ASSUME Sound, stage = "parse", NEW e, Puts(e)
  PROVE  Sound'
<1> DEFINE L == Len(built)
           ts == NextTokens(e)
           i == at + Len(ts)
           x == Txt(built, semicolons, L)
           y == Semi(semicolons', L + 1)
<1>1. /\ e \in NodeType /\ Fits(e, open) /\ Reads(at, ts) /\ open \in Seq(Calls)
      /\ built' = Append(built, e) /\ open' = After(e, open)
      /\ text' = text /\ stage' = stage /\ program' = program /\ edited' = edited
  BY OpenType DEF Puts, Make
<1>2. /\ text \in Seq(Kinds) /\ at \in 0 .. Len(text) /\ built \in Seq(NodeType) /\ L \in Nat
      /\ semicolons \subseteq Endings(built) /\ open = Opn(built, L)
      /\ edited \in BOOLEAN /\ program \in Seq(NodeType)
      /\ Starts(x, at) /\ \A n \in DOMAIN built : Fits(built[n], Opn(built, n - 1))
  BY DEF Sound, SoundType, SoundTree
<1>3. ts \in Seq(Kinds)
  BY <1>1, TokensCases DEF NextTokens
<1>4. i <= Len(text) /\ \A k \in 1 .. Len(ts) : text[at + k] = ts[k]
  BY <1>1, <1>2, <1>3, ReadTokens
<1>5. \/ /\ Completes(e, open) /\ Peek(i) = ";" /\ at' = i + 1
         /\ semicolons' = semicolons \cup {L + 1}
      \/ at' = i /\ semicolons' = semicolons
  BY DEF Puts, Make
<1>6. semicolons \subseteq 1 .. L
  BY <1>2, EndingsAre
<1> HIDE DEF L, ts, i, x, y
<1>7. /\ built' \in Seq(NodeType) /\ Len(built') = L + 1
      /\ \A n \in 1 .. L : built'[n] = built[n]
      /\ built'[L + 1] = e
      /\ \A n \in 0 .. L : Opn(built', n) = Opn(built, n)
      /\ Opn(built', L + 1) = After(e, open)
      /\ Txt(built', semicolons', L + 1) = x \o ts \o y
  <2>1. semicolons' = semicolons \/ semicolons' = semicolons \cup {L + 1}
    BY <1>5
  <2>2. L = Len(built) /\ ts = Tokens(e, Opn(built, L), Opens(built, L))
    BY <1>2, Zenon DEF L, ts, NextTokens
  <2>3. /\ Append(built, e) \in Seq(NodeType) /\ Len(Append(built, e)) = Len(built) + 1
        /\ \A n \in 1 .. Len(built) : Append(built, e)[n] = built[n]
        /\ Append(built, e)[Len(built) + 1] = e
        /\ \A n \in 0 .. Len(built) : Opn(Append(built, e), n) = Opn(built, n)
        /\ Opn(Append(built, e), Len(built) + 1) = After(e, Opn(built, Len(built)))
        /\ Txt(Append(built, e), semicolons', Len(built) + 1) =
             Txt(built, semicolons, Len(built))
               \o Tokens(e, Opn(built, Len(built)), Opens(built, Len(built)))
               \o Semi(semicolons', Len(built) + 1)
    <3>1. semicolons' = semicolons \/ semicolons' = semicolons \cup {Len(built) + 1}
      BY <2>1, <2>2
    <3>2. QED
      BY <1>1, <1>2, <3>1, Longer
  <2>4. QED
    BY <1>1, <1>2, <2>2, <2>3, Zenon DEF x, y
<1>8. y \in Seq(Kinds) /\ at' = i + Len(y) /\ i + Len(y) <= Len(text)
      /\ \A k \in 1 .. Len(y) : text[i + k] = y[k]
  <2>0. i \in Nat /\ L + 1 \notin semicolons
    BY <1>2, <1>3, <1>6 DEF i
  <2>1. CASE Completes(e, open) /\ Peek(i) = ";" /\ at' = i + 1 /\ semicolons' = semicolons \cup {L + 1}
    <3>1. y \in Seq(Kinds) /\ Len(y) = 1 /\ y[1] = ";"
      BY <2>1, SemiType DEF y
    <3>2. ";" \in Kinds
      BY KindList, Zenon
    <3>3. i < Len(text) /\ text[i + 1] = ";"
      BY <1>2, <2>0, <2>1, <3>2, PeekKind
    <3>4. text[i + 1] = y[1] /\ at' = i + 1
      BY <2>1, <3>1, <3>3, Zenon
    <3>5. Len(y) = 1 /\ i < Len(text) /\ y \in Seq(Kinds)
      BY <3>1, <3>3, Zenon
    <3>6. QED
      BY <1>2, <2>0, <3>4, <3>5
  <2>2. CASE at' = i /\ semicolons' = semicolons
    <3>1. y \in Seq(Kinds) /\ Len(y) = 0
      BY <2>0, <2>2, SemiType DEF y
    <3>2. QED
      BY <1>2, <1>4, <2>0, <2>2, <3>1
  <2>3. QED
    BY <1>5, <2>1, <2>2
<1>9. Starts(x \o ts \o y, i + Len(y))
  <2>1. x \in Seq(Kinds) /\ Len(x) = at /\ \A j \in 1 .. at : text[j] = x[j]
    BY <1>2 DEF Starts
  <2>2. x \o ts \o y \in Seq(Kinds) /\ Len(x \o ts \o y) = i + Len(y)
    <3>1. \A a, b, c \in Seq(Kinds) : /\ a \o b \o c \in Seq(Kinds)
                                      /\ Len(a \o b \o c) = Len(a) + Len(b) + Len(c)
      OBVIOUS
    <3>2. /\ x \o ts \o y \in Seq(Kinds)
          /\ Len(x \o ts \o y) = Len(x) + Len(ts) + Len(y)
      BY <1>3, <1>8, <2>1, <3>1, Zenon
    <3>3. QED
      BY <2>1, <3>2 DEF i
  <2>3. ASSUME NEW j \in 1 .. i + Len(y) PROVE text[j] = (x \o ts \o y)[j]
    <3>0. at \in Nat /\ i = at + Len(ts) /\ i \in Nat /\ Len(ts) \in Nat /\ Len(y) \in Nat
      BY <1>2, <1>3, <1>8 DEF i
    <3>1. CASE j <= at
      <4>1. (x \o ts \o y)[j] = x[j]
        BY <1>3, <1>8, <2>1, <3>0, <3>1
      <4>2. QED
        BY <2>1, <3>0, <3>1, <4>1
    <3>2. CASE j > at /\ j <= i
      <4>1. j - at \in 1 .. Len(ts) /\ at + (j - at) = j
        BY <3>0, <3>2
      <4>2. (x \o ts \o y)[j] = ts[j - at]
        BY <1>3, <1>8, <2>1, <3>0, <3>2
      <4>3. QED
        BY <1>4, <4>1, <4>2
    <3>3. CASE j > i
      <4>1. j - i \in 1 .. Len(y) /\ i + (j - i) = j
        BY <3>0, <3>3
      <4>2. (x \o ts \o y)[j] = y[j - i]
        BY <1>3, <1>8, <2>1, <3>0, <3>3
      <4>3. QED
        BY <1>8, <4>1, <4>2
    <3>4. j <= at \/ (j > at /\ j <= i) \/ j > i
      BY <3>0
    <3>5. QED
      BY <3>1, <3>2, <3>3, <3>4, Zenon
  <2>4. QED
    BY <2>2, <2>3 DEF Starts
<1>10. semicolons' \subseteq Endings(built')
  <2>1. ASSUME NEW n \in semicolons PROVE n \in Endings(built')
    <3>1. n \in 1 .. L /\ n - 1 \in 0 .. L /\ n \in DOMAIN built' /\ n \in Endings(built)
      BY <1>2, <1>6, <1>7
    <3>2. Completes(built[n], Opn(built, n - 1))
      BY <3>1, EndingsAre
    <3>3. built'[n] = built[n] /\ Opn(built', n - 1) = Opn(built, n - 1)
      BY <1>7, <3>1
    <3>4. QED
      BY <3>1, <3>2, <3>3, EndingsAre
  <2>2. ASSUME Completes(e, open) PROVE L + 1 \in Endings(built')
    <3>1. L + 1 \in DOMAIN built' /\ (L + 1) - 1 = L /\ L \in 0 .. L
      BY <1>2, <1>7
    <3>2. built'[L + 1] = e /\ Opn(built', (L + 1) - 1) = open
      BY <1>2, <1>7, <3>1
    <3>3. QED
      BY <2>2, <3>1, <3>2, EndingsAre
  <2>3. QED
    BY <1>5, <2>1, <2>2
<1>11. \A n \in DOMAIN built' : Fits(built'[n], Opn(built', n - 1))
  <2> SUFFICES ASSUME NEW n \in 1 .. L + 1 PROVE Fits(built'[n], Opn(built', n - 1))
    BY <1>7
  <2>1. CASE n \in 1 .. L
    <3>1. n - 1 \in 0 .. L /\ n \in DOMAIN built
      BY <1>2, <2>1 DEF L
    <3>2. built'[n] = built[n] /\ Opn(built', n - 1) = Opn(built, n - 1)
      BY <1>7, <2>1, <3>1
    <3>3. QED
      BY <1>2, <3>1, <3>2
  <2>2. CASE n = L + 1
    <3>1. n - 1 = L /\ L \in 0 .. L
      BY <1>2, <2>2
    <3>2. built'[n] = e /\ Opn(built', n - 1) = open
      BY <1>2, <1>7, <2>2, <3>1
    <3>3. QED
      BY <1>1, <3>2
  <2>3. QED
    BY <1>2, <2>1, <2>2
<1>12. SoundType'
  <2>1. at' \in 0 .. Len(text)
    BY <1>2, <1>3, <1>8 DEF i
  <2>2. QED
    BY <1>1, <1>2, <1>7, <1>10, <2>1 DEF SoundType, AnyStage
<1>13. SoundTree'
  <2>1. open' = Opn(built', Len(built')) /\ Txt(built', semicolons', Len(built')) = x \o ts \o y
    BY <1>1, <1>7
  <2>2. Starts(Txt(built, semicolons, Len(built)), at)'
    BY <1>1, <1>8, <1>9, <2>1, Zenon DEF Starts
  <2>3. QED
    BY <1>11, <2>1, <2>2 DEF SoundTree
<1>14. QED
  BY <1>1, <1>12, <1>13 DEF Sound, SoundStage

LEMMA FitsCases ==
  ASSUME NEW e \in NodeType, NEW s
  PROVE  /\ e.kind \in {"import", "function"} =>
              (Fits(e, s) <=> s = <<>> /\ e.label = "none" /\ (e.flag => e.kind = "function"))
         /\ e.kind = "statement" =>
              (Fits(e, s) <=> Top(s) \in {"program", "function"} /\ e.label = "none")
         /\ e.kind = "end" => (Fits(e, s) <=> Top(s) \in {"function", "call", "map"} /\ e = End)
         /\ e.kind \in Leaves \cup Lists =>
              (Fits(e, s) <=> e.label \in Labels(Top(s)) /\ (e.flag => e.kind = "call"))
<1>1. e.kind \in {"import", "function"} =>
        (Fits(e, s) <=> s = <<>> /\ e.label = "none" /\ (e.flag => e.kind = "function"))
  BY DEF Fits
<1>2. e.kind = "statement" =>
        (Fits(e, s) <=> Top(s) \in {"program", "function"} /\ e.label = "none")
  BY DEF Fits
<1>3. e.kind = "end" => (Fits(e, s) <=> Top(s) \in {"function", "call", "map"} /\ e = End)
  BY DEF Fits, Lists
<1>4. e.kind \in Leaves \cup Lists =>
        (Fits(e, s) <=> e.label \in Labels(Top(s)) /\ (e.flag => e.kind = "call"))
  BY DEF Fits, Leaves, Lists
<1>5. QED
  BY <1>1, <1>2, <1>3, <1>4, Zenon

LEMMA NodeFields ==
  ASSUME NEW k, NEW f, NEW l
  PROVE  Node(k, f, l).kind = k /\ Node(k, f, l).flag = f /\ Node(k, f, l).label = l
  BY DEF Node

LEMMA IsNode ==
  ASSUME NEW k \in {"import", "end", "function", "statement", "call", "map", "num", "str", "id"},
         NEW f \in BOOLEAN, NEW l \in {"none", "id", "str"}
  PROVE  Node(k, f, l) \in NodeType
  BY DEF NodeType, Node, Calls, Lists, Leaves

\* A value after what is written before it.
LEMMA PutValue ==
  ASSUME Sound, NEW e \in NodeType, e.kind \in Leaves \cup Lists, e.flag => e.kind = "call",
         e.label \in Labels(Top(open)), NEW pre \in Seq(Kinds), NextTokens(e) = pre \o Value(e),
         Reads(at, pre), Reads(at + Len(pre), Value(e)), NEW i,
         i = at + Len(pre) + Len(Value(e)), Make(e, i)
  PROVE  Puts(e)
<1>1. Value(e) \in Seq(Kinds) /\ at \in Nat
  <2>1. Value(e) \in Seq(Kinds)
    BY ValueType, Zenon
  <2>2. QED
    BY <2>1 DEF Sound, SoundType
<1>2. Reads(at, NextTokens(e))
  BY <1>1, ReadsConcat
<1>3. at + Len(NextTokens(e)) = i
  <2>1. Len(pre \o Value(e)) = Len(pre) + Len(Value(e))
    BY <1>1
  <2>2. QED
    BY <1>1, <2>1
<1>4. Fits(e, open)
  BY FitsCases
<1>5. Make(e, at + Len(NextTokens(e)))
  BY <1>3
<1>6. QED
  BY <1>2, <1>4, <1>5 DEF Puts

LEMMA ReadsPairs ==
  ASSUME NEW i \in Nat
  PROVE  /\ Reads(i, <<"id", ":">>) <=> Peek(i) = "id" /\ Peek(i + 1) = ":"
         /\ Reads(i, <<"id", "(">>) <=> Peek(i) = "id" /\ Peek(i + 1) = "("
         /\ Reads(i, <<"id", "=">>) <=> Peek(i) = "id" /\ Peek(i + 1) = "="
         /\ Reads(i, <<"}", "end">>) <=> Peek(i) = "}" /\ Peek(i + 1) = "end"
         /\ Reads(i, <<"str", ":">>) <=> Peek(i) = "str" /\ Peek(i + 1) = ":"
  BY ReadsTuple, KindList, Zenon

\* What ParsePrimaryExpression makes of the tokens at i.
LEMMA PrimaryChoice ==
  ASSUME NEW i \in Nat, NEW label, ParsePrimaryExpression(i, label)
  PROVE  /\ Peek(i) = "num" => Make(Node("num", FALSE, label), i + 1)
         /\ Peek(i) = "str" => Make(Node("str", FALSE, label), i + 1)
         /\ Peek(i) = "{" => Make(Node("map", FALSE, label), i + 1)
         /\ Reads(i, <<"id", ":">>) /\ Reads(i + 2, <<"id", "(">>) =>
              Make(Node("call", TRUE, label), i + 4)
         /\ Reads(i, <<"id", ":">>) /\ ~Reads(i + 2, <<"id", "(">>) => Fail
         /\ Reads(i, <<"id", "(">>) => Make(Node("call", FALSE, label), i + 2)
         /\ Peek(i) = "id" /\ Peek(i + 1) \notin {":", "("} => Make(Node("id", FALSE, label), i + 1)
         /\ Peek(i) \notin {"num", "str", "{", "id"} => Fail
<1> DEFINE c == Reads(i, <<"id", ":">>)
           d == Reads(i, <<"id", "(">>)
           f == Reads(i + 2, <<"id", "(">>)
           A == Make(Node(Peek(i), FALSE, label), i + 1)
           B == Make(Node("map", FALSE, label), i + 1)
           C == Make(Node("call", TRUE, label), i + 4)
           D == Make(Node("call", FALSE, label), i + 2)
           E == Make(Node("id", FALSE, label), i + 1)
<1>1. (CASE Peek(i) \in {"num", "str"} -> A
         [] Peek(i) = "{" -> B
         [] c -> (IF f THEN C ELSE Fail)
         [] d -> D
         [] Peek(i) = "id" /\ Peek(i + 1) \notin {":", "("} -> E
         [] OTHER -> Fail)
  BY Zenon DEF ParsePrimaryExpression
<1>2. (c <=> Peek(i) = "id" /\ Peek(i + 1) = ":") /\ (d <=> Peek(i) = "id" /\ Peek(i + 1) = "(")
  BY ReadsPairs, Zenon
<1>3. /\ Peek(i) = "num" => (A <=> Make(Node("num", FALSE, label), i + 1))
      /\ Peek(i) = "str" => (A <=> Make(Node("str", FALSE, label), i + 1))
  BY Zenon
<1> HIDE DEF c, d, f, A, B, C, D, E
<1>4. Peek(i) \in {"num", "str"} => A
  BY <1>1, <1>2
<1>5. Peek(i) = "{" => B
  BY <1>1, <1>2
<1>6. c => IF f THEN C ELSE Fail
  BY <1>1, <1>2
<1>7. d => D
  BY <1>1, <1>2
<1>8. Peek(i) = "id" /\ Peek(i + 1) \notin {":", "("} => E
  BY <1>1, <1>2
<1>9. Peek(i) \notin {"num", "str", "{", "id"} => Fail
  BY <1>1, <1>2
<1>10. QED
  BY <1>3, <1>4, <1>5, <1>6, <1>7, <1>8, <1>9, Zenon DEF c, d, f, B, C, D, E

LEMMA PrimaryPuts ==
  ASSUME Sound, NEW label \in {"none", "id", "str"}, label \in Labels(Top(open)),
         NEW pre \in Seq(Kinds), Reads(at, pre), NEW i, i = at + Len(pre),
         \A e \in NodeType : e.kind \in Leaves \cup Lists /\ e.label = label =>
                               NextTokens(e) = pre \o Value(e),
         ParsePrimaryExpression(i, label)
  PROVE  Fail \/ \E e : Puts(e)
<1>1. i \in Nat /\ at \in Nat /\ text \in Seq(Kinds)
  BY DEF Sound, SoundType
<1>2. ASSUME NEW k \in Leaves \cup Lists, NEW f \in BOOLEAN, f => k = "call", NEW j,
             j = at + Len(pre) + Len(Value(Node(k, f, label))),
             Reads(i, Value(Node(k, f, label))), Make(Node(k, f, label), j)
      PROVE  \E e : Puts(e)
  <2> DEFINE e == Node(k, f, label)
  <2>1. e \in NodeType
    BY IsNode DEF Leaves, Lists
  <2>2. e.kind = k /\ e.flag = f /\ e.label = label
    BY DEF Node
  <2>3. Make(e, j) /\ Reads(i, Value(e)) /\ j = at + Len(pre) + Len(Value(e))
    BY <1>2, Zenon
  <2> HIDE DEF e
  <2>4. NextTokens(e) = pre \o Value(e)
    BY <2>1, <2>2
  <2>5. /\ e.kind \in Leaves \cup Lists /\ (e.flag => e.kind = "call")
        /\ e.label \in Labels(Top(open))
    BY <1>2, <2>2, Zenon
  <2>6. Reads(at + Len(pre), Value(e))
    BY <2>3, Zenon
  <2>7. Puts(e)
    BY <2>1, <2>3, <2>4, <2>5, <2>6, PutValue, Zenon
  <2>8. QED
    BY <2>7
<1>3. ASSUME NEW k \in Leaves \cup Lists, NEW f \in BOOLEAN
      PROVE  /\ k = "map" => Value(Node(k, f, label)) = <<"{">>
             /\ k = "call" /\ f => Value(Node(k, f, label)) = <<"id", ":", "id", "(">>
             /\ k = "call" /\ ~f => Value(Node(k, f, label)) = <<"id", "(">>
             /\ k = "num" => Value(Node(k, f, label)) = <<"num">>
             /\ k = "str" => Value(Node(k, f, label)) = <<"str">>
             /\ k = "id" => Value(Node(k, f, label)) = <<"id">>
  <2> DEFINE e == Node(k, f, label)
  <2>1. e \in NodeType
    BY IsNode DEF Leaves, Lists
  <2>2. e.kind = k /\ e.flag = f
    BY DEF Node
  <2> HIDE DEF e
  <2>3. e.kind \in Leaves \cup Lists
    BY <2>2, Zenon
  <2>4. QED
    BY <2>1, <2>2, <2>3, ValueType, Zenon DEF e
<1>4. /\ Len(<<"{">>) = 1 /\ Len(<<"num">>) = 1 /\ Len(<<"str">>) = 1 /\ Len(<<"id">>) = 1
      /\ Len(<<"id", "(">>) = 2 /\ Len(<<"id", ":", "id", "(">>) = 4
  OBVIOUS
<1>5. \A n \in Nat : at + Len(pre) + n = i + n
  BY <1>1
<1>6. /\ "num" \in Leaves \cup Lists /\ "str" \in Leaves \cup Lists /\ "id" \in Leaves \cup Lists
      /\ "map" \in Leaves \cup Lists /\ "call" \in Leaves \cup Lists
      /\ 1 \in Nat /\ 2 \in Nat /\ 4 \in Nat
  BY DEF Leaves, Lists
<1>7. CASE Peek(i) = "num"
  <2>1. Make(Node("num", FALSE, label), i + 1)
    BY <1>1, <1>7, PrimaryChoice, Zenon
  <2>2. Reads(i, <<"num">>)
    BY <1>1, <1>7, ReadsTuple, KindList, Zenon
  <2>3. QED
    BY <1>2, <1>3, <1>4, <1>5, <1>6, <2>1, <2>2, Zenon
<1>8. CASE Peek(i) = "str"
  <2>1. Make(Node("str", FALSE, label), i + 1)
    BY <1>1, <1>8, PrimaryChoice, Zenon
  <2>2. Reads(i, <<"str">>)
    BY <1>1, <1>8, ReadsTuple, KindList, Zenon
  <2>3. QED
    BY <1>2, <1>3, <1>4, <1>5, <1>6, <2>1, <2>2, Zenon
<1>9. CASE Peek(i) = "{"
  <2>1. Make(Node("map", FALSE, label), i + 1)
    BY <1>1, <1>9, PrimaryChoice, Zenon
  <2>2. Reads(i, <<"{">>)
    BY <1>1, <1>9, ReadsTuple, KindList, Zenon
  <2>3. QED
    BY <1>2, <1>3, <1>4, <1>5, <1>6, <2>1, <2>2, Zenon
<1>10. CASE Reads(i, <<"id", ":">>)
  <2>1. CASE Reads(i + 2, <<"id", "(">>)
    <3>1. Make(Node("call", TRUE, label), i + 4)
      BY <1>1, <1>10, <2>1, PrimaryChoice, Zenon
    <3>2. i + 2 \in Nat /\ (i + 2) + 1 = i + 3
      BY <1>1
    <3>3. /\ Peek(i) = "id" /\ Peek(i + 1) = ":" /\ Peek(i + 2) = "id"
          /\ Peek(i + 3) = "("
      <4>1. Peek((i + 2) + 1) = "(" /\ Peek(i + 2) = "id"
        BY <2>1, <3>2, ReadsPairs, Zenon
      <4>2. Peek(i) = "id" /\ Peek(i + 1) = ":"
        BY <1>1, <1>10, ReadsPairs, Zenon
      <4>3. QED
        BY <3>2, <4>1, <4>2
    <3>4. Reads(i, <<"id", ":", "id", "(">>)
      BY <1>1, <3>3, ReadsTuple, KindList, Zenon
    <3>5. QED
      BY <1>2, <1>3, <1>4, <1>5, <1>6, <3>1, <3>4, Zenon
  <2>2. CASE ~Reads(i + 2, <<"id", "(">>)
    BY <1>1, <1>10, <2>2, PrimaryChoice, Zenon
  <2>3. QED
    BY <2>1, <2>2
<1>11. CASE Reads(i, <<"id", "(">>)
  <2>1. Make(Node("call", FALSE, label), i + 2)
    BY <1>1, <1>11, PrimaryChoice, Zenon
  <2>2. QED
    BY <1>2, <1>3, <1>4, <1>5, <1>6, <1>11, <2>1, Zenon
<1>12. CASE Peek(i) = "id" /\ Peek(i + 1) \notin {":", "("}
  <2>1. Make(Node("id", FALSE, label), i + 1)
    BY <1>1, <1>12, PrimaryChoice, Zenon
  <2>2. Reads(i, <<"id">>)
    BY <1>1, <1>12, ReadsTuple, KindList, Zenon
  <2>3. QED
    BY <1>2, <1>3, <1>4, <1>5, <1>6, <2>1, <2>2, Zenon
<1>13. CASE Peek(i) \notin {"num", "str", "{", "id"}
  BY <1>1, <1>13, PrimaryChoice, Zenon
<1>14. QED
  BY <1>1, <1>7, <1>8, <1>9, <1>10, <1>11, <1>12, <1>13, ReadsPairs, Zenon

Signature == <<"id", "(", ")", "->", "then">>

LEMMA ReadsImport ==
  ASSUME NEW i \in Nat
  PROVE  Reads(i, <<"import", "(", "str", ")", "as", "id">>) <=>
           /\ Peek(i) = "import" /\ Peek(i + 1) = "(" /\ Peek(i + 2) = "str"
           /\ Peek(i + 3) = ")" /\ Peek(i + 4) = "as" /\ Peek(i + 5) = "id"
<1> DEFINE t == <<"import", "(", "str", ")", "as", "id">>
<1>1. /\ DOMAIN t = 1 .. 6 /\ t[1] = "import" /\ t[2] = "(" /\ t[3] = "str" /\ t[4] = ")"
      /\ t[5] = "as" /\ t[6] = "id"
  OBVIOUS
<1> HIDE DEF t
<1>2. QED
  BY <1>1, Reads6 DEF t

LEMMA ReadsAfterImport ==
  ASSUME NEW i \in Nat
  PROVE  Reads(i, <<"(", "str", ")", "as", "id">>) <=>
           /\ Peek(i) = "(" /\ Peek(i + 1) = "str" /\ Peek(i + 2) = ")"
           /\ Peek(i + 3) = "as" /\ Peek(i + 4) = "id"
<1> DEFINE t == <<"(", "str", ")", "as", "id">>
<1>1. /\ DOMAIN t = 1 .. 5 /\ t[1] = "(" /\ t[2] = "str" /\ t[3] = ")" /\ t[4] = "as"
      /\ t[5] = "id"
  OBVIOUS
<1> HIDE DEF t
<1>2. QED
  BY <1>1, Reads5 DEF t

LEMMA ReadsSignature ==
  ASSUME NEW i \in Nat
  PROVE  Reads(i, <<"id", "(", ")", "->", "then">>) <=>
           /\ Peek(i) = "id" /\ Peek(i + 1) = "(" /\ Peek(i + 2) = ")" /\ Peek(i + 3) = "->"
           /\ Peek(i + 4) = "then"
<1> DEFINE t == <<"id", "(", ")", "->", "then">>
<1>1. /\ DOMAIN t = 1 .. 5 /\ t[1] = "id" /\ t[2] = "(" /\ t[3] = ")" /\ t[4] = "->"
      /\ t[5] = "then"
  OBVIOUS
<1> HIDE DEF t
<1>2. QED
  BY <1>1, Reads5 DEF t

LEMMA ReadsFunction ==
  ASSUME NEW i \in Nat
  PROVE  Reads(i, <<"id", "(", ")", "->", "then", "{">>) <=>
           /\ Peek(i) = "id" /\ Peek(i + 1) = "(" /\ Peek(i + 2) = ")" /\ Peek(i + 3) = "->"
           /\ Peek(i + 4) = "then" /\ Peek(i + 5) = "{"
<1> DEFINE t == <<"id", "(", ")", "->", "then", "{">>
<1>1. /\ DOMAIN t = 1 .. 6 /\ t[1] = "id" /\ t[2] = "(" /\ t[3] = ")" /\ t[4] = "->"
      /\ t[5] = "then" /\ t[6] = "{"
  OBVIOUS
<1> HIDE DEF t
<1>2. QED
  BY <1>1, Reads6 DEF t

LEMMA ReadsAsync ==
  ASSUME NEW i \in Nat
  PROVE  Reads(i, <<"async", "id", "(", ")", "->", "then", "{">>) <=>
           /\ Peek(i) = "async" /\ Peek(i + 1) = "id" /\ Peek(i + 2) = "("
           /\ Peek(i + 3) = ")" /\ Peek(i + 4) = "->" /\ Peek(i + 5) = "then"
           /\ Peek(i + 6) = "{"
<1> DEFINE t == <<"async", "id", "(", ")", "->", "then", "{">>
<1>1. /\ DOMAIN t = 1 .. 7 /\ t[1] = "async" /\ t[2] = "id" /\ t[3] = "(" /\ t[4] = ")"
      /\ t[5] = "->" /\ t[6] = "then" /\ t[7] = "{"
  OBVIOUS
<1> HIDE DEF t
<1>2. QED
  BY <1>1, Reads7 DEF t

LEMMA ReadsLong ==
  ASSUME NEW i \in Nat
  PROVE  /\ Reads(i, <<"import", "(", "str", ")", "as", "id">>) <=>
              Peek(i) = "import" /\ Reads(i + 1, <<"(", "str", ")", "as", "id">>)
         /\ Reads(i, <<"local", "id", "=">>) <=> Peek(i) = "local" /\ Reads(i + 1, <<"id", "=">>)
         /\ Reads(i, <<"id", "(", ")", "->", "then", "{">>) <=>
              Reads(i, Signature) /\ Peek(i + 5) = "{"
         /\ Reads(i, <<"async", "id", "(", ")", "->", "then", "{">>) <=>
              Peek(i) = "async" /\ Reads(i + 1, Signature) /\ Peek(i + 6) = "{"
         /\ Reads(i, Signature) =>
              Peek(i) = "id" /\ Peek(i + 1) = "(" /\ Peek(i + 2) = ")" /\ Peek(i + 3) = "->"
<1>2. Reads(i, <<"import", "(", "str", ")", "as", "id">>) <=>
        /\ Peek(i) = "import" /\ Peek(i + 1) = "(" /\ Peek(i + 2) = "str" /\ Peek(i + 3) = ")"
        /\ Peek(i + 4) = "as" /\ Peek(i + 5) = "id"
  BY ReadsImport, Zenon
<1> DEFINE j == i + 1
<1>1. j = i + 1 /\ j \in Nat /\ j + 1 = i + 2 /\ j + 2 = i + 3 /\ j + 3 = i + 4 /\ j + 4 = i + 5
  OBVIOUS
<1> HIDE DEF j
<1>3. Reads(j, <<"(", "str", ")", "as", "id">>) <=>
        /\ Peek(i + 1) = "(" /\ Peek(i + 2) = "str" /\ Peek(i + 3) = ")"
        /\ Peek(i + 4) = "as" /\ Peek(i + 5) = "id"
  <2>1. Reads(j, <<"(", "str", ")", "as", "id">>) <=>
          /\ Peek(j) = "(" /\ Peek(j + 1) = "str" /\ Peek(j + 2) = ")"
          /\ Peek(j + 3) = "as" /\ Peek(j + 4) = "id"
    BY <1>1, ReadsAfterImport, Zenon
  <2>2. QED
    BY <1>1, <2>1, Zenon
<1>4. Reads(i, <<"local", "id", "=">>) <=>
        Peek(i) = "local" /\ Peek(i + 1) = "id" /\ Peek(i + 2) = "="
  BY ReadsTuple, KindList, Zenon
<1>5. Reads(j, <<"id", "=">>) <=> Peek(i + 1) = "id" /\ Peek(i + 2) = "="
  <2>1. Reads(j, <<"id", "=">>) <=> Peek(j) = "id" /\ Peek(j + 1) = "="
    BY <1>1, ReadsPairs, Zenon
  <2>2. QED
    BY <1>1, <2>1, Zenon
<1>6. Reads(i, Signature) <=>
        /\ Peek(i) = "id" /\ Peek(i + 1) = "(" /\ Peek(i + 2) = ")" /\ Peek(i + 3) = "->"
        /\ Peek(i + 4) = "then"
  BY ReadsSignature, Zenon DEF Signature
<1>7. Reads(j, Signature) <=>
        /\ Peek(i + 1) = "id" /\ Peek(i + 2) = "(" /\ Peek(i + 3) = ")" /\ Peek(i + 4) = "->"
        /\ Peek(i + 5) = "then"
  <2>1. Reads(j, Signature) <=>
          /\ Peek(j) = "id" /\ Peek(j + 1) = "(" /\ Peek(j + 2) = ")"
          /\ Peek(j + 3) = "->" /\ Peek(j + 4) = "then"
    BY <1>1, ReadsSignature, Zenon DEF Signature
  <2>2. QED
    BY <1>1, <2>1, Zenon
<1>8. Reads(i, <<"id", "(", ")", "->", "then", "{">>) <=>
        /\ Peek(i) = "id" /\ Peek(i + 1) = "(" /\ Peek(i + 2) = ")" /\ Peek(i + 3) = "->"
        /\ Peek(i + 4) = "then" /\ Peek(i + 5) = "{"
  BY ReadsFunction, Zenon
<1>9. Reads(i, <<"async", "id", "(", ")", "->", "then", "{">>) <=>
        /\ Peek(i) = "async" /\ Peek(i + 1) = "id" /\ Peek(i + 2) = "(" /\ Peek(i + 3) = ")"
        /\ Peek(i + 4) = "->" /\ Peek(i + 5) = "then" /\ Peek(i + 6) = "{"
  BY ReadsAsync, Zenon
<1>10. QED
  BY <1>2, <1>3, <1>4, <1>5, <1>6, <1>7, <1>8, <1>9, Zenon DEF j

LEMMA SpelledLength ==
  /\ Len(<<"import", "(", "str", ")", "as", "id">>) = 6
  /\ Len(<<"async", "id", "(", ")", "->", "then", "{">>) = 7
  /\ Len(<<"id", "(", ")", "->", "then", "{">>) = 6
  /\ Len(<<"local", "id", "=">>) = 3
  /\ Len(<<"}", "end">>) = 2 /\ Len(<<")">>) = 1 /\ Len(<<"}">>) = 1 /\ Len(<<",">>) = 1
  /\ Len(<<"id", ":">>) = 2 /\ Len(<<"str", ":">>) = 2 /\ Len(<<>>) = 0
  /\ Len(<<"{">>) = 1 /\ Len(<<"num">>) = 1 /\ Len(<<"str">>) = 1 /\ Len(<<"id">>) = 1
  /\ Len(<<"id", "(">>) = 2 /\ Len(<<"id", ":", "id", "(">>) = 4
  OBVIOUS

LEMMA PutNode ==
  ASSUME NEW e \in NodeType, Fits(e, open), NEW ts, NextTokens(e) = ts, Reads(at, ts),
         NEW i, i = at + Len(ts), Make(e, i)
  PROVE  Puts(e)
  BY Zenon DEF Puts

LEMMA StatementPuts ==
  ASSUME Sound, Top(open) \in {"program", "function"}, ParseStatement
  PROVE  Fail \/ \E e : Puts(e)
<1>1. at \in Nat /\ open \in Seq(Calls) /\ at + 0 = at
  BY OpenType DEF Sound, SoundType
<1> DEFINE e(f) == Node("statement", f, "none")
<1>2. ASSUME NEW f \in BOOLEAN
      PROVE  e(f) \in NodeType /\ e(f).kind = "statement" /\ e(f).label = "none" /\ e(f).flag = f
  BY IsNode DEF Node
<1>3. CASE Peek(at) # "local"
  <2>1. Make(e(FALSE), at)
    BY <1>3, Zenon DEF ParseStatement
  <2> HIDE DEF e
  <2>2. Fits(e(FALSE), open)
    BY <1>2, FitsCases, Zenon
  <2>3. NextTokens(e(FALSE)) = <<>>
    BY <1>1, <1>2, TokensCases, Zenon DEF NextTokens
  <2>4. Reads(at, <<>>) /\ at = at + Len(<<>>)
    BY <1>1, ReadsTuple, SpelledLength, Zenon
  <2>5. QED
    BY <1>2, <2>1, <2>2, <2>3, <2>4, PutNode, Zenon
<1>4. CASE Peek(at) = "local" /\ Reads(at + 1, <<"id", "=">>)
  <2>1. Make(e(TRUE), at + 3)
    BY <1>4, Zenon DEF ParseStatement
  <2> HIDE DEF e
  <2>2. Fits(e(TRUE), open)
    BY <1>2, FitsCases, Zenon
  <2>3. NextTokens(e(TRUE)) = <<"local", "id", "=">>
    BY <1>1, <1>2, TokensCases, Zenon DEF NextTokens
  <2>4. Reads(at, <<"local", "id", "=">>) /\ at + 3 = at + Len(<<"local", "id", "=">>)
    BY <1>1, <1>4, ReadsLong, SpelledLength, Zenon
  <2>5. QED
    BY <1>2, <2>1, <2>2, <2>3, <2>4, PutNode, Zenon
<1>5. CASE Peek(at) = "local" /\ ~Reads(at + 1, <<"id", "=">>)
  BY <1>5, Zenon DEF ParseStatement
<1>6. QED
  BY <1>3, <1>4, <1>5

LEMMA EndNode ==
  End \in NodeType /\ End.kind = "end" /\ End = Node("end", FALSE, "none")
  BY IsNode DEF End, Node

LEMMA EndTokens ==
  ASSUME Sound
  PROVE  /\ Top(open) = "call" => NextTokens(End) = <<")">>
         /\ Top(open) = "map" => NextTokens(End) = <<"}">>
         /\ Top(open) = "function" => NextTokens(End) = <<"}", "end">>
<1>1. open \in Seq(Calls) /\ "function" \notin Lists
  BY OpenType DEF Lists
<1>2. QED
  BY <1>1, EndNode, TokensCases, Zenon DEF NextTokens

LEMMA EndPuts ==
  ASSUME Top(open) \in {"function", "call", "map"}, NEW ts, NextTokens(End) = ts,
         Reads(at, ts), NEW i, i = at + Len(ts), Make(End, i)
  PROVE  Puts(End)
<1>1. Fits(End, open)
  BY EndNode, FitsCases, Zenon
<1>2. QED
  BY <1>1, EndNode, PutNode, Zenon

LEMMA LabelsAre ==
  /\ Labels("statement") = {"none"} /\ Labels("call") = {"none", "id"}
  /\ Labels("map") = {"str", "id"} /\ Labels("program") = {} /\ Labels("function") = {}
  BY DEF Labels

\* The comma, and what comes after it.
LEMMA PartPuts ==
  ASSUME Sound, NEW c, c = Comma(open, Opens(built, Len(built))), Reads(at, c), NEW i,
         i = at + Len(c), NEW label \in {"none", "id", "str"}, label \in Labels(Top(open)),
         NEW j, label = "none" => j = i,
         label # "none" => Reads(i, <<label, ":">>) /\ j = i + 2,
         ParsePrimaryExpression(j, label)
  PROVE  Fail \/ \E e : Puts(e)
<1> DEFINE l == IF label = "none" THEN <<>> ELSE <<label, ":">>
           pre == c \o l
<1>1. at \in Nat /\ open \in Seq(Calls)
  BY OpenType DEF Sound, SoundType
<1>2. c \in Seq(Kinds)
  BY Spelled, Zenon DEF Comma
<1>3. /\ label = "none" => l = <<>>
      /\ label = "id" => l = <<"id", ":">>
      /\ label = "str" => l = <<"str", ":">>
  OBVIOUS
<1>4. i \in Nat
  BY <1>1, <1>2
<1>5. l \in Seq(Kinds) /\ Reads(i, l) /\ j = i + Len(l)
  <2>1. CASE label = "none"
    <3>1. i + 0 = i
      BY <1>4
    <3>2. QED
      BY <1>3, <1>4, <2>1, <3>1, Spelled, ReadsTuple, SpelledLength, Zenon
  <2>2. CASE label = "id"
    BY <1>3, <2>2, Spelled, SpelledLength, Zenon
  <2>3. CASE label = "str"
    BY <1>3, <2>3, Spelled, SpelledLength, Zenon
  <2>4. QED
    BY <2>1, <2>2, <2>3
<1>6. \A e \in NodeType : e.kind \in Leaves \cup Lists /\ e.label = label =>
                            NextTokens(e) = pre \o Value(e)
  <2> SUFFICES ASSUME NEW e \in NodeType, e.kind \in Leaves \cup Lists, e.label = label
               PROVE  NextTokens(e) = pre \o Value(e)
    BY Zenon
  <2>1. NextTokens(e) = c \o Label(e) \o Value(e)
    BY <1>1, TokensCases, Zenon DEF NextTokens
  <2>2. Label(e) = l
    BY Zenon DEF Label
  <2>3. QED
    BY <2>1, <2>2, Zenon
<1> HIDE DEF l
<1>7. pre \in Seq(Kinds) /\ Len(pre) = Len(c) + Len(l)
  BY <1>2, <1>5
<1>8. Reads(at, pre)
  BY <1>1, <1>2, <1>5, ReadsConcat
<1>9. j = at + Len(pre)
  BY <1>1, <1>2, <1>5, <1>7
<1> HIDE DEF pre
<1>10. QED
  BY <1>6, <1>7, <1>8, <1>9, PrimaryPuts, Zenon

LEMMA ArgumentPuts ==
  ASSUME Sound, Top(open) = "call", NEW c, c = Comma(open, Opens(built, Len(built))),
         Reads(at, c), NEW i \in Nat, i = at + Len(c), ParseArgument(i)
  PROVE  Fail \/ \E e : Puts(e)
<1>1. CASE Reads(i, <<"id", ":">>)
  <2>1. ParsePrimaryExpression(i + 2, "id")
    BY <1>1, Zenon DEF ParseArgument
  <2>2. "id" \in Labels(Top(open)) /\ "id" \in {"none", "id", "str"} /\ "id" # "none"
    BY LabelsAre
  <2>3. QED
    BY <1>1, <2>1, <2>2, PartPuts, Zenon
<1>2. CASE ~Reads(i, <<"id", ":">>)
  <2>1. ParsePrimaryExpression(i, "none")
    BY <1>2, Zenon DEF ParseArgument
  <2>2. "none" \in Labels(Top(open)) /\ "none" \in {"none", "id", "str"}
    BY LabelsAre
  <2>3. QED
    BY <2>1, <2>2, PartPuts, Zenon
<1>3. QED
  BY <1>1, <1>2

LEMMA EntryPuts ==
  ASSUME Sound, Top(open) = "map", NEW c, c = Comma(open, Opens(built, Len(built))),
         Reads(at, c), NEW i \in Nat, i = at + Len(c), ParseEntry(i)
  PROVE  Fail \/ \E e : Puts(e)
<1>1. CASE Peek(i) \in {"str", "id"} /\ Peek(i + 1) = ":"
  <2>1. ParsePrimaryExpression(i + 2, Peek(i))
    BY <1>1, Zenon DEF ParseEntry
  <2>2. Peek(i) \in Labels(Top(open)) /\ Peek(i) \in {"none", "id", "str"} /\ Peek(i) # "none"
    BY <1>1, LabelsAre
  <2>3. Reads(i, <<Peek(i), ":">>)
    BY <1>1, ReadsPairs, Zenon
  <2>4. QED
    BY <2>1, <2>2, <2>3, PartPuts, Zenon
<1>2. CASE ~(Peek(i) \in {"str", "id"} /\ Peek(i + 1) = ":")
  BY <1>2, Zenon DEF ParseEntry
<1>3. QED
  BY <1>1, <1>2

LEMMA ValuePuts ==
  ASSUME Sound, ParseValue
  PROVE  Fail \/ \E e : Puts(e)
<1>1. Top(open) = "statement" /\ ParsePrimaryExpression(at, "none") /\ at \in Nat
  BY DEF ParseValue, Sound, SoundType
<1>2. "statement" \notin Lists /\ "none" \in {"none", "id", "str"} /\ "none" \in Labels("statement")
  BY LabelsAre DEF Lists
<1>3. Comma(open, Opens(built, Len(built))) = <<>>
  BY <1>1, <1>2, Zenon DEF Comma
<1>4. Reads(at, <<>>) /\ at = at + Len(<<>>)
  BY <1>1, ReadsTuple, SpelledLength
<1>5. QED
  BY <1>1, <1>2, <1>3, <1>4, PartPuts, Zenon

LEMMA ImportPuts ==
  ASSUME Sound, open = <<>>, Peek(at) = "import", ParseImportDeclaration
  PROVE  Fail \/ \E e : Puts(e)
<1> DEFINE e == Node("import", FALSE, "none")
           ts == <<"import", "(", "str", ")", "as", "id">>
<1>1. at \in Nat /\ open \in Seq(Calls)
  BY OpenType DEF Sound, SoundType
<1>2. e \in NodeType /\ e.kind = "import" /\ e.label = "none" /\ e.flag = FALSE
  BY IsNode DEF Node
<1>3. CASE Reads(at + 1, <<"(", "str", ")", "as", "id">>)
  <2>1. Make(e, at + 6)
    BY <1>3, Zenon DEF ParseImportDeclaration
  <2> HIDE DEF e
  <2>2. Fits(e, open)
    BY <1>2, FitsCases, Zenon
  <2>3. NextTokens(e) = ts
    BY <1>1, <1>2, TokensCases, Zenon DEF NextTokens
  <2>4. Reads(at, ts) /\ at + 6 = at + Len(ts)
    BY <1>1, <1>3, ReadsLong, SpelledLength, Zenon
  <2>5. QED
    BY <1>2, <2>1, <2>2, <2>3, <2>4, PutNode, Zenon
<1>4. CASE ~Reads(at + 1, <<"(", "str", ")", "as", "id">>)
  BY <1>4, Zenon DEF ParseImportDeclaration
<1>5. QED
  BY <1>3, <1>4

LEMMA FunctionPuts ==
  ASSUME Sound, open = <<>>, IsFunctionDeclarationStart(at), ParseFunctionDeclaration
  PROVE  Fail \/ \E e : Puts(e)
<1> DEFINE e(f) == Node("function", f, "none")
<1>1. at \in Nat /\ open \in Seq(Calls)
  BY OpenType DEF Sound, SoundType
<1>2. ASSUME NEW f \in BOOLEAN
      PROVE  e(f) \in NodeType /\ e(f).kind = "function" /\ e(f).label = "none" /\ e(f).flag = f
  BY IsNode DEF Node
<1>3. CASE Peek(at) = "async"
  <2> DEFINE ts == <<"async", "id", "(", ")", "->", "then", "{">>
  <2>0. /\ Reads(at + 1, Signature)
        /\ (at + 1) + 5 = at + 6 /\ ((at + 1) + 5) + 1 = at + 7
    BY <1>1, <1>3 DEF IsFunctionDeclarationStart, Signature
  <2>1. IF Peek((at + 1) + 5) = "{" THEN Make(e(TRUE), ((at + 1) + 5) + 1) ELSE Fail
    BY <1>3 DEF ParseFunctionDeclaration
  <2>2. CASE Peek(at + 6) = "{"
    <3>1. Make(e(TRUE), at + 7)
      BY <2>0, <2>1, <2>2
    <3> HIDE DEF e
    <3>2. Fits(e(TRUE), open)
      BY <1>2, FitsCases, Zenon
    <3>3. NextTokens(e(TRUE)) = ts
      BY <1>1, <1>2, TokensCases, Zenon DEF NextTokens
    <3>4. Reads(at, ts) /\ at + 7 = at + Len(ts)
      BY <1>1, <1>3, <2>0, <2>2, ReadsLong, SpelledLength, Zenon
    <3>5. QED
      BY <1>2, <3>1, <3>2, <3>3, <3>4, PutNode, Zenon
  <2>3. QED
    BY <2>0, <2>1, <2>2
<1>4. CASE Peek(at) # "async"
  <2> DEFINE ts == <<"id", "(", ")", "->", "then", "{">>
  <2>0. Reads(at, Signature) /\ (at + 5) + 1 = at + 6
    BY <1>1, <1>4 DEF IsFunctionDeclarationStart, Signature
  <2>1. IF Peek(at + 5) = "{" THEN Make(e(FALSE), (at + 5) + 1) ELSE Fail
    BY <1>4 DEF ParseFunctionDeclaration
  <2>2. CASE Peek(at + 5) = "{"
    <3>1. Make(e(FALSE), at + 6)
      BY <2>0, <2>1, <2>2
    <3> HIDE DEF e
    <3>2. Fits(e(FALSE), open)
      BY <1>2, FitsCases, Zenon
    <3>3. NextTokens(e(FALSE)) = ts
      BY <1>1, <1>2, TokensCases, Zenon DEF NextTokens
    <3>4. Reads(at, ts) /\ at + 6 = at + Len(ts)
      BY <1>1, <2>0, <2>2, ReadsLong, SpelledLength, Zenon
    <3>5. QED
      BY <1>2, <3>1, <3>2, <3>3, <3>4, PutNode, Zenon
  <2>3. QED
    BY <2>0, <2>1, <2>2
<1>5. QED
  BY <1>3, <1>4

LEMMA ReadsOne ==
  ASSUME NEW i \in Nat
  PROVE  /\ Reads(i, <<",">>) <=> Peek(i) = ","
         /\ Reads(i, <<")">>) <=> Peek(i) = ")"
         /\ Reads(i, <<"}">>) <=> Peek(i) = "}"
         /\ Reads(i, <<"{">>) <=> Peek(i) = "{"
         /\ Reads(i, <<"num">>) <=> Peek(i) = "num"
         /\ Reads(i, <<"str">>) <=> Peek(i) = "str"
         /\ Reads(i, <<"id">>) <=> Peek(i) = "id"
  BY ReadsTuple, KindList, Zenon

\* The comma of a list.
LEMMA ListComma ==
  ASSUME Sound, Top(open) \in Lists, NEW first \in BOOLEAN
  PROVE  /\ first => Comma(open, first) = <<>>
         /\ ~first => Comma(open, first) = <<",">>
  BY Zenon DEF Comma

Finish == /\ stage' = "parsed" /\ Peek(at) = "eof" /\ open = <<>>
          /\ UNCHANGED <<program, text, edited, at, open, built, semicolons>>

LEMMA CallPuts ==
  ASSUME Sound, ParseCallExpression
  PROVE  Fail \/ \E e : Puts(e)
<1> DEFINE first == Opens(built, Len(built))
           c == Comma(open, first)
<1>1. /\ Top(open) = "call"
      /\ \/ first /\ Peek(at) # ")" /\ ParseArgument(at)
         \/ ~first /\ Peek(at) = "," /\ ParseArgument(at + 1)
         \/ Peek(at) = ")" /\ Make(End, at + 1)
         \/ ~first /\ Peek(at) \notin {",", ")"} /\ Fail
  BY Zenon DEF ParseCallExpression, ParseList
<1>2. at \in Nat /\ at + 1 \in Nat /\ at + 0 = at
  BY DEF Sound, SoundType
<1>3. Top(open) \in Lists /\ first \in BOOLEAN
  BY <1>1 DEF Lists, Opens
<1>4. (first => c = <<>>) /\ (~first => c = <<",">>)
  BY <1>3, ListComma, Zenon
<1> HIDE DEF first
<1>5. CASE first /\ ParseArgument(at)
  <2>1. Reads(at, c) /\ at = at + Len(c)
    BY <1>2, <1>4, <1>5, ReadsTuple, SpelledLength, Zenon
  <2>2. QED
    BY <1>1, <1>2, <1>5, <2>1, ArgumentPuts, Zenon DEF first
<1>6. CASE ~first /\ Peek(at) = "," /\ ParseArgument(at + 1)
  <2>1. Reads(at, c) /\ at + 1 = at + Len(c)
    <3>1. Reads(at, <<",">>)
      BY <1>2, <1>6, ReadsOne, Zenon
    <3>2. c = <<",">>
      BY <1>4, <1>6, Zenon
    <3>3. QED
      BY <3>1, <3>2, SpelledLength, Zenon
  <2>2. QED
    BY <1>1, <1>2, <1>6, <2>1, ArgumentPuts, Zenon DEF first
<1>7. CASE Peek(at) = ")" /\ Make(End, at + 1)
  <2>1. Reads(at, <<")">>) /\ at + 1 = at + Len(<<")">>)
    BY <1>2, <1>7, ReadsOne, SpelledLength, Zenon
  <2>2. Puts(End)
    <3>1. /\ Make(End, at + 1) /\ Top(open) \in {"function", "call", "map"}
          /\ NextTokens(End) = <<")">>
      BY <1>1, <1>7, EndTokens, Zenon
    <3>2. QED
      BY <2>1, <3>1, EndPuts, Zenon
  <2>3. QED
    BY <2>2
<1>8. QED
  BY <1>1, <1>5, <1>6, <1>7

LEMMA MapPuts ==
  ASSUME Sound, ParseMapExpression
  PROVE  Fail \/ \E e : Puts(e)
<1> DEFINE first == Opens(built, Len(built))
           c == Comma(open, first)
<1>1. /\ Top(open) = "map"
      /\ \/ first /\ Peek(at) # "}" /\ ParseEntry(at)
         \/ ~first /\ Peek(at) = "," /\ ParseEntry(at + 1)
         \/ Peek(at) = "}" /\ Make(End, at + 1)
         \/ ~first /\ Peek(at) \notin {",", "}"} /\ Fail
  BY Zenon DEF ParseMapExpression, ParseList
<1>2. at \in Nat /\ at + 1 \in Nat /\ at + 0 = at
  BY DEF Sound, SoundType
<1>3. Top(open) \in Lists /\ first \in BOOLEAN
  BY <1>1 DEF Lists, Opens
<1>4. (first => c = <<>>) /\ (~first => c = <<",">>)
  BY <1>3, ListComma, Zenon
<1> HIDE DEF first
<1>5. CASE first /\ ParseEntry(at)
  <2>1. Reads(at, c) /\ at = at + Len(c)
    BY <1>2, <1>4, <1>5, ReadsTuple, SpelledLength, Zenon
  <2>2. QED
    BY <1>1, <1>2, <1>5, <2>1, EntryPuts, Zenon DEF first
<1>6. CASE ~first /\ Peek(at) = "," /\ ParseEntry(at + 1)
  <2>1. Reads(at, c) /\ at + 1 = at + Len(c)
    <3>1. Reads(at, <<",">>)
      BY <1>2, <1>6, ReadsOne, Zenon
    <3>2. c = <<",">>
      BY <1>4, <1>6, Zenon
    <3>3. QED
      BY <3>1, <3>2, SpelledLength, Zenon
  <2>2. QED
    BY <1>1, <1>2, <1>6, <2>1, EntryPuts, Zenon DEF first
<1>7. CASE Peek(at) = "}" /\ Make(End, at + 1)
  <2>1. Reads(at, <<"}">>) /\ at + 1 = at + Len(<<"}">>)
    BY <1>2, <1>7, ReadsOne, SpelledLength, Zenon
  <2>2. Puts(End)
    <3>1. /\ Make(End, at + 1) /\ Top(open) \in {"function", "call", "map"}
          /\ NextTokens(End) = <<"}">>
      BY <1>1, <1>7, EndTokens, Zenon
    <3>2. QED
      BY <2>1, <3>1, EndPuts, Zenon
  <2>3. QED
    BY <2>2
<1>8. QED
  BY <1>1, <1>5, <1>6, <1>7

Parses == ParseProgram \/ ParseBody \/ ParseValue \/ ParseCallExpression \/ ParseMapExpression

\* A step of the parser fails, finishes, or puts a node into the tree.
LEMMA ParseStep ==
  ASSUME Sound, Parses
  PROVE  stage = "parse" /\ (Fail \/ Finish \/ \E e : Puts(e))
<1>1. stage = "parse"
  BY Zenon DEF Parses, ParseProgram, ParseBody, ParseValue, ParseCallExpression,
               ParseMapExpression, ParseList
<1>2. CASE ParseProgram
  <2>1. open = <<>> /\ Top(open) = "program"
    BY <1>2, OpenType, CallStack DEF ParseProgram
  <2>2. \/ Peek(at) = "eof" /\ stage' = "parsed"
           /\ UNCHANGED <<program, text, edited, at, open, built, semicolons>>
        \/ Peek(at) = "import" /\ ParseImportDeclaration
        \/ IsFunctionDeclarationStart(at) /\ ParseFunctionDeclaration
        \/ ParseStatement
    BY <1>2, Zenon DEF ParseProgram
  <2>3. QED
    BY <1>1, <2>1, <2>2, ImportPuts, FunctionPuts, StatementPuts, Zenon DEF Finish
<1>3. CASE ParseBody
  <2>1. Top(open) = "function" /\ at \in Nat
    <3>1. at \in Nat
      BY DEF Sound, SoundType
    <3>2. QED
      BY <1>3, <3>1, Zenon DEF ParseBody
  <2>2. CASE ParseStatement
    BY <1>1, <2>1, <2>2, StatementPuts, Zenon
  <2>3. CASE IF Reads(at, <<"}", "end">>) THEN Make(End, at + 2) ELSE Fail
    <3>1. CASE Reads(at, <<"}", "end">>)
      <4>1. Make(End, at + 2) /\ at + 2 = at + Len(<<"}", "end">>)
        BY <2>3, <3>1, SpelledLength, Zenon
      <4>2. Puts(End)
        BY <2>1, <3>1, <4>1, EndTokens, EndPuts, Zenon
      <4>3. QED
        BY <1>1, <4>2
    <3>2. QED
      BY <1>1, <2>3, <3>1
  <2>4. QED
    BY <1>3, <2>2, <2>3, Zenon DEF ParseBody
<1>4. QED
  BY <1>1, <1>2, <1>3, ValuePuts, CallPuts, MapPuts, Zenon DEF Parses

\* Nothing is built of a text that has not been looked at.
LEMMA EmptyTree ==
  /\ Opn(<<>>, Len(<<>>)) = <<>> /\ Starts(Txt(<<>>, {}, Len(<<>>)), 0)
  /\ <<>> \in Seq(NodeType) /\ {} \subseteq Endings(<<>>)
<1>1. <<>> \in Seq(NodeType) /\ Len(<<>>) = 0 /\ <<>> \in Seq(Kinds)
  OBVIOUS
<1>2. Opn(<<>>, 0) = <<>> /\ Txt(<<>>, {}, 0) = <<>>
  BY <1>1, WrittenNode, Zenon
<1>3. Starts(<<>>, 0)
  BY <1>1 DEF Starts
<1>4. QED
  BY <1>1, <1>2, <1>3, Zenon

LEMMA SoundInit ==
  ASSUME ParserInit
  PROVE  Sound
<1>1. /\ program \in Programs /\ text = <<>> /\ stage = "new" /\ edited = FALSE
      /\ at = 0 /\ open = <<>> /\ built = <<>> /\ semicolons = {}
  BY DEF ParserInit
<1>2. program \in Seq(NodeType)
  BY <1>1, ProgramsAssumption
<1>3. text \in Seq(Kinds) /\ Len(text) = 0
  BY <1>1
<1>4. SoundType
  <2>1. at \in 0 .. Len(text) /\ stage \in AnyStage /\ edited \in BOOLEAN
    <3>1. at \in 0 .. Len(text)
      BY <1>1, <1>3
    <3>2. QED
      BY <1>1, <3>1, Zenon DEF AnyStage
  <2>2. built \in Seq(NodeType) /\ semicolons \subseteq Endings(built)
    BY <1>1, EmptyTree, Zenon
  <2>3. QED
    BY <1>2, <1>3, <2>1, <2>2, Zenon DEF SoundType
<1>5. SoundTree
  <2>1. open = Opn(built, Len(built)) /\ Starts(Txt(built, semicolons, Len(built)), at)
    BY <1>1, EmptyTree, Zenon
  <2>2. DOMAIN built = {}
    BY <1>1
  <2>3. QED
    BY <2>1, <2>2 DEF SoundTree
<1>6. QED
  BY <1>1, <1>4, <1>5 DEF Sound, SoundStage

LEMMA ProgramTextKinds ==
  ASSUME NEW t \in Seq(NodeType), NEW x \in ProgramTexts(t)
  PROVE  x \in Seq(Kinds) /\ \E s \in SUBSET Endings(t) : x = Txt(t, s, Len(t))
<1>1. PICK s \in SUBSET Endings(t) : x = Txt(t, s, Len(t))
  BY DEF ProgramTexts, Txt
<1>2. Len(t) \in 0 .. Len(t)
  OBVIOUS
<1>3. Txt(t, s, Len(t)) \in Seq(Kinds)
  BY <1>2, WrittenNode
<1>4. QED
  BY <1>1, <1>3

LEMMA SplicedKinds ==
  ASSUME text \in Seq(Kinds), NEW i \in 0 .. Len(text), NEW n \in {0, 1}, NEW ks \in Seq(Kinds)
  PROVE  Spliced(i, n, ks) \in Seq(Kinds)
<1>1. SubSeq(text, 1, i) \in Seq(Kinds)
  OBVIOUS
<1>2. SubSeq(text, i + n + 1, Len(text)) \in Seq(Kinds)
  <2>1. CASE i + n + 1 <= Len(text)
    BY <2>1
  <2>2. CASE i + n + 1 > Len(text)
    BY <2>2
  <2>3. QED
    BY <2>1, <2>2
<1>3. \A a, b, c \in Seq(Kinds) : a \o b \o c \in Seq(Kinds)
  OBVIOUS
<1>4. QED
  BY <1>1, <1>2, <1>3, Zenon DEF Spliced

LEMMA EditKinds ==
  ASSUME text \in Seq(Kinds), EditText
  PROVE  text' \in Seq(Kinds)
<1>1. PICK i \in 0 .. Len(text) :
        \/ text' = Spliced(i, 1, <<>>)
        \/ \E n \in {0, 1}, k \in Kinds : text' = Spliced(i, n, <<k>>)
  BY Zenon DEF EditText
<1>2. CASE text' = Spliced(i, 1, <<>>)
  <2>1. <<>> \in Seq(Kinds) /\ 1 \in {0, 1}
    OBVIOUS
  <2>2. QED
    BY <1>2, <2>1, SplicedKinds
<1>3. CASE \E n \in {0, 1}, k \in Kinds : text' = Spliced(i, n, <<k>>)
  <2>1. PICK n \in {0, 1}, k \in Kinds : text' = Spliced(i, n, <<k>>)
    BY <1>3
  <2>2. <<k>> \in Seq(Kinds)
    OBVIOUS
  <2>3. QED
    BY <2>1, <2>2, SplicedKinds
<1>4. QED
  BY <1>1, <1>2, <1>3

\* The text may change as long as it has not been looked at.
LEMMA FreshSound ==
  ASSUME Sound, stage \in {"new", "written", "edited"}, stage' \in AnyStage, stage' # "parsed",
         text' \in Seq(Kinds), program' \in Seq(NodeType), edited' \in BOOLEAN,
         UNCHANGED <<at, open, built, semicolons>>
  PROVE  Sound'
<1>1. built = <<>> /\ at = 0 /\ open = <<>> /\ semicolons = {}
  BY DEF Sound, SoundStage
<1>2. built' = <<>> /\ at' = 0 /\ open' = <<>> /\ semicolons' = {}
  BY <1>1
<1>3. SoundType'
  BY <1>2, EmptyTree DEF SoundType
<1>4. SoundTree'
  <2>1. Starts(<<>>, 0)'
    BY DEF Starts
  <2>2. Txt(<<>>, {}, Len(<<>>)) = <<>> /\ Opn(<<>>, Len(<<>>)) = <<>>
    <3>1. <<>> \in Seq(NodeType) /\ Len(<<>>) = 0
      OBVIOUS
    <3>2. QED
      BY <3>1, WrittenNode, Zenon
  <2>3. open' = Opn(built', Len(built')) /\ Starts(Txt(built, semicolons, Len(built)), at)'
    BY <1>2, <2>1, <2>2, Zenon
  <2>4. DOMAIN built' = {}
    BY <1>2
  <2>5. QED
    BY <2>3, <2>4 DEF SoundTree
<1>5. SoundStage'
  BY <1>2 DEF SoundStage
<1>6. QED
  BY <1>3, <1>4, <1>5 DEF Sound

LEMMA SameTree ==
  ASSUME Sound, UNCHANGED <<program, text, edited, at, open, built, semicolons>>,
         stage = "parse", stage' \in {"parsed", "failed"},
         stage' = "parsed" => open = <<>> /\ at = Len(text)
  PROVE  Sound'
<1>1. SoundType'
  BY DEF Sound, SoundType, AnyStage
<1>2. SoundTree'
  BY DEF Sound, SoundTree, Starts
<1>3. SoundStage'
  BY DEF SoundStage
<1>4. QED
  BY <1>1, <1>2, <1>3 DEF Sound

LEMMA SoundStep ==
  ASSUME Sound, [ParserNext]_parserVars
  PROVE  Sound'
<1>1. CASE WriteProgram
  <2>1. /\ stage = "new" /\ stage' = "written" /\ text' \in ProgramTexts(program)
        /\ program' = program /\ edited' = edited /\ UNCHANGED <<at, open, built, semicolons>>
    BY <1>1 DEF WriteProgram
  <2>2. program \in Seq(NodeType) /\ edited \in BOOLEAN
    BY DEF Sound, SoundType
  <2>3. text' \in Seq(Kinds)
    BY <2>1, <2>2, ProgramTextKinds
  <2>4. QED
    BY <2>1, <2>2, <2>3, FreshSound DEF AnyStage
<1>2. CASE EditText
  <2>1. /\ stage = "written" /\ stage' = "edited" /\ edited' = TRUE /\ program' = <<>>
        /\ UNCHANGED <<at, open, built, semicolons>>
    BY <1>2 DEF EditText
  <2>2. text' \in Seq(Kinds)
    BY <1>2, EditKinds DEF Sound, SoundType
  <2>3. program' \in Seq(NodeType)
    BY <2>1
  <2>4. QED
    BY <2>1, <2>2, <2>3, FreshSound DEF AnyStage
<1>3. CASE ParseText
  <2>1. /\ stage \in {"written", "edited"} /\ stage' = "parse"
        /\ UNCHANGED <<program, text, edited, at, open, built, semicolons>>
    BY <1>3 DEF ParseText
  <2>2. text \in Seq(Kinds) /\ program \in Seq(NodeType) /\ edited \in BOOLEAN
    BY DEF Sound, SoundType
  <2>3. QED
    BY <2>1, <2>2, FreshSound DEF AnyStage
<1>4. CASE Parses
  <2>1. stage = "parse" /\ (Fail \/ Finish \/ \E e : Puts(e))
    BY <1>4, ParseStep
  <2>2. CASE Fail
    BY <2>1, <2>2, SameTree DEF Fail
  <2>3. CASE Finish
    <3>1. at = Len(text)
      <4>1. at \in 0 .. Len(text) /\ text \in Seq(Kinds) /\ at \in Nat
        BY DEF Sound, SoundType
      <4>2. at >= Len(text)
        BY <2>3, <4>1, PeekKind DEF Finish
      <4>3. QED
        BY <4>1, <4>2
    <3>2. QED
      BY <2>1, <2>3, <3>1, SameTree DEF Finish
  <2>4. CASE \E e : Puts(e)
    BY <2>1, <2>4, PutsSound
  <2>5. QED
    BY <2>1, <2>2, <2>3, <2>4
<1>5. CASE UNCHANGED parserVars
  BY <1>5 DEF parserVars, Sound, SoundType, SoundTree, SoundStage, Starts
<1>6. QED
  BY <1>1, <1>2, <1>3, <1>4, <1>5, Zenon DEF ParserNext, Parses

\* A text that is accepted is written as the tree that is built.
LEMMA SoundParsed ==
  ASSUME Sound, stage = "parsed"
  PROVE  WellFormed(built) /\ text \in ProgramTexts(built)
<1>1. /\ open = <<>> /\ at = Len(text) /\ open = Opn(built, Len(built))
      /\ Starts(Txt(built, semicolons, Len(built)), at)
      /\ text \in Seq(Kinds) /\ semicolons \in SUBSET Endings(built)
      /\ \A n \in DOMAIN built : Fits(built[n], Opn(built, n - 1))
  BY DEF Sound, SoundType, SoundTree, SoundStage
<1>2. WellFormed(built)
  BY <1>1 DEF WellFormed, Opn
<1>3. Txt(built, semicolons, Len(built)) = text
  <2> DEFINE x == Txt(built, semicolons, Len(built))
  <2>1. x \in Seq(Kinds) /\ Len(x) = Len(text) /\ \A j \in 1 .. Len(text) : text[j] = x[j]
    BY <1>1, Zenon DEF Starts
  <2> HIDE DEF x
  <2>2. x = text
    BY <1>1, <2>1
  <2>3. QED
    BY <2>2 DEF x
<1>4. text \in ProgramTexts(built)
  BY <1>1, <1>3 DEF ProgramTexts, Txt
<1>5. QED
  BY <1>2, <1>4

-----------------------------------------------------------------------------
(* What a program is written as, token by token                            *)

\* The tokens a value, and a node that is not an empty one, start with, and those
\* that may come after a node.
ValueFirst == {"id", "num", "str", "{"}
First == {"import", "async", "id", "local", "num", "str", "{", "}", ")", ","}
Follow == First \cup {";", "eof"}

\* The text is that of t with the semicolons s.
Intact(t, s) == /\ t \in Seq(NodeType) /\ WellFormed(t) /\ s \subseteq Endings(t)
                /\ text = Txt(t, s, Len(t))

LEMMA FirstOfTuples ==
  /\ <<"import", "(", "str", ")", "as", "id">>[1] = "import"
  /\ <<"async", "id", "(", ")", "->", "then", "{">>[1] = "async"
  /\ <<"id", "(", ")", "->", "then", "{">>[1] = "id" /\ <<"local", "id", "=">>[1] = "local"
  /\ <<"}", "end">>[1] = "}" /\ <<")">>[1] = ")" /\ <<"}">>[1] = "}" /\ <<",">>[1] = ","
  /\ <<"id", ":">>[1] = "id" /\ <<"str", ":">>[1] = "str"
  /\ <<"{">>[1] = "{" /\ <<"num">>[1] = "num" /\ <<"str">>[1] = "str" /\ <<"id">>[1] = "id"
  /\ <<"id", "(">>[1] = "id" /\ <<"id", ":", "id", "(">>[1] = "id"
  OBVIOUS

LEMMA ValueStart ==
  ASSUME NEW e \in NodeType, e.kind \in Leaves \cup Lists
  PROVE  Len(Value(e)) > 0 /\ Value(e)[1] \in ValueFirst /\ Value(e) \in Seq(Kinds)
<1>1. e.flag \in BOOLEAN /\ e.kind \in {"map", "call", "num", "str", "id"}
  BY NodeParts DEF Leaves, Lists
<1>2. Len(Value(e)) \in {1, 2, 4}
  BY <1>1, ValueType, SpelledLength, Zenon
<1>3. Value(e)[1] \in ValueFirst
  BY <1>1, ValueType, FirstOfTuples, Zenon DEF ValueFirst
<1>4. Value(e) \in Seq(Kinds)
  BY ValueType, Zenon
<1>5. Len(Value(e)) > 0
  BY <1>2
<1>6. QED
  BY <1>3, <1>4, <1>5, Zenon

LEMMA ConcatStart ==
  ASSUME NEW a \in Seq(Kinds), NEW b \in Seq(Kinds)
  PROVE  /\ Len(a) > 0 => (a \o b)[1] = a[1] /\ Len(a \o b) > 0
         /\ Len(a) = 0 => a \o b = b
  OBVIOUS

\* What is written of a part that comes first, or of a statement's value.
LEMMA PartStart ==
  ASSUME NEW e \in NodeType, e.kind \in Leaves \cup Lists
  PROVE  /\ Label(e) \o Value(e) \in Seq(Kinds) /\ Len(Label(e) \o Value(e)) > 0
         /\ (Label(e) \o Value(e))[1] \in ValueFirst
<1>1. Label(e) \in Seq(Kinds)
  BY NodeParts, Spelled, Zenon DEF Label
<1>2. Value(e) \in Seq(Kinds) /\ Len(Value(e)) > 0 /\ Value(e)[1] \in ValueFirst
  BY ValueStart
<1>3. CASE e.label = "none"
  <2>1. Len(Label(e)) = 0
    BY <1>3, SpelledLength, Zenon DEF Label
  <2>2. Label(e) \o Value(e) = Value(e)
    BY <1>1, <1>2, <2>1, ConcatStart
  <2>3. QED
    BY <1>2, <2>2
<1>4. CASE e.label # "none"
  <2>1. Len(Label(e)) = 2 /\ Label(e)[1] \in {"id", "str"}
    BY <1>4, NodeParts, SpelledLength, FirstOfTuples, Zenon DEF Label
  <2>2. Len(Label(e)) > 0 /\ Label(e)[1] \in ValueFirst
    <3>1. Len(Label(e)) = 2 /\ 2 > 0
      BY <2>1
    <3>2. Label(e)[1] \in ValueFirst
      BY <2>1, Zenon DEF ValueFirst
    <3>3. QED
      BY <3>1, <3>2
  <2>3. QED
    BY <1>1, <1>2, <2>2, ConcatStart
<1>5. QED
  BY <1>3, <1>4

LEMMA TokensStart ==
  ASSUME NEW e \in NodeType, NEW o \in Seq(Calls), NEW f \in BOOLEAN, Fits(e, o)
  PROVE  /\ ~(e.kind = "statement" /\ ~e.flag) =>
              Len(Tokens(e, o, f)) > 0 /\ Tokens(e, o, f)[1] \in First
         /\ e.kind \in Leaves \cup Lists /\ (f \/ Top(o) = "statement") =>
              Tokens(e, o, f)[1] \in ValueFirst
<1> DEFINE ts == Tokens(e, o, f)
<1>1. e.flag \in BOOLEAN
  BY NodeParts
<1>2. CASE e.kind = "import"
  <2>1. ts = <<"import", "(", "str", ")", "as", "id">>
    BY <1>2, TokensCases, Zenon
  <2>2. Len(ts) = 6 /\ ts[1] = "import"
    BY <2>1, SpelledLength, FirstOfTuples, Zenon
  <2> HIDE DEF ts
  <2>3. QED
    BY <1>2, <2>2 DEF First, Leaves, Lists, ts
<1>3. CASE e.kind = "function"
  <2>1. CASE e.flag
    <3>1. ts = <<"async", "id", "(", ")", "->", "then", "{">>
      BY <1>3, <2>1, TokensCases, Zenon
    <3>2. Len(ts) = 7 /\ ts[1] = "async"
      BY <3>1, SpelledLength, FirstOfTuples, Zenon
    <3> HIDE DEF ts
    <3>3. QED
      BY <1>3, <3>2 DEF First, Leaves, Lists, ts
  <2>2. CASE ~e.flag
    <3>1. ts = <<"id", "(", ")", "->", "then", "{">>
      BY <1>3, <2>2, TokensCases, Zenon
    <3>2. Len(ts) = 6 /\ ts[1] = "id"
      BY <3>1, SpelledLength, FirstOfTuples, Zenon
    <3> HIDE DEF ts
    <3>3. QED
      BY <1>3, <3>2 DEF First, Leaves, Lists, ts
  <2>3. QED
    BY <1>1, <2>1, <2>2
<1>4. CASE e.kind = "statement"
  <2>1. ASSUME e.flag PROVE Len(ts) = 3 /\ ts[1] = "local"
    <3>1. ts = <<"local", "id", "=">>
      BY <1>4, <2>1, TokensCases, Zenon
    <3>2. QED
      BY <3>1, SpelledLength, FirstOfTuples, Zenon
  <2> HIDE DEF ts
  <2>2. e.kind \notin Leaves \cup Lists
    BY <1>4 DEF Leaves, Lists
  <2>3. ASSUME e.flag PROVE Len(ts) > 0 /\ ts[1] \in First
    <3>1. Len(ts) = 3
      BY <2>1, <2>3
    <3>2. ts[1] \in First
      BY <2>1, <2>3, Zenon DEF First
    <3>3. QED
      BY <3>1, <3>2
  <2>4. QED
    BY <1>1, <1>4, <2>2, <2>3, Zenon DEF ts
<1>5. CASE e.kind = "end"
  <2>1. Top(o) \in Lists \/ Top(o) \notin Lists
    OBVIOUS
  <2>2. Top(o) \in Lists => Top(o) = "call" \/ Top(o) = "map"
    BY DEF Lists
  <2>3. Len(ts) \in {1, 2} /\ ts[1] \in {")", "}"}
    <3>1. Top(o) = "call" => ts = <<")">>
      BY <1>5, TokensCases, Zenon
    <3>2. Top(o) = "map" => ts = <<"}">>
      BY <1>5, TokensCases, Zenon
    <3>3. Top(o) \notin Lists => ts = <<"}", "end">>
      BY <1>5, TokensCases, Zenon
    <3> HIDE DEF ts
    <3>4. QED
      BY <2>1, <2>2, <3>1, <3>2, <3>3, SpelledLength, FirstOfTuples, Zenon
  <2> HIDE DEF ts
  <2>4. e.kind \notin Leaves \cup Lists
    BY <1>5 DEF Leaves, Lists
  <2>5. Len(ts) > 0
    <3>1. Len(ts) \in {1, 2}
      BY <2>3
    <3>2. QED
      BY <3>1
  <2>6. ts[1] \in First
    BY <2>3, Zenon DEF First
  <2>7. QED
    BY <2>4, <2>5, <2>6, Zenon DEF ts
<1>6. CASE e.kind \in Leaves \cup Lists
  <2> DEFINE c == Comma(o, f)
             v == Label(e) \o Value(e)
  <2>1. v \in Seq(Kinds) /\ Len(v) > 0 /\ v[1] \in ValueFirst
    BY <1>6, PartStart
  <2>2. c \in Seq(Kinds) /\ Label(e) \in Seq(Kinds) /\ Value(e) \in Seq(Kinds)
    BY <1>6, ValueStart, NodeParts, Spelled, Zenon DEF Label, Comma
  <2>3. ts = c \o v
    <3>1. ts = c \o Label(e) \o Value(e)
      BY <1>6, TokensCases, Zenon
    <3>2. \A x, y, z \in Seq(Kinds) : x \o y \o z = x \o (y \o z)
      OBVIOUS
    <3>3. QED
      BY <2>2, <3>1, <3>2, Zenon
  <2>4. (Len(c) = 0 \/ (Len(c) = 1 /\ c[1] = ","))
    BY SpelledLength, FirstOfTuples, Zenon DEF Comma
  <2>5. f \/ Top(o) = "statement" => Len(c) = 0
    <3>1. "statement" \notin Lists
      BY DEF Lists
    <3>2. QED
      BY <3>1, SpelledLength, Zenon DEF Comma
  <2> HIDE DEF ts, c, v
  <2>6. CASE Len(c) = 0
    <3>1. ts = v
      BY <2>1, <2>2, <2>3, <2>6, ConcatStart
    <3>2. ts[1] \in First
      BY <2>1, <3>1 DEF ValueFirst, First
    <3>3. QED
      BY <1>6, <2>1, <3>1, <3>2 DEF ts
  <2>7. CASE Len(c) = 1 /\ c[1] = ","
    <3>0. Len(c) = 1
      BY <2>7, Zenon
    <3>1. Len(c) > 0 /\ Len(c) # 0
      BY <3>0
    <3>2. Len(ts) > 0 /\ ts[1] = c[1]
      BY <2>1, <2>2, <2>3, <3>1, ConcatStart
    <3>3. ts[1] \in First
      BY <2>7, <3>2, Zenon DEF First
    <3>4. ~(f \/ Top(o) = "statement")
      BY <2>5, <3>1, Zenon
    <3>5. QED
      BY <3>2, <3>3, <3>4, Zenon DEF ts
  <2>8. QED
    BY <2>4, <2>6, <2>7
<1>7. QED
  BY <1>2, <1>3, <1>4, <1>5, <1>6, NodeParts DEF Leaves, Lists

-----------------------------------------------------------------------------
(* The text of a program: where its nodes are                              *)

Plain(e) == e.kind = "statement" /\ ~e.flag

LEMMA WellFormedIs ==
  ASSUME NEW t, WellFormed(t)
  PROVE  Opn(t, Len(t)) = <<>> /\ \A n \in DOMAIN t : Fits(t[n], Opn(t, n - 1))
  BY DEF WellFormed, Opn

LEMMA IntactNode ==
  ASSUME NEW t, NEW s, Intact(t, s), NEW n \in 1 .. Len(t)
  PROVE  /\ t \in Seq(NodeType) /\ t[n] \in NodeType /\ text \in Seq(Kinds)
         /\ Opn(t, n - 1) \in Seq(Calls) /\ Opn(t, n) \in Seq(Calls)
         /\ Opn(t, n) = After(t[n], Opn(t, n - 1))
         /\ Fits(t[n], Opn(t, n - 1)) /\ TokensAt(t, n) \in Seq(Kinds)
<1>1. t \in Seq(NodeType) /\ n \in DOMAIN t /\ n - 1 \in 0 .. Len(t) /\ n \in 0 .. Len(t)
      /\ Len(t) \in 0 .. Len(t)
  BY DEF Intact
<1>2. t[n] \in NodeType
  BY <1>1
<1>3. text \in Seq(Kinds)
  BY <1>1, WrittenNode DEF Intact
<1>4. Opn(t, n - 1) \in Seq(Calls) /\ Opn(t, n) \in Seq(Calls) /\ Opn(t, n) = After(t[n], Opn(t, n - 1))
  BY <1>1, WrittenNode
<1>5. Fits(t[n], Opn(t, n - 1))
  BY <1>1, WellFormedIs DEF Intact
<1>6. QED
  BY <1>1, <1>2, <1>3, <1>4, <1>5, TokensAtType

LEMMA EndsWhole ==
  ASSUME NEW t, NEW s, Intact(t, s)
  PROVE  Opn(t, Len(t)) = <<>> /\ Len(Txt(t, s, Len(t))) = Len(text)
  BY WellFormedIs DEF Intact

\* Node n is read where the text of those before it ends.
LEMMA Placed ==
  ASSUME NEW t, NEW s, Intact(t, s), NEW n \in 1 .. Len(t)
  PROVE  LET a == Len(Txt(t, s, n - 1))
             b == a + Len(TokensAt(t, n)) IN
         /\ a \in 0 .. Len(text) /\ b \in Nat
         /\ Reads(a, TokensAt(t, n))
         /\ n \in s => Len(Txt(t, s, n)) = b + 1 /\ Peek(b) = ";"
         /\ n \notin s => Len(Txt(t, s, n)) = b
<1> DEFINE x == Txt(t, s, n - 1)
           y == Txt(t, s, n)
           ts == TokensAt(t, n)
           c == Semi(s, n)
           a == Len(x)
           b == a + Len(ts)
<1>1. t \in Seq(NodeType) /\ n - 1 \in 0 .. Len(t) /\ n \in 0 .. Len(t) /\ text = Txt(t, s, Len(t))
      /\ Len(t) \in n .. Len(t)
  BY DEF Intact
<1>2. x \in Seq(Kinds) /\ y \in Seq(Kinds) /\ ts \in Seq(Kinds) /\ c \in Seq(Kinds) /\ text \in Seq(Kinds)
  <2>1. x \in Seq(Kinds) /\ y \in Seq(Kinds)
    BY <1>1, WrittenNode
  <2>2. ts \in Seq(Kinds)
    BY <1>1, TokensAtType
  <2>3. c \in Seq(Kinds)
    BY SemiType
  <2>4. text \in Seq(Kinds)
    BY <1>1, IntactNode
  <2>5. QED
    BY <2>1, <2>2, <2>3, <2>4
<1>3. y = x \o ts \o c
  BY <1>1, WrittenNode
<1>4. Len(y) <= Len(text) /\ \A i \in 1 .. Len(y) : text[i] = y[i]
  BY <1>1, TextPrefix
<1>5. n \in s => Len(c) = 1 /\ c[1] = ";"
  BY SemiType
<1>6. n \notin s => Len(c) = 0
  BY SemiType
<1> HIDE DEF x, y, ts, c
<1>7. Len(y) = a + Len(ts) + Len(c) /\ a \in 0 .. Len(text) /\ b \in Nat
  BY <1>2, <1>3, <1>4
<1>8. \A k \in 1 .. Len(ts) : a + k <= Len(text) /\ text[a + k] = ts[k]
  <2> SUFFICES ASSUME NEW k \in 1 .. Len(ts) PROVE a + k <= Len(text) /\ text[a + k] = ts[k]
    OBVIOUS
  <2>1. a + k \in 1 .. Len(y) /\ a + k <= Len(text)
    BY <1>2, <1>3, <1>4
  <2>2. y[a + k] = ts[k]
    BY <1>2, <1>3
  <2>3. QED
    BY <1>4, <2>1, <2>2
<1>9. Reads(a, ts)
  <2>1. ASSUME NEW k \in 1 .. Len(ts) PROVE Peek(a + k - 1) = ts[k]
    <3>1. a + k - 1 < Len(text) /\ (a + k - 1) + 1 = a + k
      BY <1>2, <1>7, <1>8
    <3>2. QED
      BY <1>8, <3>1 DEF Peek
  <2>2. DOMAIN ts = 1 .. Len(ts)
    BY <1>2
  <2> HIDE DEF a
  <2>3. QED
    BY <2>1, <2>2 DEF Reads
<1>10. ASSUME n \in s PROVE Peek(b) = ";"
  <2>1. Len(c) = 1
    BY <1>5, <1>10
  <2>2. b + 1 \in 1 .. Len(y) /\ b < Len(text)
    BY <1>2, <1>4, <1>7, <2>1
  <2>3. y[b + 1] = c[1]
    <3> DEFINE z == x \o ts
    <3>1. z \in Seq(Kinds) /\ Len(z) = a + Len(ts)
      BY <1>2
    <3>2. y = z \o c
      BY <1>3
    <3> HIDE DEF z
    <3>3. (z \o c)[Len(z) + 1] = c[1]
      <4> DEFINE m == Len(z) + 1
      <4>1. m \in 1 .. Len(z) + Len(c) /\ m > Len(z) /\ m - Len(z) = 1
        BY <1>2, <2>1, <3>1
      <4> HIDE DEF m
      <4>2. (z \o c)[m] = c[m - Len(z)]
        BY <1>2, <3>1, <4>1
      <4>3. QED
        BY <4>1, <4>2 DEF m
    <3>4. QED
      BY <3>1, <3>2, <3>3
  <2>4. text[b + 1] = c[1]
    BY <1>4, <2>2, <2>3
  <2>5. QED
    BY <1>5, <1>10, <2>2, <2>4, Zenon DEF Peek
<1>11. n \in s => Len(y) = b + 1
  BY <1>2, <1>5, <1>7
<1>12. n \notin s => Len(y) = b
  BY <1>2, <1>6, <1>7
<1>13. QED
  BY <1>7, <1>9, <1>10, <1>11, <1>12 DEF x, y, ts

\* A statement that is not local has no token of its own, and its value follows.
LEMMA PlainStatement ==
  ASSUME NEW t, NEW s, Intact(t, s), NEW n \in 1 .. Len(t), Plain(t[n])
  PROVE  /\ n \notin s /\ n + 1 \in 1 .. Len(t)
         /\ t[n + 1].kind \in Leaves \cup Lists /\ t[n + 1].label = "none"
         /\ TokensAt(t, n) = <<>> /\ TokensAt(t, n + 1) = Value(t[n + 1])
         /\ Opn(t, n) = Append(Opn(t, n - 1), "statement")
<1> DEFINE o == Opn(t, n - 1)
<1>1. /\ t \in Seq(NodeType) /\ t[n] \in NodeType /\ o \in Seq(Calls) /\ Opn(t, n) \in Seq(Calls)
      /\ Opn(t, n) = After(t[n], o) /\ Fits(t[n], o)
  BY IntactNode
<1>2. Opn(t, n) = Append(o, "statement")
  <2>1. t[n].kind = "statement"
    BY DEF Plain
  <2>2. After(t[n], o) = Append(o, t[n].kind)
    BY <2>1 DEF After, Calls, Lists, Leaves
  <2>3. QED
    BY <1>1, <2>1, <2>2, Zenon
<1>3. Top(Opn(t, n)) = "statement" /\ Opn(t, n) # <<>>
  BY <1>1, <1>2 DEF Top
<1>4. n \notin s
  <2>1. ~Completes(t[n], o)
    BY <1>1, <1>3 DEF Completes
  <2>2. QED
    BY <2>1, EndingsAre DEF Intact
<1>5. n + 1 \in 1 .. Len(t)
  BY <1>1, <1>3, EndsWhole
<1>6. /\ t[n + 1] \in NodeType /\ Fits(t[n + 1], Opn(t, n))
  <2>1. (n + 1) - 1 = n
    OBVIOUS
  <2>2. QED
    BY <1>5, <2>1, IntactNode
<1>7. t[n + 1].kind \in Leaves \cup Lists /\ t[n + 1].label = "none"
  <2>1. t[n + 1].kind \notin {"import", "function", "statement", "end"}
    BY <1>3, <1>6, FitsCases
  <2>2. t[n + 1].kind \in Leaves \cup Lists
    BY <1>6, <2>1, NodeParts DEF Leaves, Lists
  <2>3. QED
    BY <1>3, <1>6, <2>2, FitsCases, LabelsAre, Zenon
<1>8. TokensAt(t, n) = <<>>
  BY <1>1, TokensCases, Zenon DEF TokensAt, Plain
<1>9. TokensAt(t, n + 1) = Value(t[n + 1])
  <2> DEFINE e == t[n + 1]
             f == Opens(t, n)
  <2>0. (n + 1) - 1 = n
    OBVIOUS
  <2>1. TokensAt(t, n + 1) = Tokens(e, Opn(t, n), f)
    BY <2>0 DEF TokensAt
  <2>2. Tokens(e, Opn(t, n), f) = Comma(Opn(t, n), f) \o Label(e) \o Value(e)
    BY <1>1, <1>6, <1>7, TokensCases, Zenon
  <2>3. Comma(Opn(t, n), f) = <<>>
    BY <1>3 DEF Comma, Lists
  <2>4. Label(e) = <<>>
    BY <1>7 DEF Label
  <2>5. Value(e) \in Seq(Kinds)
    BY <1>6, <1>7, ValueStart
  <2>6. \A x \in Seq(Kinds) : <<>> \o <<>> \o x = x
    OBVIOUS
  <2>7. QED
    BY <2>1, <2>2, <2>3, <2>4, <2>5, <2>6, Zenon
<1>10. QED
  BY <1>2, <1>4, <1>5, <1>7, <1>8, <1>9

LEMMA PeekStart ==
  ASSUME NEW i \in Nat, NEW ts \in Seq(Kinds), Reads(i, ts), Len(ts) > 0
  PROVE  Peek(i) = ts[1]
<1>1. 1 \in DOMAIN ts /\ i + 1 - 1 = i
  OBVIOUS
<1>2. QED
  BY <1>1 DEF Reads

\* The token at the end of the first n nodes starts the next one.
LEMMA Boundary ==
  ASSUME NEW t, NEW s, Intact(t, s), NEW n \in 0 .. Len(t)
  PROVE  /\ n = Len(t) => Peek(Len(Txt(t, s, n))) = "eof"
         /\ n < Len(t) => Peek(Len(Txt(t, s, n))) \in First
         /\ n < Len(t) /\ Plain(t[n + 1]) => Peek(Len(Txt(t, s, n))) \in ValueFirst
<1>1. ASSUME n = Len(t) PROVE Peek(Len(Txt(t, s, n))) = "eof"
  <2>1. Len(Txt(t, s, n)) = Len(text)
    BY <1>1, EndsWhole
  <2>2. QED
    BY <2>1 DEF Peek
<1>2. ASSUME n < Len(t), ~Plain(t[n + 1]) PROVE Peek(Len(Txt(t, s, n))) \in First
  <2> DEFINE e == t[n + 1]
             ts == TokensAt(t, n + 1)
             a == Len(Txt(t, s, n))
  <2>1. n + 1 \in 1 .. Len(t) /\ (n + 1) - 1 = n
    BY <1>2
  <2>2. e \in NodeType /\ Opn(t, n) \in Seq(Calls) /\ Fits(e, Opn(t, n)) /\ ts \in Seq(Kinds)
    BY <2>1, IntactNode
  <2>3. a \in 0 .. Len(text) /\ Reads(a, ts)
    BY <2>1, Placed
  <2>4. ts = Tokens(e, Opn(t, n), Opens(t, n))
    BY <2>1 DEF TokensAt
  <2>5. Opens(t, n) \in BOOLEAN
    BY DEF Opens
  <2>6. Len(ts) > 0 /\ ts[1] \in First
    BY <1>2, <2>2, <2>4, <2>5, TokensStart, Zenon DEF Plain
  <2> HIDE DEF ts, a
  <2>7. Peek(a) = ts[1]
    BY <2>2, <2>3, <2>6, PeekStart
  <2>8. QED
    BY <2>6, <2>7, Zenon DEF a
<1>3. ASSUME n < Len(t), Plain(t[n + 1]) PROVE Peek(Len(Txt(t, s, n))) \in ValueFirst
  <2> DEFINE e == t[n + 2]
             ts == TokensAt(t, n + 2)
             a == Len(Txt(t, s, n))
  <2>1. n + 1 \in 1 .. Len(t) /\ (n + 1) - 1 = n /\ (n + 1) + 1 = n + 2 /\ (n + 2) - 1 = n + 1
    BY <1>3
  <2>2. /\ n + 1 \notin s /\ n + 2 \in 1 .. Len(t) /\ e.kind \in Leaves \cup Lists
        /\ TokensAt(t, n + 1) = <<>> /\ ts = Value(e)
    BY <1>3, <2>1, PlainStatement
  <2>3. a \in 0 .. Len(text) /\ Len(Txt(t, s, n + 1)) = a + Len(<<>>)
    BY <2>1, <2>2, Placed
  <2>4. Len(Txt(t, s, n + 1)) = a
    BY <2>3
  <2>5. Reads(a, ts)
    BY <2>1, <2>2, <2>4, Placed
  <2>6. e \in NodeType
    BY <2>2, IntactNode
  <2>7. Len(ts) > 0 /\ ts[1] \in ValueFirst /\ ts \in Seq(Kinds)
    BY <2>2, <2>6, ValueStart
  <2> HIDE DEF ts, a
  <2>8. Peek(a) = ts[1]
    BY <2>3, <2>5, <2>7, PeekStart
  <2>9. QED
    BY <2>7, <2>8, Zenon DEF a
<1>4. QED
  BY <1>1, <1>2, <1>3, Zenon DEF ValueFirst, First

\* After node n there is a semicolon, or what follows it.
LEMMA Followed ==
  ASSUME NEW t, NEW s, Intact(t, s), NEW n \in 1 .. Len(t), NEW b,
         b = Len(Txt(t, s, n - 1)) + Len(TokensAt(t, n))
  PROVE  /\ Peek(b) \in Follow
         /\ n \in s <=> Completes(t[n], Opn(t, n - 1)) /\ Peek(b) = ";"
<1>1. n \in s => Peek(b) = ";"
  BY Placed
<1>2. ASSUME n \notin s PROVE Peek(b) \in First \cup {"eof"}
  <2>1. Len(Txt(t, s, n)) = b
    BY <1>2, Placed
  <2>2. n \in 0 .. Len(t) /\ (n = Len(t) \/ n < Len(t))
    OBVIOUS
  <2>3. QED
    BY <2>1, <2>2, Boundary
<1>3. ";" \notin First \cup {"eof"}
  BY DEF First
<1>4. n \in s => Completes(t[n], Opn(t, n - 1))
  BY EndingsAre DEF Intact
<1>5. QED
  BY <1>1, <1>2, <1>3, <1>4, Zenon DEF Follow

LEMMA ReadsReceiver ==
  ASSUME NEW i \in Nat
  PROVE  Reads(i, <<"id", ":", "id", "(">>) <=> Reads(i, <<"id", ":">>) /\ Reads(i + 2, <<"id", "(">>)
<1>1. Reads(i, <<"id", ":", "id", "(">>) <=>
        Peek(i) = "id" /\ Peek(i + 1) = ":" /\ Peek(i + 2) = "id" /\ Peek(i + 3) = "("
  <2>1. \A a, b, c, d \in Kinds : Reads(i, <<a, b, c, d>>) <=>
           Peek(i) = a /\ Peek(i + 1) = b /\ Peek(i + 2) = c /\ Peek(i + 3) = d
    BY ReadsTuple
  <2>2. "id" \in Kinds /\ ":" \in Kinds /\ "(" \in Kinds
    BY KindList
  <2>3. QED
    BY <2>1, <2>2, Zenon
<1>2. i + 2 \in Nat /\ (i + 2) + 1 = i + 3
  OBVIOUS
<1>3. Reads(i + 2, <<"id", "(">>) <=> Peek(i + 2) = "id" /\ Peek(i + 3) = "("
  <2>1. Reads(i + 2, <<"id", "(">>) <=> Peek(i + 2) = "id" /\ Peek((i + 2) + 1) = "("
    BY <1>2, ReadsPairs, Zenon
  <2>2. QED
    BY <1>2, <2>1
<1>4. QED
  BY <1>1, <1>3, ReadsPairs, Zenon

\* A statement is not taken for a function: after id ( ) comes no arrow.
LEMMA NoFunction ==
  ASSUME NEW t, NEW s, Intact(t, s), NEW n \in 1 .. Len(t), Plain(t[n]),
         NEW a, a = Len(Txt(t, s, n - 1))
  PROVE  Peek(a) \in ValueFirst /\ ~IsFunctionDeclarationStart(a)
<1> DEFINE v == t[n + 1]
<1>1. /\ n \notin s /\ n + 1 \in 1 .. Len(t) /\ v.kind \in Leaves \cup Lists
      /\ TokensAt(t, n) = <<>> /\ TokensAt(t, n + 1) = Value(v)
      /\ Opn(t, n) = Append(Opn(t, n - 1), "statement")
  BY PlainStatement
<1>2. a \in Nat /\ Len(Txt(t, s, n)) = a + Len(TokensAt(t, n)) /\ Len(TokensAt(t, n)) = 0
  <2>1. a \in 0 .. Len(text) /\ Len(Txt(t, s, n)) = a + Len(TokensAt(t, n))
    BY <1>1, Placed, Zenon
  <2>2. a \in Nat
    BY <2>1
  <2>3. QED
    BY <1>1, <2>1, <2>2, SpelledLength, Zenon
<1>3. Len(Txt(t, s, n)) = a /\ (n + 1) - 1 = n /\ (n + 2) - 1 = n + 1 /\ n \in 0 .. Len(t)
  BY <1>2
<1>4. Reads(a, Value(v))
  BY <1>1, <1>3, Placed
<1>5. Peek(a) \in ValueFirst
  <2>1. n - 1 \in 0 .. Len(t) /\ n - 1 < Len(t) /\ (n - 1) + 1 = n
    OBVIOUS
  <2>2. QED
    BY <2>1, Boundary
<1>6. v \in NodeType /\ Value(v) \in Seq(Kinds)
  BY <1>1, IntactNode, ValueStart
<1>7. ASSUME Reads(a, Signature) PROVE FALSE
  <2>1. Peek(a) = "id" /\ Peek(a + 1) = "(" /\ Peek(a + 2) = ")" /\ Peek(a + 3) = "->"
    BY <1>2, <1>7, ReadsLong
  <2>2. v.flag \in BOOLEAN /\ v.kind \in {"map", "call", "num", "str", "id"}
    BY <1>1 , <1>6, NodeParts DEF Leaves, Lists
  <2>3. CASE v.kind \in {"map", "num", "str"}
    <3>1. Value(v) = <<"{">> \/ Value(v) = <<"num">> \/ Value(v) = <<"str">>
      BY <1>1, <1>6, <2>3, ValueType, Zenon
    <3>2. Peek(a) \in {"{", "num", "str"}
      BY <1>2, <1>4, <3>1, ReadsOne, Zenon
    <3>3. QED
      BY <2>1, <3>2
  <2>4. CASE v.kind = "id"
    <3>1. Len(Value(v)) = 1
      BY <1>1, <1>6, <2>4, ValueType, SpelledLength, Zenon
    <3>2. Peek(a + 1) \in Follow
      <4>1. a + 1 = Len(Txt(t, s, (n + 1) - 1)) + Len(TokensAt(t, n + 1))
        BY <1>1, <1>3, <3>1
      <4>2. QED
        BY <1>1, <4>1, Followed
    <3>3. QED
      BY <2>1, <3>2 DEF Follow, First
  <2>5. CASE v.kind = "call" /\ v.flag
    <3>1. Value(v) = <<"id", ":", "id", "(">>
      BY <1>1, <1>6, <2>5, ValueType, Zenon
    <3>2. Peek(a + 1) = ":"
      BY <1>2, <1>4, <3>1, ReadsReceiver, ReadsPairs, Zenon
    <3>3. QED
      BY <2>1, <3>2
  <2>6. CASE v.kind = "call" /\ ~v.flag
    <3> DEFINE e == t[n + 2]
               o == Opn(t, n + 1)
               f == Opens(t, n + 1)
               ts == TokensAt(t, n + 2)
    <3>1. Len(Value(v)) = 2
      BY <1>1, <1>6, <2>6, ValueType, SpelledLength, Zenon
    <3>2. Opn(t, n) \in Seq(Calls) /\ o = Append(Opn(t, n), "call")
      <4>1. Opn(t, n) \in Seq(Calls) /\ o = After(v, Opn(t, n))
        BY <1>1, <1>3, IntactNode
      <4>2. After(v, Opn(t, n)) = Append(Opn(t, n), v.kind)
        BY <2>6 DEF After, Calls, Lists, Leaves
      <4>3. QED
        BY <2>6, <4>1, <4>2, Zenon
    <3>3. Top(o) = "call" /\ o # <<>>
      BY <3>2 DEF Top
    <3>4. n + 1 \notin s
      <4>1. ~Completes(v, Opn(t, n))
        <5>1. Opn(t, n + 1) = After(v, Opn(t, n))
          BY <1>1, <1>3, IntactNode
        <5>2. QED
          BY <3>3, <5>1 DEF Completes
      <4>2. QED
        BY <1>1, <1>3, <4>1, Followed
    <3>5. n + 2 \in 1 .. Len(t)
      <4>1. n + 1 # Len(t)
        BY <3>3, EndsWhole
      <4>2. QED
        BY <1>1, <4>1
    <3>6. Len(Txt(t, s, n + 1)) = a + 2
      <4>1. Len(Txt(t, s, n + 1)) = Len(Txt(t, s, (n + 1) - 1)) + Len(TokensAt(t, n + 1))
        BY <1>1, <3>4, Placed, Zenon
      <4>2. QED
        BY <1>1, <1>3, <3>1, <4>1, Zenon
    <3>7. /\ e \in NodeType /\ o \in Seq(Calls) /\ Fits(e, o) /\ ts \in Seq(Kinds)
      BY <1>3, <3>5, IntactNode
    <3>8. Reads(a + 2, ts)
      BY <1>3, <3>5, <3>6, Placed
    <3>9. ts = Tokens(e, o, f) /\ f
      <4>1. n + 1 > 0 /\ t[n + 1].kind \in Lists
        BY <2>6 DEF Lists
      <4>2. QED
        BY <1>3, <4>1 DEF TokensAt, Opens
    <3>10. CASE e.kind \in Leaves \cup Lists
      <4>1. f \in BOOLEAN
        BY DEF Opens
      <4>2. Len(ts) > 0 /\ ts[1] \in ValueFirst
        <5>1. ~(e.kind = "statement" /\ ~e.flag)
          BY <3>10 DEF Leaves, Lists
        <5>2. QED
          BY <3>7, <3>9, <3>10, <4>1, <5>1, TokensStart, Zenon
      <4>3. Peek(a + 2) = ts[1]
        <5> HIDE DEF ts
        <5>1. a + 2 \in Nat
          BY <1>2
        <5>2. QED
          BY <3>7, <3>8, <4>2, <5>1, PeekStart
      <4>4. QED
        BY <2>1, <4>2, <4>3, Zenon DEF ValueFirst
    <3>11. CASE e.kind \notin Leaves \cup Lists
      <4>1. e.kind = "end"
        BY <3>3, <3>7, <3>11, FitsCases, NodeParts DEF Leaves, Lists
      <4>2. ts = <<")">>
        BY <3>3, <3>7, <3>9, <4>1, TokensCases, Zenon
      <4>3. Len(ts) = 1
        BY <4>2, SpelledLength, Zenon
      <4>4. \A m \in 1 .. Len(t) :
               Peek(Len(Txt(t, s, m - 1)) + Len(TokensAt(t, m))) \in Follow
        BY Followed
      <4>5. Peek(a + 3) \in Follow
        <5> DEFINE m == n + 2
                   x == Len(Txt(t, s, m - 1))
                   y == Len(TokensAt(t, m))
        <5>1. m \in 1 .. Len(t) /\ x = a + 2 /\ y = 1
          BY <1>3, <3>5, <3>6, <4>3
        <5> HIDE DEF m
        <5>2. Peek(x + y) \in Follow
          BY <4>4, <5>1
        <5> HIDE DEF x, y
        <5>3. x + y = a + 3
          BY <1>2, <5>1
        <5>4. QED
          BY <5>2, <5>3
      <4>6. QED
        BY <2>1, <4>5 DEF Follow, First
    <3>12. QED
      BY <3>10, <3>11
  <2>7. QED
    BY <2>2, <2>3, <2>4, <2>5, <2>6
<1>8. Peek(a) # "async"
  BY <1>5 DEF ValueFirst
<1>9. QED
  BY <1>5, <1>7, <1>8, Zenon DEF IsFunctionDeclarationStart, Signature

-----------------------------------------------------------------------------
(* The parser reads the node that was written                              *)

Hidden(e, o) == e = Node("call", TRUE, "none") /\ Top(o) = "call"

\* Node e comes next in the text.
Due(e) == /\ e \in NodeType /\ Fits(e, open) /\ Reads(at, NextTokens(e))
          /\ Peek(at + Len(NextTokens(e))) \in Follow
          /\ Plain(e) => Peek(at) \in ValueFirst /\ ~IsFunctionDeclarationStart(at)

LEMMA PrimaryMakes ==
  ASSUME NEW i \in Nat, NEW e \in NodeType, e.kind \in Leaves \cup Lists, e.flag => e.kind = "call",
         Reads(i, Value(e)), e.kind = "id" => Peek(i + 1) \notin {":", "("},
         ParsePrimaryExpression(i, e.label)
  PROVE  Make(e, i + Len(Value(e)))
<1>1. e.flag \in BOOLEAN /\ e.kind \in {"map", "call", "num", "str", "id"} /\ e = Node(e.kind, e.flag, e.label)
  BY NodeParts DEF Leaves, Lists
<1>2. CASE e.kind = "num"
  <2>1. Value(e) = <<"num">> /\ Len(Value(e)) = 1 /\ e.flag = FALSE
    BY <1>1, <1>2, ValueType, SpelledLength, Zenon
  <2>2. Peek(i) = "num"
    BY <2>1, ReadsOne, Zenon
  <2>3. QED
    BY <1>1, <1>2, <2>1, <2>2, PrimaryChoice, Zenon
<1>3. CASE e.kind = "str"
  <2>1. Value(e) = <<"str">> /\ Len(Value(e)) = 1 /\ e.flag = FALSE
    BY <1>1, <1>3, ValueType, SpelledLength, Zenon
  <2>2. Peek(i) = "str"
    BY <2>1, ReadsOne, Zenon
  <2>3. QED
    BY <1>1, <1>3, <2>1, <2>2, PrimaryChoice, Zenon
<1>4. CASE e.kind = "map"
  <2>1. Value(e) = <<"{">> /\ Len(Value(e)) = 1 /\ e.flag = FALSE
    BY <1>1, <1>4, ValueType, SpelledLength, Zenon
  <2>2. Peek(i) = "{"
    BY <2>1, ReadsOne, Zenon
  <2>3. QED
    BY <1>1, <1>4, <2>1, <2>2, PrimaryChoice, Zenon
<1>5. CASE e.kind = "id"
  <2>1. Value(e) = <<"id">> /\ Len(Value(e)) = 1 /\ e.flag = FALSE
    BY <1>1, <1>5, ValueType, SpelledLength, Zenon
  <2>2. Peek(i) = "id"
    BY <2>1, ReadsOne, Zenon
  <2>3. QED
    BY <1>1, <1>5, <2>1, <2>2, PrimaryChoice, Zenon
<1>6. CASE e.kind = "call" /\ e.flag
  <2>1. Value(e) = <<"id", ":", "id", "(">> /\ Len(Value(e)) = 4 /\ e.flag = TRUE
    BY <1>1, <1>6, ValueType, SpelledLength, Zenon
  <2>2. Reads(i, <<"id", ":">>) /\ Reads(i + 2, <<"id", "(">>)
    BY <2>1, ReadsReceiver, Zenon
  <2>3. QED
    BY <1>1, <1>6, <2>1, <2>2, PrimaryChoice, Zenon
<1>7. CASE e.kind = "call" /\ ~e.flag
  <2>1. Value(e) = <<"id", "(">> /\ Len(Value(e)) = 2 /\ e.flag = FALSE
    BY <1>1, <1>7, ValueType, SpelledLength, Zenon
  <2>2. Reads(i, <<"id", "(">>)
    BY <2>1, Zenon
  <2>3. QED
    BY <1>1, <1>7, <2>1, <2>2, PrimaryChoice, Zenon
<1>8. QED
  BY <1>1, <1>2, <1>3, <1>4, <1>5, <1>6, <1>7

\* A part of a list is read in three pieces.
LEMMA PartReads ==
  ASSUME Sound, NEW e \in NodeType, e.kind \in Leaves \cup Lists, Reads(at, NextTokens(e)),
         NEW c, c = Comma(open, Opens(built, Len(built)))
  PROVE  /\ Reads(at, c) /\ Reads(at + Len(c), Label(e))
         /\ Reads(at + Len(c) + Len(Label(e)), Value(e))
         /\ Len(c) \in Nat /\ Len(Label(e)) \in Nat /\ Len(Value(e)) \in Nat
         /\ at + Len(NextTokens(e)) = at + Len(c) + Len(Label(e)) + Len(Value(e))
<1> DEFINE l == Label(e)
           v == Value(e)
           ts == NextTokens(e)
<1>1. at \in Nat /\ open \in Seq(Calls)
  BY OpenType DEF Sound, SoundType
<1>2. c \in Seq(Kinds) /\ l \in Seq(Kinds) /\ v \in Seq(Kinds)
  BY ValueStart, NodeParts, Spelled, Zenon DEF Label, Comma
<1>3. ts = c \o l \o v
  BY <1>1, TokensCases, Zenon DEF NextTokens
<1> HIDE DEF l, v, ts
<1>4. Len(ts) = Len(c) + Len(l) + Len(v) /\ c \o l \in Seq(Kinds) /\ Len(c \o l) = Len(c) + Len(l)
      /\ Len(c) \in Nat /\ Len(l) \in Nat /\ Len(v) \in Nat
  BY <1>2, <1>3
<1>5. Reads(at, (c \o l) \o v)
  BY <1>3 DEF ts
<1>6. Reads(at, c \o l) /\ Reads(at + Len(c \o l), v)
  BY <1>1, <1>2, <1>4, <1>5, ReadsConcat
<1>7. Reads(at, c) /\ Reads(at + Len(c), l)
  BY <1>1, <1>2, <1>6, ReadsConcat
<1>8. at + Len(c \o l) = at + Len(c) + Len(l) /\ at + Len(ts) = at + Len(c) + Len(l) + Len(v)
  BY <1>1, <1>4
<1>9. Reads(at + Len(c) + Len(l), v)
  BY <1>6, <1>8, Zenon
<1>10. QED
  BY <1>4, <1>7, <1>8, <1>9, Zenon DEF l, v, ts

LEMMA DueStatement ==
  ASSUME Sound, NEW e, Due(e), e.kind = "statement", ParseStatement
  PROVE  Make(e, at + Len(NextTokens(e)))
<1>1. at \in Nat /\ open \in Seq(Calls) /\ e \in NodeType /\ e.flag \in BOOLEAN /\ at + 0 = at
  BY OpenType, NodeParts DEF Sound, SoundType, Due
<1>2. e = Node("statement", e.flag, "none")
  BY <1>1, FitsCases, NodeParts, Zenon DEF Due
<1>3. CASE e.flag
  <2>1. NextTokens(e) = <<"local", "id", "=">> /\ Len(NextTokens(e)) = 3 /\ e.flag = TRUE
    BY <1>1, <1>3, TokensCases, SpelledLength, Zenon DEF NextTokens
  <2>2. Peek(at) = "local" /\ Reads(at + 1, <<"id", "=">>)
    BY <1>1, <2>1, ReadsLong, Zenon DEF Due
  <2>3. QED
    BY <1>2, <2>1, <2>2, Zenon DEF ParseStatement
<1>4. CASE ~e.flag
  <2>1. NextTokens(e) = <<>> /\ Len(NextTokens(e)) = 0 /\ e.flag = FALSE
    BY <1>1, <1>4, TokensCases, SpelledLength, Zenon DEF NextTokens
  <2>2. Peek(at) # "local"
    BY <1>4 DEF Due, Plain, ValueFirst
  <2>3. QED
    BY <1>1, <1>2, <2>1, <2>2, Zenon DEF ParseStatement
<1>5. QED
  BY <1>3, <1>4

LEMMA DueProgram ==
  ASSUME Sound, NEW e, Due(e), ParseProgram
  PROVE  Make(e, at + Len(NextTokens(e)))
<1>1. at \in Nat /\ open \in Seq(Calls) /\ e \in NodeType /\ e.flag \in BOOLEAN
      /\ Top(open) = "program"
  BY OpenType, NodeParts DEF Sound, SoundType, Due, ParseProgram
<1>2. e.kind \in {"import", "function", "statement"}
  <2>1. e.kind \notin Leaves \cup Lists
    BY <1>1, FitsCases, LabelsAre, Zenon DEF Due
  <2>2. e.kind # "end"
    BY <1>1, FitsCases DEF Due
  <2>3. QED
    BY <1>1, <2>1, <2>2, NodeParts DEF Leaves, Lists
<1>3. CASE e.kind = "import"
  <2>1. e = Node("import", FALSE, "none")
    <3>1. e.label = "none" /\ e.flag = FALSE
      BY <1>1, <1>3, FitsCases DEF Due
    <3>2. QED
      BY <1>1, <1>3, <3>1, NodeParts, Zenon
  <2>2. NextTokens(e) = <<"import", "(", "str", ")", "as", "id">> /\ Len(NextTokens(e)) = 6
    BY <1>1, <1>3, TokensCases, SpelledLength, Zenon DEF NextTokens
  <2>3. Peek(at) = "import" /\ Reads(at + 1, <<"(", "str", ")", "as", "id">>)
    BY <1>1, <2>2, ReadsLong, Zenon DEF Due
  <2>4. ~IsFunctionDeclarationStart(at)
    <3>1. Peek(at) # "async" /\ Peek(at) # "id" /\ Peek(at) # "eof"
      BY <2>3
    <3>2. ~Reads(at, Signature)
      BY <1>1, <3>1, ReadsLong
    <3>3. QED
      BY <3>1, <3>2, Zenon DEF IsFunctionDeclarationStart, Signature
  <2>5. Peek(at) # "eof" /\ ~(Peek(at) \notin {"eof", "import"})
    BY <2>3
  <2>6. ParseImportDeclaration
    BY <2>4, <2>5, Zenon DEF ParseProgram
  <2>7. QED
    BY <2>1, <2>2, <2>3, <2>6, Zenon DEF ParseImportDeclaration
<1>4. CASE e.kind = "function" /\ e.flag
  <2>1. e = Node("function", TRUE, "none")
    <3>1. e.label = "none" /\ e.flag = TRUE
      BY <1>1, <1>4, FitsCases DEF Due
    <3>2. QED
      BY <1>1, <1>4, <3>1, NodeParts, Zenon
  <2>2. NextTokens(e) = <<"async", "id", "(", ")", "->", "then", "{">> /\ Len(NextTokens(e)) = 7
    BY <1>1, <1>4, TokensCases, SpelledLength, Zenon DEF NextTokens
  <2>3. Peek(at) = "async" /\ Reads(at + 1, Signature) /\ Peek(at + 6) = "{"
    BY <1>1, <2>2, ReadsLong, Zenon DEF Due
  <2>4. IsFunctionDeclarationStart(at) /\ Peek(at) # "eof" /\ Peek(at) # "import"
    <3>1. Peek(at) # "eof" /\ Peek(at) # "import"
      BY <2>3
    <3>2. QED
      BY <2>3, <3>1, Zenon DEF IsFunctionDeclarationStart, Signature
  <2>5. ParseFunctionDeclaration
    BY <2>4, Zenon DEF ParseProgram
  <2>6. (at + 1) + 5 = at + 6 /\ (at + 6) + 1 = at + 7
    BY <1>1
  <2>7. (Peek(at) = "async") = TRUE
    BY <2>3
  <2>8. Make(Node("function", TRUE, "none"), ((at + 1) + 5) + 1)
    BY <2>3, <2>5, <2>6, <2>7, Zenon DEF ParseFunctionDeclaration
  <2>9. QED
    BY <2>1, <2>2, <2>6, <2>8, Zenon
<1>5. CASE e.kind = "function" /\ ~e.flag
  <2>1. e = Node("function", FALSE, "none")
    <3>1. e.label = "none" /\ e.flag = FALSE
      BY <1>1, <1>5, FitsCases DEF Due
    <3>2. QED
      BY <1>1, <1>5, <3>1, NodeParts, Zenon
  <2>2. NextTokens(e) = <<"id", "(", ")", "->", "then", "{">> /\ Len(NextTokens(e)) = 6
    BY <1>1, <1>5, TokensCases, SpelledLength, Zenon DEF NextTokens
  <2>3. Reads(at, Signature) /\ Peek(at + 5) = "{" /\ Peek(at) = "id"
    BY <1>1, <2>2, ReadsLong, Zenon DEF Due
  <2>4. IsFunctionDeclarationStart(at) /\ Peek(at) # "eof" /\ Peek(at) # "import" /\ Peek(at) # "async"
    <3>1. Peek(at) # "eof" /\ Peek(at) # "import" /\ Peek(at) # "async"
      BY <2>3
    <3>2. QED
      BY <2>3, <3>1, Zenon DEF IsFunctionDeclarationStart, Signature
  <2>5. ParseFunctionDeclaration
    BY <2>4, Zenon DEF ParseProgram
  <2>6. (at + 5) + 1 = at + 6
    BY <1>1
  <2>7. (Peek(at) = "async") = FALSE
    BY <2>4
  <2>8. Make(Node("function", FALSE, "none"), (at + 5) + 1)
    BY <2>3, <2>4, <2>5, <2>7, Zenon DEF ParseFunctionDeclaration
  <2>9. QED
    BY <2>1, <2>2, <2>6, <2>8, Zenon
<1>6. CASE e.kind = "statement"
  <2>1. Peek(at) \notin {"eof", "import"} /\ ~IsFunctionDeclarationStart(at)
    <3>1. CASE e.flag
      <4>1. NextTokens(e) = <<"local", "id", "=">>
        BY <1>1, <1>6, <3>1, TokensCases, Zenon DEF NextTokens
      <4>2. Peek(at) = "local"
        BY <1>1, <4>1, ReadsLong, Zenon DEF Due
      <4>3. ~Reads(at, Signature) /\ Peek(at) # "async" /\ Peek(at) \notin {"eof", "import"}
        BY <1>1, <4>2, ReadsLong
      <4>4. QED
        BY <4>3, Zenon DEF IsFunctionDeclarationStart, Signature
    <3>2. CASE ~e.flag
      <4>1. Peek(at) \in ValueFirst /\ ~IsFunctionDeclarationStart(at)
        BY <1>6, <3>2 DEF Due, Plain
      <4>2. QED
        BY <4>1 DEF ValueFirst
    <3>3. QED
      BY <3>1, <3>2
  <2>2. ParseStatement
    <3>1. Peek(at) # "eof" /\ Peek(at) # "import"
      BY <2>1
    <3>2. QED
      BY <2>1, <3>1, Zenon DEF ParseProgram
  <2>3. QED
    BY <1>6, <2>2, DueStatement
<1>7. QED
  BY <1>1, <1>2, <1>3, <1>4, <1>5, <1>6

LEMMA DueBody ==
  ASSUME Sound, NEW e, Due(e), ParseBody
  PROVE  Make(e, at + Len(NextTokens(e)))
<1>1. at \in Nat /\ open \in Seq(Calls) /\ e \in NodeType /\ e.flag \in BOOLEAN
      /\ Top(open) = "function" /\ open # <<>>
  <2>1. Top(open) = "function"
    BY DEF ParseBody
  <2>2. QED
    BY <2>1, OpenType, CallStack, NodeParts DEF Sound, SoundType, Due
<1>2. e.kind \in {"end", "statement"}
  <2>1. e.kind \notin Leaves \cup Lists
    BY <1>1, FitsCases, LabelsAre, Zenon DEF Due
  <2>2. e.kind \notin {"import", "function"}
    BY <1>1, FitsCases DEF Due
  <2>3. QED
    BY <1>1, <2>1, <2>2, NodeParts DEF Leaves, Lists
<1>3. CASE e.kind = "end"
  <2>1. e = End
    BY <1>1, <1>3, FitsCases DEF Due
  <2>2. NextTokens(e) = <<"}", "end">> /\ Len(NextTokens(e)) = 2
    BY <1>1, <2>1, EndTokens, SpelledLength, Zenon
  <2>3. Reads(at, <<"}", "end">>) /\ Peek(at) = "}"
    BY <1>1, <2>2, ReadsPairs, Zenon DEF Due
  <2>4. ~(Peek(at) \notin {"}", "eof"})
    BY <2>3
  <2>5. QED
    BY <2>1, <2>2, <2>3, <2>4, Zenon DEF ParseBody
<1>4. CASE e.kind = "statement"
  <2>1. Peek(at) \notin {"}", "eof"}
    <3>1. CASE e.flag
      <4>1. NextTokens(e) = <<"local", "id", "=">>
        BY <1>1, <1>4, <3>1, TokensCases, Zenon DEF NextTokens
      <4>2. Peek(at) = "local"
        BY <1>1, <4>1, ReadsLong, Zenon DEF Due
      <4>3. QED
        BY <4>2
    <3>2. CASE ~e.flag
      BY <1>4, <3>2 DEF Due, Plain, ValueFirst
    <3>3. QED
      BY <3>1, <3>2
  <2>2. ParseStatement
    BY <2>1, Zenon DEF ParseBody
  <2>3. QED
    BY <1>4, <2>2, DueStatement
<1>5. QED
  BY <1>2, <1>3, <1>4

LEMMA DueId ==
  ASSUME Sound, NEW e, Due(e), e.kind = "id", NEW i \in Nat,
         at + Len(NextTokens(e)) = i + Len(Value(e))
  PROVE  Peek(i + 1) \notin {":", "("}
<1>1. Value(e) = <<"id">>
  BY ValueType DEF Due, Leaves
<1>2. Len(Value(e)) = 1
  BY <1>1, SpelledLength, Zenon
<1>3. at + Len(NextTokens(e)) = i + 1
  BY <1>2
<1>4. QED
  BY <1>3 DEF Due, Follow, First

LEMMA DueValue ==
  ASSUME Sound, NEW e, Due(e), ParseValue
  PROVE  Make(e, at + Len(NextTokens(e)))
<1>1. at \in Nat /\ open \in Seq(Calls) /\ e \in NodeType
      /\ Top(open) = "statement" /\ open # <<>> /\ ParsePrimaryExpression(at, "none")
  <2>1. Top(open) = "statement" /\ ParsePrimaryExpression(at, "none")
    BY DEF ParseValue
  <2>2. QED
    BY <2>1, OpenType, CallStack DEF Sound, SoundType, Due
<1>2. e.kind \in Leaves \cup Lists
  <2>1. e.kind \notin {"import", "function", "statement", "end"}
    BY <1>1, FitsCases DEF Due
  <2>2. QED
    BY <1>1, <2>1, NodeParts DEF Leaves, Lists
<1>3. e.label = "none" /\ (e.flag => e.kind = "call")
  BY <1>1, <1>2, FitsCases, LabelsAre, Zenon DEF Due
<1> DEFINE c == Comma(open, Opens(built, Len(built)))
<1>4. Len(c) = 0 /\ Len(Label(e)) = 0
  <2>1. "statement" \notin Lists
    BY DEF Lists
  <2>2. QED
    BY <1>1, <1>3, <2>1, SpelledLength, Zenon DEF Comma, Label
<1>5. /\ Reads(at + Len(c) + Len(Label(e)), Value(e))
      /\ at + Len(NextTokens(e)) = at + Len(c) + Len(Label(e)) + Len(Value(e))
  <2>1. Reads(at, NextTokens(e))
    BY DEF Due
  <2> HIDE DEF c
  <2>2. QED
    BY <1>1, <1>2, <2>1, PartReads, Zenon DEF c
<1> HIDE DEF c
<1>6. at + Len(c) + Len(Label(e)) = at
  BY <1>1, <1>4
<1>7. Reads(at, Value(e)) /\ at + Len(NextTokens(e)) = at + Len(Value(e))
  BY <1>5, <1>6
<1>8. e.kind = "id" => Peek(at + 1) \notin {":", "("}
  BY <1>1, <1>7, DueId
<1>9. QED
  BY <1>1, <1>2, <1>3, <1>7, <1>8, PrimaryMakes, Zenon

\* A value is not taken for the label of another one, unless it has a receiver.
LEMMA NoLabel ==
  ASSUME NEW i \in Nat, NEW e \in NodeType, e.kind \in Leaves \cup Lists, ~(e.kind = "call" /\ e.flag),
         Reads(i, Value(e)), e.kind = "id" => Peek(i + 1) \notin {":", "("}
  PROVE  ~Reads(i, <<"id", ":">>)
<1>1. e.flag \in BOOLEAN /\ e.kind \in {"map", "call", "num", "str", "id"}
  BY NodeParts DEF Leaves, Lists
<1>2. SUFFICES ASSUME Peek(i) = "id", Peek(i + 1) = ":" PROVE FALSE
  BY ReadsPairs
<1>3. CASE e.kind \in {"map", "num", "str"}
  <2>1. Value(e) = <<"{">> \/ Value(e) = <<"num">> \/ Value(e) = <<"str">>
    BY <1>3, ValueType, Zenon
  <2>2. Peek(i) \in {"{", "num", "str"}
    BY <2>1, ReadsOne, Zenon
  <2>3. QED
    BY <1>2, <2>2
<1>4. CASE e.kind = "id"
  BY <1>2, <1>4
<1>5. CASE e.kind = "call"
  <2>1. Value(e) = <<"id", "(">>
    BY <1>5, ValueType, Zenon
  <2>2. Peek(i + 1) = "("
    BY <2>1, ReadsPairs, Zenon
  <2>3. QED
    BY <1>2, <2>2
<1>6. QED
  BY <1>1, <1>3, <1>4, <1>5

LEMMA DueArgument ==
  ASSUME Sound, NEW e, Due(e), Top(open) = "call", e.kind \in Leaves \cup Lists,
         NEW c, c = Comma(open, Opens(built, Len(built))), NEW i \in Nat, i = at + Len(c),
         ParseArgument(i)
  PROVE  /\ ~Hidden(e, open) => Make(e, at + Len(NextTokens(e)))
         /\ Hidden(e, open) => \E f \in NodeType, j \in Nat : f # e /\ Make(f, j)
<1>1. at \in Nat /\ e \in NodeType /\ e.flag \in BOOLEAN /\ Reads(at, NextTokens(e))
  BY NodeParts DEF Sound, SoundType, Due
<1>2. e.label \in {"none", "id"} /\ (e.flag => e.kind = "call")
  BY <1>1, FitsCases, LabelsAre, Zenon DEF Due
<1>3. /\ Reads(i, Label(e)) /\ Reads(i + Len(Label(e)), Value(e))
      /\ Len(Label(e)) \in Nat /\ Len(Value(e)) \in Nat
      /\ at + Len(NextTokens(e)) = i + Len(Label(e)) + Len(Value(e))
  BY <1>1, PartReads, Zenon
<1>4. CASE e.label = "none"
  <2>1. Len(Label(e)) = 0
    BY <1>4, SpelledLength, Zenon DEF Label
  <2>2. i + Len(Label(e)) = i
    BY <2>1
  <2>3. Reads(i, Value(e)) /\ at + Len(NextTokens(e)) = i + Len(Value(e))
    BY <1>3, <2>2
  <2>4. e.kind = "id" => Peek(i + 1) \notin {":", "("}
    BY <2>3, DueId
  <2>5. CASE e.kind = "call" /\ e.flag
    <3>1. Hidden(e, open)
      <4>1. e = Node("call", TRUE, "none")
        BY <1>1, <1>4, <2>5, NodeParts
      <4>2. QED
        BY <4>1 DEF Hidden
    <3>2. Value(e) = <<"id", ":", "id", "(">>
      BY <1>1, <2>5, ValueType, Zenon
    <3>3. Reads(i, <<"id", ":">>) /\ Reads(i + 2, <<"id", "(">>)
      BY <2>3, <3>2, ReadsReceiver, Zenon
    <3>4. ParsePrimaryExpression(i + 2, "id")
      BY <3>3, Zenon DEF ParseArgument
    <3>5. i + 2 \in Nat /\ (i + 2) + 2 \in Nat
      OBVIOUS
    <3>6. Make(Node("call", FALSE, "id"), (i + 2) + 2)
      BY <3>3, <3>4, <3>5, PrimaryChoice, Zenon
    <3>7. Node("call", FALSE, "id") \in NodeType
      BY IsNode
    <3>8. Node("call", FALSE, "id") # e
      BY <1>4 DEF Node
    <3>9. QED
      BY <3>1, <3>5, <3>6, <3>7, <3>8, Zenon
  <2>6. CASE ~(e.kind = "call" /\ e.flag)
    <3>1. ~Hidden(e, open)
      BY <2>6 DEF Hidden, Node
    <3>2. ~Reads(i, <<"id", ":">>)
      BY <1>1, <2>3, <2>4, <2>6, NoLabel
    <3>3. ParsePrimaryExpression(i, e.label)
      BY <1>4, <3>2, Zenon DEF ParseArgument
    <3>4. Make(e, i + Len(Value(e)))
      BY <1>1, <1>2, <2>3, <2>4, <3>3, PrimaryMakes
    <3>5. QED
      BY <2>3, <3>1, <3>4, Zenon
  <2>7. QED
    BY <2>5, <2>6
<1>5. CASE e.label = "id"
  <2>1. Label(e) = <<"id", ":">> /\ Len(Label(e)) = 2
    <3>1. e.label # "none"
      BY <1>5
    <3>2. QED
      BY <1>5, <3>1, SpelledLength, Zenon DEF Label
  <2>2. Reads(i, <<"id", ":">>) /\ Reads(i + 2, Value(e))
    BY <1>3, <2>1, Zenon
  <2>3. ParsePrimaryExpression(i + 2, e.label)
    BY <1>5, <2>2, Zenon DEF ParseArgument
  <2>4. i + 2 \in Nat /\ at + Len(NextTokens(e)) = (i + 2) + Len(Value(e))
    <3>1. Len(Label(e)) = 2
      BY <2>1, Zenon
    <3>2. QED
      BY <1>3, <3>1
  <2>5. e.kind = "id" => Peek((i + 2) + 1) \notin {":", "("}
    BY <2>4, DueId
  <2>6. Make(e, (i + 2) + Len(Value(e)))
    BY <1>1, <1>2, <2>2, <2>3, <2>4, <2>5, PrimaryMakes, Zenon
  <2>7. ~Hidden(e, open)
    BY <1>5 DEF Hidden, Node
  <2>8. QED
    BY <2>4, <2>6, <2>7, Zenon
<1>6. QED
  BY <1>2, <1>4, <1>5

LEMMA DueEntry ==
  ASSUME Sound, NEW e, Due(e), Top(open) = "map", e.kind \in Leaves \cup Lists,
         NEW c, c = Comma(open, Opens(built, Len(built))), NEW i \in Nat, i = at + Len(c),
         ParseEntry(i)
  PROVE  Make(e, at + Len(NextTokens(e)))
<1>1. at \in Nat /\ e \in NodeType /\ e.flag \in BOOLEAN /\ Reads(at, NextTokens(e))
  BY NodeParts DEF Sound, SoundType, Due
<1>2. e.label \in {"str", "id"} /\ (e.flag => e.kind = "call")
  BY <1>1, FitsCases, LabelsAre, Zenon DEF Due
<1>3. /\ Reads(i, Label(e)) /\ Reads(i + Len(Label(e)), Value(e))
      /\ Len(Label(e)) \in Nat /\ Len(Value(e)) \in Nat
      /\ at + Len(NextTokens(e)) = i + Len(Label(e)) + Len(Value(e))
  BY <1>1, PartReads, Zenon
<1>4. Label(e) = <<e.label, ":">> /\ Len(Label(e)) = 2
  <2>1. e.label # "none"
    BY <1>2
  <2>2. QED
    BY <1>2, <2>1, SpelledLength, Zenon DEF Label
<1>5. Peek(i) = e.label /\ Peek(i + 1) = ":" /\ Reads(i + 2, Value(e))
  <2>1. Reads(i, <<e.label, ":">>)
    BY <1>3, <1>4, Zenon
  <2>2. QED
    BY <1>2, <1>3, <1>4, <2>1, ReadsPairs, Zenon
<1>6. ParsePrimaryExpression(i + 2, e.label)
  <2>1. Peek(i) \in {"str", "id"}
    BY <1>2, <1>5
  <2>2. QED
    BY <1>5, <2>1, Zenon DEF ParseEntry
<1>7. i + 2 \in Nat /\ at + Len(NextTokens(e)) = (i + 2) + Len(Value(e))
  <2>1. Len(Label(e)) = 2
    BY <1>4, Zenon
  <2>2. QED
    BY <1>3, <2>1
<1>8. e.kind = "id" => Peek((i + 2) + 1) \notin {":", "("}
  BY <1>7, DueId
<1>9. Make(e, (i + 2) + Len(Value(e)))
  BY <1>1, <1>2, <1>5, <1>6, <1>7, <1>8, PrimaryMakes, Zenon
<1>10. QED
  BY <1>7, <1>9

\* What comes next in a list.
LEMMA DueInList ==
  ASSUME Sound, NEW e, Due(e), Top(open) \in Lists
  PROVE  /\ e.kind \in {"end"} \cup Leaves \cup Lists
         /\ e.kind = "end" =>
              /\ e = End /\ Len(NextTokens(e)) = 1
              /\ Top(open) = "call" => Peek(at) = ")"
              /\ Top(open) = "map" => Peek(at) = "}"
         /\ e.kind \in Leaves \cup Lists =>
              /\ Opens(built, Len(built)) => Peek(at) \in ValueFirst
              /\ ~Opens(built, Len(built)) => Peek(at) = ","
<1> DEFINE f == Opens(built, Len(built))
           c == Comma(open, f)
<1>1. at \in Nat /\ e \in NodeType /\ e.flag \in BOOLEAN /\ Reads(at, NextTokens(e))
      /\ open \in Seq(Calls) /\ Fits(e, open) /\ f \in BOOLEAN
  BY OpenType, NodeParts DEF Sound, SoundType, Due, Opens
<1>2. Top(open) = "call" \/ Top(open) = "map"
  BY DEF Lists
<1>3. e.kind \in {"end"} \cup Leaves \cup Lists
  <2>1. open # <<>> /\ e.kind \notin {"import", "function", "statement"}
    BY <1>1, <1>2, FitsCases, CallStack
  <2>2. QED
    BY <1>1, <2>1, NodeParts DEF Leaves, Lists
<1>4. ASSUME e.kind = "end"
      PROVE  /\ e = End /\ Len(NextTokens(e)) = 1
             /\ Top(open) = "call" => Peek(at) = ")"
             /\ Top(open) = "map" => Peek(at) = "}"
  <2>1. e = End
    BY <1>1, <1>4, FitsCases
  <2>2. /\ Top(open) = "call" => NextTokens(e) = <<")">>
        /\ Top(open) = "map" => NextTokens(e) = <<"}">>
    BY <2>1, EndTokens
  <2>3. QED
    BY <1>1, <1>2, <2>1, <2>2, ReadsOne, SpelledLength, Zenon
<1>5. ASSUME e.kind \in Leaves \cup Lists, f PROVE Peek(at) \in ValueFirst
  <2> DEFINE ts == NextTokens(e)
  <2>0. ~(e.kind = "statement" /\ ~e.flag)
    BY <1>5 DEF Leaves, Lists
  <2>1. Len(ts) > 0 /\ ts[1] \in ValueFirst
    BY <1>1, <1>5, <2>0, TokensStart, Zenon DEF NextTokens
  <2>2. ts \in Seq(Kinds)
    BY <1>1, TokensCases, Zenon DEF NextTokens
  <2> HIDE DEF ts
  <2>3. Peek(at) = ts[1]
    BY <1>1, <2>1, <2>2, PeekStart DEF ts
  <2>4. QED
    BY <2>1, <2>3, Zenon
<1>6. ASSUME e.kind \in Leaves \cup Lists, ~f PROVE Peek(at) = ","
  <2>1. Reads(at, c)
    BY <1>1, <1>6, PartReads, Zenon
  <2>2. c = <<",">>
    BY <1>6, Zenon DEF Comma
  <2>3. QED
    BY <1>1, <2>1, <2>2, ReadsOne, Zenon
<1>7. QED
  BY <1>3, <1>4, <1>5, <1>6, Zenon

LEMMA DueCall ==
  ASSUME Sound, NEW e, Due(e), ParseCallExpression
  PROVE  /\ ~Hidden(e, open) => Make(e, at + Len(NextTokens(e)))
         /\ Hidden(e, open) => \E f \in NodeType, j \in Nat : f # e /\ Make(f, j)
<1> DEFINE first == Opens(built, Len(built))
           c == Comma(open, first)
<1>1. at \in Nat /\ Top(open) = "call" /\ Top(open) \in Lists /\ first \in BOOLEAN
  <2>1. Top(open) = "call"
    BY DEF ParseCallExpression, ParseList
  <2>2. QED
    BY <2>1 DEF Sound, SoundType, Lists, Opens
<1>2. \/ first /\ Peek(at) # ")" /\ ParseArgument(at)
      \/ ~first /\ Peek(at) = "," /\ ParseArgument(at + 1)
      \/ Peek(at) = ")" /\ Make(End, at + 1)
      \/ ~first /\ Peek(at) \notin {",", ")"} /\ Fail
  BY DEF ParseCallExpression, ParseList
<1>3. CASE e.kind = "end"
  <2>1. e = End /\ Len(NextTokens(e)) = 1 /\ Peek(at) = ")"
    BY <1>1, <1>3, DueInList
  <2>2. Make(End, at + 1)
    BY <1>2, <2>1
  <2>3. ~Hidden(e, open)
    BY <1>3 DEF Hidden, Node
  <2>4. QED
    BY <2>1, <2>2, <2>3, Zenon
<1>4. CASE e.kind \in Leaves \cup Lists
  <2>1. CASE first
    <3>1. Peek(at) \in ValueFirst
      BY <1>1, <1>4, <2>1, DueInList
    <3>2. Peek(at) # ")"
      BY <3>1 DEF ValueFirst
    <3>3. ParseArgument(at)
      BY <1>2, <2>1, <3>2, Zenon
    <3>4. Len(c) = 0
      BY <2>1, SpelledLength, Zenon DEF Comma
    <3>5. at = at + Len(c)
      <4> HIDE DEF c
      <4>1. QED
        BY <1>1, <3>4
    <3>6. QED
      BY <1>1, <1>4, <3>3, <3>5, DueArgument, Zenon
  <2>2. CASE ~first
    <3>1. Peek(at) = ","
      BY <1>1, <1>4, <2>2, DueInList
    <3>2. Peek(at) # ")"
      BY <3>1
    <3>3. ParseArgument(at + 1)
      BY <1>2, <2>2, <3>1, <3>2, Zenon
    <3>4. Len(c) = 1
      BY <1>1, <2>2, SpelledLength, Zenon DEF Comma
    <3>5. at + 1 = at + Len(c) /\ at + 1 \in Nat
      <4> HIDE DEF c
      <4>1. QED
        BY <1>1, <3>4
    <3>6. QED
      BY <1>1, <1>4, <3>3, <3>5, DueArgument, Zenon
  <2>3. QED
    BY <1>1, <2>1, <2>2
<1>5. QED
  BY <1>1, <1>3, <1>4, DueInList, Zenon

LEMMA DueMap ==
  ASSUME Sound, NEW e, Due(e), ParseMapExpression
  PROVE  Make(e, at + Len(NextTokens(e)))
<1> DEFINE first == Opens(built, Len(built))
           c == Comma(open, first)
<1>1. at \in Nat /\ Top(open) = "map" /\ Top(open) \in Lists /\ first \in BOOLEAN
  <2>1. Top(open) = "map"
    BY DEF ParseMapExpression, ParseList
  <2>2. QED
    BY <2>1 DEF Sound, SoundType, Lists, Opens
<1>2. \/ first /\ Peek(at) # "}" /\ ParseEntry(at)
      \/ ~first /\ Peek(at) = "," /\ ParseEntry(at + 1)
      \/ Peek(at) = "}" /\ Make(End, at + 1)
      \/ ~first /\ Peek(at) \notin {",", "}"} /\ Fail
  BY DEF ParseMapExpression, ParseList
<1>3. CASE e.kind = "end"
  <2>1. e = End /\ Len(NextTokens(e)) = 1 /\ Peek(at) = "}"
    BY <1>1, <1>3, DueInList
  <2>2. Make(End, at + 1)
    <3>1. Peek(at) # "," /\ ~(Peek(at) \notin {",", "}"}) /\ ~(Peek(at) # "}")
      BY <2>1
    <3>2. QED
      BY <1>2, <3>1, Zenon
  <2>3. QED
    BY <2>1, <2>2, Zenon
<1>4. CASE e.kind \in Leaves \cup Lists
  <2>1. CASE first
    <3>1. Peek(at) \in ValueFirst
      BY <1>1, <1>4, <2>1, DueInList
    <3>2. Peek(at) # "}"
      BY <3>1 DEF ValueFirst
    <3>3. ParseEntry(at)
      BY <1>2, <2>1, <3>2, Zenon
    <3>4. Len(c) = 0
      BY <2>1, SpelledLength, Zenon DEF Comma
    <3>5. at = at + Len(c)
      <4> HIDE DEF c
      <4>1. QED
        BY <1>1, <3>4
    <3>6. QED
      BY <1>1, <1>4, <3>3, <3>5, DueEntry, Zenon
  <2>2. CASE ~first
    <3>1. Peek(at) = ","
      BY <1>1, <1>4, <2>2, DueInList
    <3>2. Peek(at) # "}" /\ ~(Peek(at) \notin {",", "}"})
      BY <3>1
    <3>3. ParseEntry(at + 1)
      BY <1>2, <2>2, <3>1, <3>2, Zenon
    <3>4. Len(c) = 1
      BY <1>1, <2>2, SpelledLength, Zenon DEF Comma
    <3>5. at + 1 = at + Len(c) /\ at + 1 \in Nat
      <4> HIDE DEF c
      <4>1. QED
        BY <1>1, <3>4
    <3>6. QED
      BY <1>1, <1>4, <3>3, <3>5, DueEntry, Zenon
  <2>3. QED
    BY <1>1, <2>1, <2>2
<1>5. QED
  <2>1. e.kind \in {"end"} \cup Leaves \cup Lists
    BY <1>1, DueInList
  <2>2. QED
    BY <1>3, <1>4, <2>1

LEMMA DueMakes ==
  ASSUME Sound, NEW e, Due(e), Parses
  PROVE  /\ ~Hidden(e, open) => Make(e, at + Len(NextTokens(e)))
         /\ Hidden(e, open) => \E f \in NodeType, j \in Nat : f # e /\ Make(f, j)
<1>1. Top(open) # "call" => ~Hidden(e, open)
  BY DEF Hidden
<1>2. CASE ParseProgram
  <2>1. Top(open) # "call"
    BY <1>2 DEF ParseProgram
  <2>2. QED
    BY <1>1, <1>2, <2>1, DueProgram
<1>3. CASE ParseBody
  <2>1. Top(open) # "call"
    BY <1>3 DEF ParseBody
  <2>2. QED
    BY <1>1, <1>3, <2>1, DueBody
<1>4. CASE ParseValue
  <2>1. Top(open) # "call"
    BY <1>4 DEF ParseValue
  <2>2. QED
    BY <1>1, <1>4, <2>1, DueValue
<1>5. CASE ParseCallExpression
  BY <1>5, DueCall
<1>6. CASE ParseMapExpression
  <2>1. Top(open) # "call"
    BY <1>6 DEF ParseMapExpression, ParseList
  <2>2. QED
    BY <1>1, <1>6, <2>1, DueMap
<1>7. QED
  BY <1>2, <1>3, <1>4, <1>5, <1>6 DEF Parses

-----------------------------------------------------------------------------
(* The parser follows the program that was written                         *)

\* The nodes that are built are the first ones of the program.
InSync(t, s) == /\ Len(built) <= Len(t)
                /\ \A k \in 1 .. Len(built) : built[k] = t[k] /\ (k \in semicolons <=> k \in s)
Strayed(t) == \E k \in 1 .. Len(built) : k <= Len(t) /\ built[k] # t[k]
Follows(t, s) ==
  \/ /\ InSync(t, s) /\ stage # "failed" /\ (stage = "parsed" => Len(built) = Len(t))
     /\ \A k \in 1 .. Len(built) : ~Hidden(t[k], Opn(t, k - 1))
  \/ HidesReceiver(t) /\ (stage = "failed" \/ Strayed(t))
Complete == edited \/ /\ program \in Programs
                      /\ stage = "new" \/ \E s : Intact(program, s) /\ Follows(program, s)

LEMMA HidesIs ==
  ASSUME NEW t
  PROVE  HidesReceiver(t) <=> \E n \in DOMAIN t : Hidden(t[n], Opn(t, n - 1))
  BY DEF HidesReceiver, Hidden, Opn

LEMMA SamePrefixAt ==
  ASSUME NEW t \in Seq(NodeType), NEW u \in Seq(NodeType), NEW s, NEW r, Len(u) <= Len(t),
         \A k \in 1 .. Len(u) : u[k] = t[k] /\ (k \in r <=> k \in s)
  PROVE  Txt(t, s, Len(u)) = Txt(u, r, Len(u)) /\ Opn(t, Len(u)) = Opn(u, Len(u))
<1> DEFINE m == Len(u)
<1>1. m \in Nat /\ m <= Len(t) /\ m <= Len(u) /\ m \in 0 .. m
  OBVIOUS
<1>2. \A k \in 1 .. m : t[k] = u[k] /\ (k \in s <=> k \in r)
  OBVIOUS
<1> HIDE DEF m
<1>3. \A n \in 0 .. m : Txt(t, s, n) = Txt(u, r, n) /\ Opn(t, n) = Opn(u, n)
  BY <1>1, <1>2, SamePrefix
<1>4. QED
  BY <1>1, <1>3 DEF m

LEMMA SyncPlace ==
  ASSUME Sound, NEW t, NEW s, Intact(t, s), InSync(t, s)
  PROVE  /\ Len(built) \in 0 .. Len(t) /\ t \in Seq(NodeType)
         /\ open = Opn(t, Len(built)) /\ at = Len(Txt(t, s, Len(built)))
         /\ Opens(built, Len(built)) = Opens(t, Len(built))
<1> DEFINE L == Len(built)
<1>1. built \in Seq(NodeType) /\ t \in Seq(NodeType) /\ L \in Nat /\ L <= Len(t) /\ L <= Len(built)
  BY DEF Sound, SoundType, Intact, InSync
<1>2. \A k \in 1 .. L : built[k] = t[k] /\ (k \in semicolons <=> k \in s)
  BY DEF InSync
<1>3. Txt(t, s, L) = Txt(built, semicolons, L) /\ Opn(t, L) = Opn(built, L)
  BY <1>1, <1>2, SamePrefixAt, Zenon
<1>4. open = Opn(built, L) /\ Len(Txt(built, semicolons, L)) = at
  BY DEF Sound, SoundTree, Starts
<1>5. Opens(built, L) = Opens(t, L)
  <2>1. CASE L = 0
    BY <2>1 DEF Opens
  <2>2. CASE L # 0
    <3>1. L \in 1 .. L
      BY <1>1, <2>2
    <3>2. t[L] = built[L]
      BY <1>2, <3>1
    <3> HIDE DEF L
    <3>3. QED
      BY <3>2 DEF Opens
  <2>3. QED
    BY <2>1, <2>2
<1>6. QED
  BY <1>1, <1>3, <1>4, <1>5

\* The next node of the program is the next one in the text.
LEMMA SyncDue ==
  ASSUME Sound, NEW t, NEW s, Intact(t, s), InSync(t, s), Len(built) < Len(t),
         NEW n, n = Len(built) + 1
  PROVE  /\ n \in 1 .. Len(t) /\ n - 1 = Len(built) /\ Due(t[n]) /\ open = Opn(t, n - 1)
         /\ n \in s <=> Completes(t[n], open) /\ Peek(at + Len(NextTokens(t[n]))) = ";"
<1>1. n \in 1 .. Len(t) /\ n - 1 = Len(built)
  BY DEF Intact, Sound, SoundType
<1>2. /\ open = Opn(t, n - 1) /\ at = Len(Txt(t, s, n - 1))
      /\ Opens(built, Len(built)) = Opens(t, n - 1)
  BY <1>1, SyncPlace
<1>3. NextTokens(t[n]) = TokensAt(t, n)
  BY <1>1, <1>2, Zenon DEF NextTokens, TokensAt
<1>4. t[n] \in NodeType /\ Fits(t[n], open)
  BY <1>1, <1>2, IntactNode
<1>5. Reads(at, NextTokens(t[n]))
  BY <1>1, <1>2, <1>3, Placed, Zenon
<1>6. /\ Peek(at + Len(NextTokens(t[n]))) \in Follow
      /\ n \in s <=> Completes(t[n], open) /\ Peek(at + Len(NextTokens(t[n]))) = ";"
  <2> DEFINE b == Len(Txt(t, s, n - 1)) + Len(TokensAt(t, n))
  <2>1. Peek(b) \in Follow /\ (n \in s <=> Completes(t[n], Opn(t, n - 1)) /\ Peek(b) = ";")
    BY <1>1, Followed
  <2>2. b = at + Len(NextTokens(t[n]))
    BY <1>2, <1>3, Zenon
  <2> HIDE DEF b
  <2>3. QED
    BY <1>2, <2>1, <2>2, Zenon
<1>7. Plain(t[n]) => Peek(at) \in ValueFirst /\ ~IsFunctionDeclarationStart(at)
  BY <1>1, <1>2, NoFunction, Zenon
<1>8. QED
  BY <1>1, <1>2, <1>4, <1>5, <1>6, <1>7, Zenon DEF Due

\* At the end of the text the program is complete.
LEMMA AtEnd ==
  ASSUME at \in Nat, Parses, open = <<>>, Peek(at) = "eof"
  PROVE  Finish
<1>1. Top(open) = "program"
  BY DEF Top
<1>2. ParseProgram
  BY <1>1 DEF Parses, ParseBody, ParseValue, ParseCallExpression, ParseMapExpression, ParseList
<1>3. ~IsFunctionDeclarationStart(at)
  <2>1. Peek(at) # "async" /\ Peek(at) # "id"
    OBVIOUS
  <2>2. ~Reads(at, <<"id", "(", ")", "->", "then">>)
    <3> DEFINE ts == <<"id", "(", ")", "->", "then">>
    <3>1. 1 \in DOMAIN ts /\ ts[1] = "id"
      OBVIOUS
    <3>2. at + 1 - 1 = at
      OBVIOUS
    <3> HIDE DEF ts
    <3>3. QED
      BY <2>1, <3>1, <3>2 DEF Reads, ts
  <2>3. QED
    BY <2>1, <2>2, Zenon DEF IsFunctionDeclarationStart
<1>4. Peek(at) # "import" /\ ~(Peek(at) \notin {"eof", "import"})
  OBVIOUS
<1>5. QED
  BY <1>2, <1>3, <1>4, Zenon DEF ParseProgram, Finish

\* What Make does, in the words of the tree.
LEMMA MakeTree ==
  ASSUME Sound, stage = "parse", NEW e \in NodeType, NEW i, Make(e, i)
  PROVE  /\ stage' = "parse" /\ program' = program /\ text' = text /\ edited' = edited
         /\ built' \in Seq(NodeType) /\ Len(built') = Len(built) + 1 /\ built'[Len(built) + 1] = e
         /\ \A k \in 1 .. Len(built) : built'[k] = built[k] /\ (k \in semicolons' <=> k \in semicolons)
         /\ Len(built) + 1 \in semicolons' <=> Completes(e, open) /\ Peek(i) = ";"
<1>1. built \in Seq(NodeType) /\ semicolons \subseteq 1 .. Len(built)
  <2>1. built \in Seq(NodeType) /\ semicolons \subseteq DOMAIN built
    BY EndingsAre DEF Sound, SoundType
  <2>2. QED
    BY <2>1
<1>2. /\ stage' = "parse" /\ program' = program /\ text' = text /\ edited' = edited
      /\ built' = Append(built, e)
  BY DEF Make
<1>3. /\ built' \in Seq(NodeType) /\ Len(built') = Len(built) + 1 /\ built'[Len(built) + 1] = e
      /\ \A k \in 1 .. Len(built) : built'[k] = built[k]
  BY <1>1, <1>2
<1> DEFINE c == Completes(e, open) /\ Peek(i) = ";"
           n == Len(built) + 1
<1>4. c => semicolons' = semicolons \cup {n}
  BY Zenon DEF Make
<1>5. ~c => semicolons' = semicolons
  BY Zenon DEF Make
<1>6. n \notin semicolons /\ \A k \in 1 .. Len(built) : k # n
  BY <1>1
<1> HIDE DEF c, n
<1>7. n \in semicolons' <=> c
  BY <1>4, <1>5, <1>6
<1>8. \A k \in 1 .. Len(built) : k \in semicolons' <=> k \in semicolons
  BY <1>4, <1>5, <1>6
<1>9. QED
  BY <1>2, <1>3, <1>7, <1>8, Zenon DEF c, n

LEMMA SyncStep ==
  ASSUME Sound, Parses, NEW s, Intact(program, s), InSync(program, s),
         \A k \in 1 .. Len(built) : ~Hidden(program[k], Opn(program, k - 1))
  PROVE  Follows(program, s)' /\ program' = program /\ text' = text /\ edited' = edited
<1> DEFINE L == Len(built)
           n == L + 1
           e == program[n]
<1>1. stage = "parse" /\ at \in Nat /\ L \in Nat
  BY ParseStep DEF Sound, SoundType
<1>2. program \in Seq(NodeType) /\ L \in 0 .. Len(program) /\ open = Opn(program, L)
      /\ at = Len(Txt(program, s, L))
  BY SyncPlace
<1>3. CASE L = Len(program)
  <2>1. open = <<>> /\ Peek(at) = "eof"
    <3>1. Opn(program, Len(program)) = <<>> /\ Len(Txt(program, s, Len(program))) = Len(text)
      BY EndsWhole
    <3>2. open = <<>> /\ at = Len(text)
      BY <1>2, <1>3, <3>1
    <3>3. QED
      BY <3>2 DEF Peek
  <2>2. Finish
    BY <1>1, <2>1, AtEnd
  <2>3. /\ stage' = "parsed" /\ program' = program /\ text' = text /\ edited' = edited
        /\ built' = built /\ semicolons' = semicolons
    BY <2>2 DEF Finish
  <2>4. InSync(program, s)'
    BY <2>3 DEF InSync
  <2>5. Follows(program, s)'
    BY <1>3, <2>3, <2>4 DEF Follows
  <2>6. QED
    BY <2>3, <2>5
<1>4. CASE L # Len(program)
  <2>1. L < Len(program)
    BY <1>2, <1>4
  <2>0. n \in 1 .. Len(program) /\ n <= Len(program) /\ n \in DOMAIN program /\ n \in 1 .. n
    BY <1>1, <1>2, <2>1
  <2>2. /\ n \in 1 .. Len(program) /\ n - 1 = L /\ Due(e) /\ open = Opn(program, n - 1)
        /\ n \in s <=> Completes(e, open) /\ Peek(at + Len(NextTokens(e))) = ";"
    BY <2>1, SyncDue
  <2>3. e \in NodeType
    BY <2>2 DEF Due
  <2>4. CASE ~Hidden(e, open)
    <3>1. Make(e, at + Len(NextTokens(e)))
      BY <2>2, <2>4, DueMakes
    <3>2. /\ stage' = "parse" /\ program' = program /\ text' = text /\ edited' = edited
          /\ Len(built') = n /\ built'[n] = e
          /\ \A k \in 1 .. L : built'[k] = built[k] /\ (k \in semicolons' <=> k \in semicolons)
          /\ n \in semicolons' <=> Completes(e, open) /\ Peek(at + Len(NextTokens(e))) = ";"
      BY <1>1, <2>3, <3>1, MakeTree, Zenon
    <3>3. \A k \in 1 .. n : k = n \/ k \in 1 .. L
      BY <1>1
    <3> DEFINE p == program
    <3>4. \A k \in 1 .. L : built[k] = p[k] /\ (k \in semicolons <=> k \in s)
      BY DEF InSync
    <3> HIDE DEF L
    <3>5. n \in semicolons' <=> n \in s
      BY <2>2, <3>2, Zenon
    <3>6. \A k \in 1 .. n : built'[k] = p[k] /\ (k \in semicolons' <=> k \in s)
      BY <3>2, <3>3, <3>4, <3>5, Zenon
    <3>7. Len(built') <= Len(p)
      BY <2>0, <3>2, Zenon
    <3>8. InSync(p, s)'
      BY <3>2, <3>6, <3>7 DEF InSync
    <3>9. \A k \in 1 .. n : ~Hidden(p[k], Opn(p, k - 1))
      <4>1. ~Hidden(p[n], Opn(p, n - 1))
        BY <2>2, <2>4, Zenon
      <4>2. QED
        BY <3>3, <4>1, Zenon DEF L
    <3>10. \A k \in 1 .. Len(built') : ~Hidden(program'[k], Opn(program', k - 1))
      BY <3>2, <3>9
    <3>11. stage' # "failed" /\ (stage' = "parsed" => Len(built') = Len(program'))
      BY <3>2
    <3>12. Follows(program, s)'
      BY <3>8, <3>10, <3>11 DEF Follows
    <3>13. QED
      BY <3>2, <3>12
  <2>5. CASE Hidden(e, open)
    <3>1. PICK f \in NodeType, j \in Nat : f # e /\ Make(f, j)
      BY <2>2, <2>5, DueMakes
    <3>2. /\ stage' = "parse" /\ program' = program /\ text' = text /\ edited' = edited
          /\ Len(built') = n /\ built'[n] = f
      BY <1>1, <3>1, MakeTree, Zenon
    <3>3. Strayed(program)'
      <4>1. n \in 1 .. Len(built') /\ n <= Len(program') /\ built'[n] # program'[n]
        BY <2>0, <3>1, <3>2, Zenon
      <4>2. QED
        BY <4>1 DEF Strayed
    <3>4. HidesReceiver(program)
      <4>1. n \in DOMAIN program
        BY <2>0
      <4>2. QED
        BY <2>2, <2>5, <4>1, HidesIs
    <3>5. HidesReceiver(program)'
      BY <3>2, <3>4
    <3>6. QED
      BY <3>2, <3>3, <3>5 DEF Follows
  <2>6. QED
    BY <2>4, <2>5
<1>5. QED
  BY <1>3, <1>4

LEMMA CompleteInit ==
  ASSUME ParserInit
  PROVE  Complete
  BY DEF ParserInit, Complete

\* A program that is written down is there, and nothing of it is parsed.
LEMMA WrittenFollows ==
  ASSUME Sound, Complete, ~edited, WriteProgram
  PROVE  Complete'
<1>1. /\ stage = "new" /\ stage' = "written" /\ text' \in ProgramTexts(program)
      /\ program' = program /\ edited' = edited /\ built' = built /\ semicolons' = semicolons
  BY DEF WriteProgram
<1>2. built = <<>> /\ program \in Programs /\ Len(built) = 0
  BY <1>1 DEF Sound, SoundStage, Complete
<1>3. program \in Seq(NodeType) /\ WellFormed(program)
  BY <1>2, ProgramsAssumption
<1>4. PICK s \in SUBSET Endings(program) : text' = Txt(program, s, Len(program))
  BY <1>1, <1>3, ProgramTextKinds
<1>5. Intact(program, s)'
  BY <1>1, <1>3, <1>4 DEF Intact
<1>6. Follows(program, s)'
  <2>1. Len(built') = 0 /\ Len(program') \in Nat
    BY <1>1, <1>2, <1>3
  <2>2. InSync(program, s)'
    BY <2>1 DEF InSync
  <2>3. \A k \in 1 .. Len(built') : ~Hidden(program'[k], Opn(program', k - 1))
    BY <2>1
  <2>4. QED
    BY <1>1, <2>2, <2>3 DEF Follows
<1>7. QED
  BY <1>1, <1>2, <1>5, <1>6 DEF Complete

\* A parser that has left the program does not come back to it.
LEMMA StrayedStep ==
  ASSUME Sound, Parses, HidesReceiver(program), Strayed(program)
  PROVE  /\ HidesReceiver(program)' /\ (stage' = "failed" \/ Strayed(program)')
         /\ program' = program /\ text' = text /\ edited' = edited
<1>1. stage = "parse" /\ (Fail \/ Finish \/ \E e : Puts(e))
  BY ParseStep
<1>2. CASE Fail
  BY <1>2 DEF Fail
<1>3. CASE Finish
  BY <1>3 DEF Finish, Strayed
<1>4. CASE \E e : Puts(e)
  <2>1. PICK e : Puts(e)
    BY <1>4
  <2>2. /\ program' = program /\ text' = text /\ edited' = edited
        /\ Len(built') = Len(built) + 1
        /\ \A k \in 1 .. Len(built) : built'[k] = built[k]
    BY <1>1, <2>1, MakeTree DEF Puts
  <2>3. PICK k \in 1 .. Len(built) : k <= Len(program) /\ built[k] # program[k]
    BY DEF Strayed
  <2>4. k \in 1 .. Len(built') /\ built'[k] = built[k]
    <3>1. Len(built) \in Nat
      BY DEF Sound, SoundType
    <3>2. QED
      BY <2>2, <3>1
  <2>5. QED
    BY <2>2, <2>3, <2>4 DEF Strayed
<1>5. QED
  BY <1>1, <1>2, <1>3, <1>4

LEMMA CompleteStep ==
  ASSUME Sound, Complete, [ParserNext]_parserVars
  PROVE  Complete'
<1>1. CASE UNCHANGED parserVars
  BY <1>1 DEF parserVars, Complete, Intact, Follows, InSync, Strayed
<1>2. CASE EditText
  BY <1>2 DEF EditText, Complete
<1>3. CASE edited /\ ParserNext
  <2>1. edited'
    <3>1. CASE EditText
      BY <3>1 DEF EditText
    <3>2. CASE Parses
      <4>1. Fail \/ Finish \/ \E e : Puts(e)
        BY <3>2, ParseStep
      <4>2. QED
        BY <1>3, <4>1 DEF Fail, Finish, Puts, Make
    <3>3. CASE WriteProgram \/ ParseText
      BY <1>3, <3>3 DEF WriteProgram, ParseText
    <3>4. QED
      BY <1>3, <3>1, <3>2, <3>3 DEF ParserNext, Parses
  <2>2. QED
    BY <2>1 DEF Complete
<1>4. CASE ~edited /\ WriteProgram
  BY <1>4, WrittenFollows
<1>5. CASE ~edited /\ ParseText
  <2>1. /\ stage \in {"written", "edited"} /\ stage' = "parse" /\ program' = program /\ text' = text
        /\ edited' = edited /\ built' = built /\ semicolons' = semicolons
    BY <1>5 DEF ParseText
  <2>2. stage # "new" /\ stage # "failed" /\ program \in Programs
    BY <1>5, <2>1 DEF Complete
  <2>3. PICK s : Intact(program, s) /\ Follows(program, s)
    BY <1>5, <2>2 DEF Complete
  <2>4. Intact(program, s)'
    BY <2>1, <2>3 DEF Intact
  <2>5. Follows(program, s)'
    <3>1. CASE HidesReceiver(program) /\ Strayed(program)
      <4>1. HidesReceiver(program)' /\ Strayed(program)'
        BY <2>1, <3>1 DEF Strayed
      <4>2. QED
        BY <4>1 DEF Follows
    <3>2. CASE ~(HidesReceiver(program) /\ Strayed(program))
      <4>1. /\ InSync(program, s)
            /\ \A k \in 1 .. Len(built) : ~Hidden(program[k], Opn(program, k - 1))
        BY <2>2, <2>3, <3>2 DEF Follows
      <4>2. InSync(program, s)'
        BY <2>1, <4>1 DEF InSync
      <4>3. \A k \in 1 .. Len(built') : ~Hidden(program'[k], Opn(program', k - 1))
        BY <2>1, <4>1
      <4>4. QED
        BY <2>1, <4>2, <4>3 DEF Follows
    <3>3. QED
      BY <3>1, <3>2
  <2>6. QED
    BY <2>1, <2>2, <2>4, <2>5 DEF Complete
<1>6. CASE ~edited /\ Parses
  <2>1. stage = "parse"
    BY <1>6, ParseStep
  <2>2. PICK s : Intact(program, s) /\ Follows(program, s)
    BY <1>6, <2>1 DEF Complete
  <2>3. Follows(program, s)' /\ program' = program /\ text' = text /\ edited' = edited
    <3>1. CASE /\ InSync(program, s)
               /\ \A k \in 1 .. Len(built) : ~Hidden(program[k], Opn(program, k - 1))
      BY <1>6, <2>2, <3>1, SyncStep
    <3>2. CASE HidesReceiver(program) /\ Strayed(program)
      BY <1>6, <3>2, StrayedStep DEF Follows
    <3>3. QED
      BY <2>1, <2>2, <3>1, <3>2 DEF Follows
  <2>4. Intact(program, s)'
    BY <2>2, <2>3 DEF Intact
  <2>5. QED
    BY <1>6, <2>3, <2>4 DEF Complete
<1>7. QED
  BY <1>1, <1>2, <1>3, <1>4, <1>5, <1>6 DEF ParserNext, Parses

\* The program comes out exactly when no receiver is hidden.
LEMMA CompleteParsed ==
  ASSUME Sound, Complete, ~edited, stage \in {"parsed", "failed"}
  PROVE  stage = "parsed" /\ built = program <=> ~HidesReceiver(program)
<1>1. PICK s : Intact(program, s) /\ Follows(program, s)
  BY DEF Complete
<1>2. program \in Seq(NodeType) /\ built \in Seq(NodeType)
  BY <1>1 DEF Intact, Sound, SoundType
<1>3. CASE /\ InSync(program, s) /\ stage # "failed" /\ (stage = "parsed" => Len(built) = Len(program))
           /\ \A k \in 1 .. Len(built) : ~Hidden(program[k], Opn(program, k - 1))
  <2>1. stage = "parsed" /\ Len(built) = Len(program)
    BY <1>3
  <2>2. built = program
    BY <1>2, <1>3, <2>1 DEF InSync
  <2>3. \A k \in DOMAIN program : ~Hidden(program[k], Opn(program, k - 1))
    BY <1>2, <1>3, <2>1
  <2>4. QED
    BY <2>1, <2>2, <2>3, HidesIs
<1>4. CASE HidesReceiver(program) /\ (stage = "failed" \/ Strayed(program))
  <2>1. Strayed(program) => built # program
    BY DEF Strayed
  <2>2. QED
    BY <1>4, <2>1
<1>5. QED
  BY <1>1, <1>3, <1>4 DEF Follows

\* ParsesGrammar for every program: what ParseProgram accepts is a program written
\* that way, and a program that was written comes out as itself, whatever
\* semicolons were left out, unless a call with a receiver is an argument without
\* a name, which ParseCallExpression never gets right.
THEOREM ParserParsesGrammar == ParserSpec => []ParsesGrammar
<1>1. ParserInit => Sound /\ Complete
  BY SoundInit, CompleteInit
<1>2. Sound /\ Complete /\ [ParserNext]_parserVars => (Sound /\ Complete)'
  BY SoundStep, CompleteStep
<1>3. Sound /\ Complete => ParsesGrammar
  BY SoundParsed, CompleteParsed DEF ParsesGrammar
<1>4. QED
  BY <1>1, <1>2, <1>3, PTL DEF ParserSpec

-----------------------------------------------------------------------------
(* The parser ends                                                         *)

\* Every node but an empty start of a statement takes a token.
Spent == Len(built) <= 2 * at + (IF Top(open) = "statement" THEN 1 ELSE 0)

\* The parser does not read past the text, and builds at most two nodes for each
\* token, and one.
ParserBounded == at <= Len(text) /\ Len(built) <= 2 * Len(text) + 1

LEMMA PutsSpent ==
  ASSUME Sound, stage = "parse", Spent, NEW e, Puts(e)
  PROVE  Spent'
<1> DEFINE ts == NextTokens(e)
           d == IF Top(open) = "statement" THEN 1 ELSE 0
           c == IF Top(open') = "statement" THEN 1 ELSE 0
<1>1. /\ e \in NodeType /\ Fits(e, open) /\ open \in Seq(Calls) /\ at \in Nat /\ built \in Seq(NodeType)
      /\ Make(e, at + Len(ts)) /\ Opens(built, Len(built)) \in BOOLEAN
  BY OpenType DEF Puts, Sound, SoundType, Opens
<1>2. ts \in Seq(Kinds)
  BY <1>1, TokensCases, Zenon DEF NextTokens
<1>3. built' = Append(built, e) /\ open' = After(e, open)
  BY <1>1 DEF Make
<1>4. at' = at + Len(ts) \/ at' = at + Len(ts) + 1
  BY <1>1, Zenon DEF Make
<1>5. Len(built) <= 2 * at + d
  BY DEF Spent
<1>6. d \in {0, 1} /\ c \in {0, 1}
  OBVIOUS
<1>7. ~Plain(e) => Len(ts) > 0
  BY <1>1, TokensStart, Zenon DEF NextTokens, Plain
<1>8. Plain(e) => d = 0 /\ c = 1
  <2> SUFFICES ASSUME Plain(e) PROVE d = 0 /\ c = 1
    OBVIOUS
  <2>1. Top(open) \in {"program", "function"}
    BY <1>1, FitsCases DEF Plain
  <2>2. open' = Append(open, "statement")
    <3>1. e.kind = "statement"
      BY DEF Plain
    <3>2. After(e, open) = Append(open, e.kind)
      BY <3>1 DEF After, Calls, Lists, Leaves
    <3>3. QED
      BY <1>3, <3>1, <3>2, Zenon
  <2>3. Top(open') = "statement"
    BY <1>1, <2>2 DEF Top
  <2>4. QED
    BY <2>1, <2>3
<1>9. Len(built') = Len(built) + 1 /\ Len(built) \in Nat
  BY <1>1, <1>3
<1> DEFINE x == Len(ts)
<1>10. x \in Nat
  BY <1>2
<1> HIDE DEF ts, d, c, x
<1>11. Plain(e) \/ x > 0
  BY <1>7, Zenon DEF x
<1>12. at' = at + x \/ at' = at + x + 1
  BY <1>4, Zenon DEF x
<1>13. Len(built') <= 2 * at' + c
  <2>1. CASE Plain(e)
    <3>1. d = 0 /\ c = 1
      BY <1>8, <2>1
    <3>2. QED
      BY <1>1, <1>5, <1>9, <1>10, <1>12, <3>1
  <2>2. CASE x > 0
    BY <1>1, <1>5, <1>6, <1>9, <1>10, <1>12, <2>2
  <2>3. QED
    BY <1>11, <2>1, <2>2
<1>14. QED
  BY <1>13 DEF Spent, c

LEMMA SpentStep ==
  ASSUME Sound, Spent, [ParserNext]_parserVars
  PROVE  Spent'
<1>1. CASE Parses
  <2>1. stage = "parse" /\ (Fail \/ Finish \/ \E e : Puts(e))
    BY <1>1, ParseStep
  <2>2. CASE Fail \/ Finish
    BY <2>2 DEF Fail, Finish, Spent
  <2>3. QED
    BY <2>1, <2>2, PutsSpent
<1>2. CASE WriteProgram \/ EditText \/ ParseText \/ UNCHANGED parserVars
  BY <1>2 DEF WriteProgram, EditText, ParseText, parserVars, Spent
<1>3. QED
  BY <1>1, <1>2 DEF ParserNext, Parses

\* A run of the parser is finite: it stays within its text, and the tree it builds
\* is never longer than the text allows (the lists the loops of ParseProgram,
\* ParseFunctionDeclaration, ParseCallExpression and ParseMapExpression fill).
THEOREM ParserIsBounded == ParserSpec => []ParserBounded
<1>1. ParserInit => Sound /\ Spent
  <2>1. ParserInit => Spent
    BY DEF ParserInit, Spent
  <2>2. QED
    BY <2>1, SoundInit
<1>2. Sound /\ Spent /\ [ParserNext]_parserVars => (Sound /\ Spent)'
  BY SoundStep, SpentStep
<1>3. Sound /\ Spent => ParserBounded
  <2> SUFFICES ASSUME Sound, Spent PROVE ParserBounded
    OBVIOUS
  <2>1. at \in 0 .. Len(text) /\ Len(text) \in Nat /\ Len(built) \in Nat
    BY DEF Sound, SoundType
  <2> DEFINE d == IF Top(open) = "statement" THEN 1 ELSE 0
  <2>2. d \in {0, 1} /\ Len(built) <= 2 * at + d
    BY DEF Spent
  <2> HIDE DEF d
  <2>3. QED
    BY <2>1, <2>2 DEF ParserBounded
<1>4. QED
  BY <1>1, <1>2, <1>3, PTL DEF ParserSpec

\* Every step of the parser ends it, with a tree or an error, or adds one node to
\* the tree and leaves the nodes that are built, the text and the place of what
\* was read as they are: what is read is not read again.
ParserAdvances ==
  stage = "parse" =>
    /\ UNCHANGED <<text, program>>
    /\ \/ stage' \in {"parsed", "failed"} /\ UNCHANGED <<at, built>>
       \/ /\ stage' = "parse" /\ at' >= at /\ Len(built') = Len(built) + 1
          /\ \A k \in DOMAIN built : built'[k] = built[k]

\* The parser never goes back, neither in the text nor in the tree.
THEOREM ParserOnlyAdvances == ParserSpec => [][ParserAdvances]_parserVars
<1>1. Sound /\ [ParserNext]_parserVars => [ParserAdvances]_parserVars
  <2> SUFFICES ASSUME Sound, ParserNext, stage = "parse" PROVE ParserAdvances
    BY DEF ParserAdvances
  <2>1. Parses
    BY DEF ParserNext, Parses, WriteProgram, EditText, ParseText
  <2>2. Fail \/ Finish \/ \E e : Puts(e)
    BY <2>1, ParseStep
  <2>3. CASE Fail \/ Finish
    BY <2>3 DEF Fail, Finish, ParserAdvances
  <2>4. CASE \E e : Puts(e)
    <3>1. PICK e : Puts(e)
      BY <2>4
    <3>2. e \in NodeType /\ Make(e, at + Len(NextTokens(e)))
      BY <3>1 DEF Puts
    <3>3. /\ stage' = "parse" /\ program' = program /\ text' = text
          /\ Len(built') = Len(built) + 1 /\ \A k \in 1 .. Len(built) : built'[k] = built[k]
      BY <3>2, MakeTree
    <3>4. at' >= at
      <4> DEFINE x == Len(NextTokens(e))
      <4>1. at \in Nat /\ x \in Nat
        <5>1. NextTokens(e) \in Seq(Kinds)
          BY <3>2, OpenType, TokensCases, Zenon DEF NextTokens
        <5>2. QED
          BY <5>1 DEF Sound, SoundType
      <4>2. at' = at + x \/ at' = at + x + 1
        BY <3>2, Zenon DEF Make
      <4> HIDE DEF x
      <4>3. QED
        BY <4>1, <4>2
    <3>5. DOMAIN built = 1 .. Len(built)
      BY DEF Sound, SoundType
    <3>6. QED
      BY <3>3, <3>4, <3>5 DEF ParserAdvances
  <2>5. QED
    BY <2>2, <2>3, <2>4
<1>2. ParserInit => Sound
  BY SoundInit
<1>3. Sound /\ [ParserNext]_parserVars => Sound'
  BY SoundStep
<1>4. QED
  BY <1>1, <1>2, <1>3, PTL DEF ParserSpec
================================================================================
