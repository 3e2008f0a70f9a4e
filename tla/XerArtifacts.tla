----------------------------- MODULE XerArtifacts -----------------------------
(***************************************************************************)
(* Protected XER scripts: processes that run or compile one .xer script,   *)
(* which writes the .bin container and the .bak manifest beside it, run    *)
(* the container, or inspect it, all on the same files (xer/xer_encode.cc, *)
(* xer/xer_script.cc, main.cc).                                            *)
(*                                                                         *)
(* A build is known by the process that made it.  The container is the     *)
(* sequence of its parts, each tagged with its build: the header with the  *)
(* section table, then the sections.  Parts of two builds take the same    *)
(* places.  A checksum is taken to tell builds apart, and a section whose  *)
(* checksum is 0, which ReadSectionBytes does not check, is left out.  A   *)
(* text stands for its normal form: NormalizeSource is applied when a      *)
(* script is compiled and again to what is run.  A compile command with    *)
(* --output_dir writes to files that no other command here uses, and is    *)
(* left out.                                                               *)
(***************************************************************************)
EXTENDS Integers, Sequences, FiniteSets

CONSTANTS Writers, Readers, \* processes, which run a command on the script or on
                            \* the container, one each
          Texts,            \* what the script may say
          Keys,             \* protection keys
          NoKey, BadKey,    \* no key is configured; it cannot be resolved
          NoFile, NoProc,
          NoText,           \* the script is not there
          EmptyText,        \* it is empty, or cannot be read, which is the same to Compile
          Garbled,          \* what decoding the payload of another build gives
          MaxEdits          \* bound on the edits of the script

ASSUME XerAssumption ==
  /\ Keys \cap {NoKey, BadKey} = {} /\ NoKey # BadKey
  /\ Writers \cap Readers = {} /\ NoProc \notin Writers \cup Readers
  /\ Texts \cap {NoText, EmptyText, Garbled} = {} /\ MaxEdits \in Nat
  /\ NoFile \notin Seq([kind : {"header", "manifest", "crypto", "payload", "hole"},
                       of : Writers \cup {NoProc}])

VARIABLES source,           \* the script
          edits,
          bin,              \* the .bin file: its parts, or NoFile
          bak,              \* the .bak file: the build its manifest describes, or NoFile
          proc,             \* the processes
          solo              \* history: the last to open the .bin to write, if nobody
                            \* else was writing it

xerVars == <<source, edits, bin, bak, proc, solo>>

Procs == Writers \cup Readers
NewProc == [pc |-> "new", cmd |-> "none", key |-> NoKey, text |-> NoText,
            size |-> 0, ran |-> NoText, of |-> NoProc, shown |-> NoProc]

XerInit ==
  /\ source \in Texts /\ edits = 0
  /\ bin = NoFile /\ bak = NoFile /\ solo = NoProc
  /\ proc = [p \in Procs |-> NewProc]

Goes(p, from, changed) ==
  /\ proc[p].pc = from
  /\ proc' = [proc EXCEPT ![p] = changed]
\* Of a process that ends, the text and the key it may have built with stay.
Ends(p, pc) == [NewProc EXCEPT !.pc = pc, !.text = proc[p].text,
                               !.key = IF proc[p].text = NoText THEN NoKey ELSE proc[p].key]
Fails(p) == Ends(p, "failed")

(***************************************************************************)
(* The container.                                                          *)
(***************************************************************************)
Encrypted(b) == proc[b].key # NoKey
Part(kind, b) == [kind |-> kind, of |-> b]

\* EncodeInternal: the header and the section table, the manifest, the crypto
\* section if there is a key, and the payload.
Container(b) ==
  <<Part("header", b), Part("manifest", b)>>
    \o (IF Encrypted(b) THEN <<Part("crypto", b)>> ELSE <<>>) \o <<Part("payload", b)>>
Offset(b, kind) == CHOOSE i \in DOMAIN Container(b) : Container(b)[i].kind = kind

\* Fault: the checksum comes out the same for all data.
SameChecksumAlways(part, b) == TRUE

SameChecksum(part, b) == part.of = b

\* ReadContainerHeaderAndSections: the file is large enough for a section
\* table, the header is one, and its table is intact.
HeaderValid(file) ==
  file # NoFile /\ Len(file) >= 1 /\ file[1].kind = "header"

\* ReadSectionBytes for the section table of build b.
SectionValid(file, b, kind) ==
  /\ Offset(b, kind) <= Len(file)
  /\ SameChecksum(file[Offset(b, kind)], b)

\* DecryptPayload: PBKDF2 with the salt and AES-GCM with the data of the
\* header succeed only for the key and the header of the build.
Decrypts(file, b, key) ==
  LET payload == file[Offset(b, "payload")] IN
  /\ key # NoKey /\ proc[b].key = key
  /\ payload = Part("payload", b) /\ file[Offset(b, "crypto")] = Part("crypto", b)

\* XerEncode::Decode, without sxer84321_decode.
Decodes(file, key) ==
  /\ HeaderValid(file)
  /\ LET b == file[1].of IN
     /\ SectionValid(file, b, "payload")
     /\ Encrypted(b) => SectionValid(file, b, "crypto") /\ Decrypts(file, b, key)
     /\ SameChecksum(file[Offset(b, "payload")], b)

\* sxer84321_decode with the nonce of the header.
Decoded(file) ==
  LET b == file[1].of IN
  IF file[Offset(b, "payload")] = Part("payload", b) THEN proc[b].text ELSE Garbled

\* XerEncode::InspectFile: it reads all but the payload, and needs no key.
Inspects(file) ==
  /\ HeaderValid(file)
  /\ LET b == file[1].of IN
     /\ SectionValid(file, b, "manifest")
     /\ Encrypted(b) => SectionValid(file, b, "crypto")

(***************************************************************************)
(* Running and compiling a script: EnsureProtectedArtifacts.               *)
(***************************************************************************)
\* main checks that the file is there; ResolveProtectionOptionsFromEnvironment.
StartCommand(p, cmd, key) ==
  /\ IF p \in Writers THEN cmd \in {"run", "compile"} /\ source # NoText
     ELSE cmd \in {"runbin", "inspect"} /\ bin # NoFile
  /\ Goes(p, "new",
       IF cmd # "inspect" /\ key = BadKey THEN Fails(p)
       ELSE [proc[p] EXCEPT !.pc = IF p \in Writers THEN "compile" ELSE "open",
                            !.cmd = cmd,
                            !.key = IF cmd = "inspect" THEN NoKey ELSE key])
  /\ UNCHANGED <<source, edits, bin, bak, solo>>

\* XerEncode::Compile: a script that is gone and one that reads as empty, which
\* the codec refuses, end the command before anything is written.
Compile(p) ==
  /\ Goes(p, "compile",
       IF source \in {NoText, EmptyText} THEN Fails(p)
       ELSE [proc[p] EXCEPT !.pc = "create", !.text = source])
  /\ UNCHANGED <<source, edits, bin, bak, solo>>

\* Fault: the .bin is opened without being truncated.
OpenBinKeeps(p) ==
  /\ Goes(p, "create", [proc[p] EXCEPT !.pc = "write", !.size = 0])
  /\ bin' = IF bin = NoFile THEN <<>> ELSE bin
  /\ solo' = IF \E q \in Procs : proc[q].pc = "write" THEN NoProc ELSE p
  /\ UNCHANGED <<source, edits, bak>>

\* WriteArtifacts: the .bin is opened, which truncates it.
OpenBin(p) ==
  /\ Goes(p, "create", [proc[p] EXCEPT !.pc = "write", !.size = 0])
  /\ bin' = <<>>
  /\ solo' = IF \E q \in Procs : proc[q].pc = "write" THEN NoProc ELSE p
  /\ UNCHANGED <<source, edits, bak>>

\* A part reaches the file at its own offset, whatever the others did to it.
WritePart(p) ==
  LET n == proc[p].size + 1 IN
  /\ n <= Len(Container(p))
  /\ Goes(p, "write", [proc[p] EXCEPT !.size = n])
  /\ bin' = [i \in 1 .. IF n > Len(bin) THEN n ELSE Len(bin) |->
               IF i = n THEN Container(p)[n]
               ELSE IF i <= Len(bin) THEN bin[i] ELSE Part("hole", NoProc)]
  /\ UNCHANGED <<source, edits, bak, solo>>

CloseBin(p) ==
  /\ proc[p].size = Len(Container(p))
  /\ Goes(p, "write", [proc[p] EXCEPT !.pc = "manifest", !.size = 0])
  /\ UNCHANGED <<source, edits, bin, bak, solo>>

\* The .bak follows, through ToolTo::WriteTextFile.
WriteBak(p) ==
  /\ Goes(p, "manifest",
       IF proc[p].cmd = "compile" THEN Ends(p, "done") ELSE [proc[p] EXCEPT !.pc = "source"])
  /\ bak' = <<p>>
  /\ UNCHANGED <<source, edits, bin, solo>>

\* The directory, the .bin or the .bak cannot be created or written: what was
\* written stays.
WriteFails(p) ==
  /\ proc[p].pc \in {"create", "write", "manifest"}
  /\ proc' = [proc EXCEPT ![p] = Fails(p)]
  /\ UNCHANGED <<source, edits, bin, bak, solo>>

\* Run then reads the script a second time.  ReadWholeFile throws if it cannot.
RunSource(p) ==
  /\ \/ source # NoText /\ Goes(p, "source", [Ends(p, "done") EXCEPT !.ran = source])
     \/ source \in {NoText, EmptyText} /\ Goes(p, "source", Fails(p))
  /\ UNCHANGED <<source, edits, bin, bak, solo>>

(***************************************************************************)
(* Running and inspecting the container.                                   *)
(***************************************************************************)
\* XerBuffer::FromFile: the size of the file, then as many bytes.
MeasureBin(p) ==
  /\ Goes(p, "open",
       IF bin = NoFile THEN Fails(p) ELSE [proc[p] EXCEPT !.pc = "read", !.size = Len(bin)])
  /\ UNCHANGED <<source, edits, bin, bak, solo>>

\* The bytes read; what follows touches no file.
Read(p) == SubSeq(bin, 1, proc[p].size)

RunBin(p) ==
  /\ proc[p].cmd = "runbin"
  /\ Goes(p, "read",
       IF Len(bin) < proc[p].size \/ ~Decodes(Read(p), proc[p].key) THEN Fails(p)
       ELSE [Ends(p, "done") EXCEPT !.ran = Decoded(Read(p)), !.key = proc[p].key,
                                    !.of = Read(p)[1].of])
  /\ UNCHANGED <<source, edits, bin, bak, solo>>

InspectFile(p) ==
  /\ proc[p].cmd = "inspect"
  /\ Goes(p, "read",
       IF Len(bin) < proc[p].size \/ ~Inspects(Read(p)) THEN Fails(p)
       ELSE [Ends(p, "done") EXCEPT !.of = Read(p)[1].of, !.shown = Read(p)[2].of])
  /\ UNCHANGED <<source, edits, bin, bak, solo>>

(***************************************************************************)
(* The environment.                                                        *)
(***************************************************************************)
Dies(p) ==
  /\ proc[p].pc \notin {"new", "done", "failed"}
  /\ proc' = [proc EXCEPT ![p] = Fails(p)]
  /\ UNCHANGED <<source, edits, bin, bak, solo>>

EditSource ==
  /\ edits < MaxEdits /\ edits' = edits + 1
  /\ source' \in (Texts \cup {NoText, EmptyText}) \ {source}
  /\ UNCHANGED <<bin, bak, proc, solo>>

ProcStep(p) ==
  \/ Compile(p) \/ OpenBin(p) \/ WritePart(p) \/ CloseBin(p) \/ WriteBak(p) \/ WriteFails(p)
  \/ RunSource(p) \/ MeasureBin(p) \/ RunBin(p) \/ InspectFile(p)

XerNext ==
  \/ \E p \in Procs : \/ ProcStep(p) \/ Dies(p)
                      \/ \E c \in {"run", "compile", "runbin", "inspect"}, k \in Keys \cup {NoKey, BadKey} : StartCommand(p, c, k)
  \/ EditSource

XerSpec == XerInit /\ [][XerNext]_xerVars

(***************************************************************************)
(* Properties.                                                             *)
(***************************************************************************)
\* A container that is run is the work of one build, and it runs the script
\* that build read, with its key: a file that writers left torn, or mixed from
\* two builds, or that was rewritten while it was read, is refused.  Inspect
\* shows the manifest of the container's own build.
DecodeSound ==
  \A p \in Procs : proc[p].of # NoProc =>
    LET b == proc[p].of IN
    IF proc[p].shown # NoProc THEN proc[p].shown = b
    ELSE /\ proc[p].ran = proc[b].text
         /\ Encrypted(b) => proc[p].key = proc[b].key

\* A process that has closed its .bin without an error, while nobody else had
\* it open to write and nobody has opened it since, leaves a container that
\* decodes with its key to the script it was built from.
BuildStands ==
  \A p \in Writers :
    /\ solo = p /\ proc[p].pc \in {"manifest", "source", "done"}
    => bin = Container(p) /\ Decodes(bin, proc[p].key)
=============================================================================
