---------------------------- MODULE AsyncIoProofs ----------------------------
(***************************************************************************)
(* Proofs about the users of the I/O thread pool: AsyncFile, for any reads *)
(* and writes, files, addresses and lengths, and Prefetch, for any files,  *)
(* regions, prefetches, getters and invalidators.                          *)
(***************************************************************************)
EXTENDS AsyncFile, Prefetch, InductionLemmas

-----------------------------------------------------------------------------
(* The inductive invariant                                                 *)

\* An open reader has a stream on a file, and an operation under way captured
\* the address of a stream.
Captured ==
  /\ reader.handle # Null => istream.file \in Files
  /\ \A t \in Ops : op[t].pc \in {"flagged", "queued"} => op[t].addr # Null

FileInv == FileTypeOK /\ Captured /\ OpsAccounted /\ PositionTracksStream /\ CountsAccepted

LEMMA FileInvInit == FileInit => FileInv
<1> SUFFICES ASSUME FileInit PROVE FileInv
  OBVIOUS
<1>1. FileTypeOK
  BY DEF FileInit, FileTypeOK, NewOp
<1>2. Captured /\ PositionTracksStream /\ CountsAccepted
  BY DEF FileInit, Captured, PositionTracksStream, CountsAccepted, NewOp
<1>3. InFlight = {}
  BY DEF FileInit, InFlight, NewOp
<1>4. OpsAccounted
  <2>1. InFlight \cap Reads = {} /\ InFlight \cap Writes = {}
    BY <1>3
  <2>2. QED
    BY <2>1, FS_EmptySet DEF FileInit, OpsAccounted
<1>5. QED
  BY <1>1, <1>2, <1>4 DEF FileInv

\* A step that moves no operation and leaves the flags and counts alone.
LEMMA AccountsKept ==
  ASSUME OpsAccounted, UNCHANGED op,
         reader'.pending = reader.pending, reader'.reading = reader.reading,
         writer'.pending = writer.pending, writer'.writing = writer.writing
  PROVE  OpsAccounted'
  BY DEF OpsAccounted, InFlight

-----------------------------------------------------------------------------
(* Calls of the clients                                                    *)

LEMMA StreamGotType ==
  ASSUME FileInv, reader.handle # Null, NEW n \in Nat
  PROVE  StreamGot(n) \in Nat /\ (~istream.fail => StreamGot(n) <= n)
<1>1. /\ istream.file \in Files /\ istream.at \in Nat
      /\ FileSize[istream.file] \in Nat
  BY AsyncFileAssumption DEF FileInv, Captured, FileTypeOK
<1>2. QED
  BY <1>1 DEF StreamGot

\* What a read that got so many bytes does to the two records.
LEMMA StreamAdvances ==
  ASSUME FileInv, NEW got \in Nat, NEW short,
         reader' = [reader EXCEPT !.pos = @ + got],
         istream' = [istream EXCEPT !.at = @ + got, !.fail = @ \/ short]
  PROVE  /\ reader' \in [handle : Addrs \cup {Null}, pos : Nat, size : Nat,
                         reading : BOOLEAN, pending : Int]
         /\ istream' \in [file : Files \cup {Null}, at : Nat, fail : BOOLEAN]
         /\ reader'.pending = reader.pending /\ reader'.reading = reader.reading
         /\ reader'.handle = reader.handle /\ istream'.file = istream.file
         /\ reader'.pos = reader.pos + got /\ istream'.at = istream.at + got
         /\ ~istream'.fail => ~istream.fail
<1>1. /\ reader' \in [handle : Addrs \cup {Null}, pos : Nat, size : Nat,
                      reading : BOOLEAN, pending : Int]
      /\ reader'.pending = reader.pending /\ reader'.reading = reader.reading
      /\ reader'.handle = reader.handle /\ reader'.pos = reader.pos + got
  BY DEF FileInv, FileTypeOK
<1> DEFINE failed == istream.fail \/ short
<1>2. istream' = [istream EXCEPT !.at = @ + got, !.fail = failed] /\ failed \in BOOLEAN
  OBVIOUS
<1>3. istream.fail => failed
  OBVIOUS
<1> HIDE DEF failed
<1>4. istream \in [file : Files \cup {Null}, at : Nat, fail : BOOLEAN]
  BY DEF FileInv, FileTypeOK
<1>5. /\ istream' \in [file : Files \cup {Null}, at : Nat, fail : BOOLEAN]
      /\ istream'.file = istream.file /\ istream'.at = istream.at + got
      /\ istream'.fail = failed
  <2>1. istream' = [file |-> istream.file, at |-> istream.at + got, fail |-> failed]
    BY <1>2, <1>4
  <2>2. istream.file \in Files \cup {Null} /\ istream.at + got \in Nat
    BY <1>4
  <2>3. QED
    BY <1>2, <2>1, <2>2
<1>6. QED
  BY <1>1, <1>3, <1>5

\* The reader's own calls, once what becomes of the two records is known.
LEMMA ReaderCall ==
  ASSUME FileInv, UNCHANGED <<writer, ostream, op>>,
         reader' \in [handle : Addrs \cup {Null}, pos : Nat, size : Nat,
                      reading : BOOLEAN, pending : Int],
         istream' \in [file : Files \cup {Null}, at : Nat, fail : BOOLEAN],
         reader'.pending = reader.pending, reader'.reading = reader.reading,
         reader'.handle # Null => istream'.file \in Files,
         PositionTracksStream'
  PROVE  FileInv'
<1>1. FileTypeOK'
  BY DEF FileInv, FileTypeOK
<1>2. Captured'
  BY DEF FileInv, Captured
<1>3. OpsAccounted'
  BY AccountsKept DEF FileInv
<1>4. CountsAccepted'
  BY DEF FileInv, CountsAccepted
<1>5. QED
  BY <1>1, <1>2, <1>3, <1>4 DEF FileInv

LEMMA FileInvReaderCalls ==
  ASSUME FileInv, ReaderCalls, \A t \in Reads, n \in Lengths : ~ReadAsync(t, n)
  PROVE  FileInv'
<1>1. CASE OpenFileFails \/ CloseFile
  <2>1. /\ reader' = ClosedReader /\ istream' = ClosedStream
        /\ UNCHANGED <<writer, ostream, op>>
    BY <1>1 DEF OpenFileFails, CloseFile, writerVars
  <2>2. /\ reader' \in [handle : Addrs \cup {Null}, pos : Nat, size : Nat,
                        reading : BOOLEAN, pending : Int]
        /\ istream' \in [file : Files \cup {Null}, at : Nat, fail : BOOLEAN]
        /\ reader'.pending = reader.pending /\ reader'.reading = reader.reading
        /\ reader'.handle = Null
    BY <2>1 DEF FileInv, FileTypeOK, ClosedReader, ClosedStream
  <2>3. PositionTracksStream'
    BY <2>2 DEF PositionTracksStream
  <2>4. QED
    BY <2>1, <2>2, <2>3, ReaderCall
<1>2. ASSUME NEW f \in Files, NEW a \in Addrs, OpenFile(f, a)
      PROVE  FileInv'
  <2>1. /\ reader' = [reader EXCEPT !.handle = a, !.size = FileSize[f], !.pos = 0]
        /\ istream' = [file |-> f, at |-> 0, fail |-> FALSE]
        /\ UNCHANGED <<writer, ostream, op>>
    BY <1>2 DEF OpenFile, writerVars
  <2>2. /\ reader' \in [handle : Addrs \cup {Null}, pos : Nat, size : Nat,
                        reading : BOOLEAN, pending : Int]
        /\ istream' \in [file : Files \cup {Null}, at : Nat, fail : BOOLEAN]
        /\ reader'.pending = reader.pending /\ reader'.reading = reader.reading
        /\ reader'.pos = 0 /\ istream'.at = 0 /\ istream'.file = f
    BY <2>1, AsyncFileAssumption DEF FileInv, FileTypeOK
  <2>3. PositionTracksStream'
    BY <2>2 DEF PositionTracksStream
  <2>4. QED
    BY <2>1, <2>2, <2>3, ReaderCall
<1>3. ASSUME NEW n \in Lengths, ReadSync(n)
      PROVE  FileInv'
  <2> DEFINE got == StreamGot(n)
  <2>1. n \in Nat /\ got \in Nat
    BY <1>3, StreamGotType, AsyncFileAssumption DEF ReadSync
  <2>2. /\ reader.handle # Null
        /\ reader' = [reader EXCEPT !.pos = @ + got]
        /\ istream' = [istream EXCEPT !.at = @ + got, !.fail = @ \/ got < n]
        /\ UNCHANGED <<writer, ostream, op>>
    BY <1>3 DEF ReadSync, StreamRead, writerVars
  <2> HIDE DEF got
  <2>3. /\ reader' \in [handle : Addrs \cup {Null}, pos : Nat, size : Nat,
                        reading : BOOLEAN, pending : Int]
        /\ istream' \in [file : Files \cup {Null}, at : Nat, fail : BOOLEAN]
        /\ reader'.pending = reader.pending /\ reader'.reading = reader.reading
        /\ reader'.handle = reader.handle /\ istream'.file = istream.file
        /\ reader'.pos = reader.pos + got /\ istream'.at = istream.at + got
        /\ ~istream'.fail => ~istream.fail
    BY <2>1, <2>2, StreamAdvances
  <2>4. PositionTracksStream'
    BY <2>3 DEF PositionTracksStream, FileInv
  <2>5. QED
    BY <2>2, <2>3, <2>4, ReaderCall DEF FileInv, Captured
<1>4. ASSUME NEW o \in Offsets, Seek(o)
      PROVE  FileInv'
  <2>1. /\ reader.handle # Null
        /\ istream' = [istream EXCEPT !.at = IF istream.fail THEN @ ELSE o]
        /\ reader' = [reader EXCEPT !.pos = o]
        /\ UNCHANGED <<writer, ostream, op>>
    BY <1>4 DEF Seek, writerVars
  <2>2. /\ reader' \in [handle : Addrs \cup {Null}, pos : Nat, size : Nat,
                        reading : BOOLEAN, pending : Int]
        /\ istream' \in [file : Files \cup {Null}, at : Nat, fail : BOOLEAN]
        /\ reader'.pending = reader.pending /\ reader'.reading = reader.reading
        /\ reader'.handle = reader.handle /\ istream'.file = istream.file
        /\ reader'.pos = o /\ istream'.fail = istream.fail
        /\ ~istream.fail => istream'.at = o
    BY <2>1, AsyncFileAssumption DEF FileInv, FileTypeOK
  <2>3. PositionTracksStream'
    BY <2>2 DEF PositionTracksStream
  <2>4. QED
    BY <2>1, <2>2, <2>3, ReaderCall DEF FileInv, Captured
<1>5. QED
  BY <1>1, <1>2, <1>3, <1>4 DEF ReaderCalls

\* The writer's own calls.
LEMMA WriterCall ==
  ASSUME FileInv, UNCHANGED <<reader, istream, op>>,
         writer' \in [handle : Addrs \cup {Null}, bytes : Nat,
                      writing : BOOLEAN, pending : Int],
         ostream' \in [disk : Nat, buffered : Nat, fail : BOOLEAN],
         writer'.pending = writer.pending, writer'.writing = writer.writing,
         CountsAccepted'
  PROVE  FileInv'
<1>1. FileTypeOK'
  BY DEF FileInv, FileTypeOK
<1>2. Captured' /\ PositionTracksStream'
  BY DEF FileInv, Captured, PositionTracksStream
<1>3. OpsAccounted'
  BY AccountsKept DEF FileInv
<1>4. QED
  BY <1>1, <1>2, <1>3 DEF FileInv

\* A write of n bytes to the stream counts what the stream takes.
LEMMA WriteCounts ==
  ASSUME FileInv, writer.handle # Null, NEW n \in Nat, StreamWrite(n),
         writer' = [writer EXCEPT !.bytes = Counted(n)]
  PROVE  /\ writer' \in [handle : Addrs \cup {Null}, bytes : Nat,
                         writing : BOOLEAN, pending : Int]
         /\ ostream' \in [disk : Nat, buffered : Nat, fail : BOOLEAN]
         /\ writer'.pending = writer.pending /\ writer'.writing = writer.writing
         /\ CountsAccepted'
<1>1. /\ ostream' \in [disk : Nat, buffered : Nat, fail : BOOLEAN]
      /\ ~ostream'.fail =>
           /\ ~ostream.fail
           /\ ostream'.disk + ostream'.buffered = ostream.disk + ostream.buffered + n
  <2>1. ostream \in [disk : Nat, buffered : Nat, fail : BOOLEAN]
    BY DEF FileInv, FileTypeOK
  <2>2. CASE ostream' = [ostream EXCEPT !.fail = TRUE]
    BY <2>1, <2>2
  <2>3. CASE ~ostream.fail /\ ostream' = [ostream EXCEPT !.buffered = @ + n]
    BY <2>1, <2>3
  <2>4. CASE /\ ~ostream.fail
             /\ ostream' = [ostream EXCEPT !.disk = @ + ostream.buffered + n, !.buffered = 0]
    <3>1. ostream' = [disk |-> ostream.disk + ostream.buffered + n, buffered |-> 0,
                      fail |-> ostream.fail]
      BY <2>1, <2>4
    <3>2. ostream.disk \in Nat /\ ostream.buffered \in Nat /\ ostream.fail \in BOOLEAN
      BY <2>1
    <3>3. QED
      BY <2>4, <3>1, <3>2
  <2>5. QED
    BY <2>2, <2>3, <2>4 DEF StreamWrite
<1>2. Counted(n) \in Nat /\ (~ostream'.fail => Counted(n) = writer.bytes + n)
  BY DEF Counted, FileInv, FileTypeOK
<1>3. /\ writer' \in [handle : Addrs \cup {Null}, bytes : Nat,
                      writing : BOOLEAN, pending : Int]
      /\ writer'.pending = writer.pending /\ writer'.writing = writer.writing
      /\ writer'.bytes = Counted(n)
  BY <1>2 DEF FileInv, FileTypeOK
<1>4. CountsAccepted'
  BY <1>1, <1>2, <1>3 DEF FileInv, CountsAccepted
<1>5. QED
  BY <1>1, <1>3, <1>4

LEMMA FileInvWriterCalls ==
  ASSUME FileInv, WriterCalls, \A t \in Writes, n \in Lengths : ~WriteAsync(t, n)
  PROVE  FileInv'
<1>1. ASSUME writer' \in {[writer EXCEPT !.handle = Null]} \cup
                         {[writer EXCEPT !.handle = a, !.bytes = 0] : a \in Addrs},
             ostream' = [disk |-> 0, buffered |-> 0, fail |-> FALSE],
             UNCHANGED <<readerVars, op>>
      PROVE  FileInv'
  <2>1. /\ writer' \in [handle : Addrs \cup {Null}, bytes : Nat,
                        writing : BOOLEAN, pending : Int]
        /\ ostream' \in [disk : Nat, buffered : Nat, fail : BOOLEAN]
        /\ writer'.pending = writer.pending /\ writer'.writing = writer.writing
        /\ writer'.handle # Null => writer'.bytes = 0
        /\ ostream'.disk = 0 /\ ostream'.buffered = 0
    <3>1. writer \in [handle : Addrs \cup {Null}, bytes : Nat,
                      writing : BOOLEAN, pending : Int]
      BY DEF FileInv, FileTypeOK
    <3>2. CASE writer' = [writer EXCEPT !.handle = Null]
      BY <1>1, <3>1, <3>2
    <3>3. ASSUME NEW a \in Addrs, writer' = [writer EXCEPT !.handle = a, !.bytes = 0]
          PROVE  <2>1!1 /\ <2>1!2 /\ <2>1!3 /\ <2>1!4 /\ <2>1!5
      BY <1>1, <3>1, <3>3
    <3>4. QED
      BY <1>1, <3>2, <3>3
  <2>2. CountsAccepted'
    BY <2>1 DEF CountsAccepted
  <2>3. QED
    BY <1>1, <2>1, <2>2, WriterCall DEF readerVars
<1>2. CASE CreateFileFails \/ CloseWriter \/ \E a \in Addrs : CreateFile(a)
  BY <1>1, <1>2 DEF CreateFileFails, CloseWriter, CreateFile
<1>3. CASE FlushBuffer
  <2>1. /\ UNCHANGED <<reader, istream, writer, op>>
        /\ ostream' \in [disk : Nat, buffered : Nat, fail : BOOLEAN]
        /\ ~ostream'.fail =>
             /\ ~ostream.fail
             /\ ostream'.disk + ostream'.buffered = ostream.disk + ostream.buffered
    <3>1. UNCHANGED <<reader, istream, writer, op>>
      BY <1>3 DEF FlushBuffer, readerVars
    <3>2. ostream \in [disk : Nat, buffered : Nat, fail : BOOLEAN]
      BY DEF FileInv, FileTypeOK
    <3>3. CASE ostream' = [ostream EXCEPT !.fail = TRUE]
      BY <3>1, <3>2, <3>3
    <3>4. CASE /\ ~ostream.fail
               /\ ostream' = [ostream EXCEPT !.disk = @ + ostream.buffered, !.buffered = 0]
      <4>1. ostream' = [disk |-> ostream.disk + ostream.buffered, buffered |-> 0,
                        fail |-> ostream.fail]
        BY <3>2, <3>4
      <4>2. ostream.disk \in Nat /\ ostream.buffered \in Nat /\ ostream.fail \in BOOLEAN
        BY <3>2
      <4>3. QED
        BY <3>1, <3>4, <4>1, <4>2
    <3>5. QED
      BY <1>3, <3>3, <3>4 DEF FlushBuffer
  <2>2. CountsAccepted'
    BY <2>1 DEF FileInv, CountsAccepted
  <2>3. writer' \in [handle : Addrs \cup {Null}, bytes : Nat,
                     writing : BOOLEAN, pending : Int]
    BY <2>1 DEF FileInv, FileTypeOK
  <2>4. QED
    BY <2>1, <2>2, <2>3, WriterCall
<1>4. ASSUME NEW n \in Lengths, WriteSync(n)
      PROVE  FileInv'
  <2>1. n \in Nat
    BY AsyncFileAssumption
  <2>2. /\ writer.handle # Null /\ StreamWrite(n)
        /\ writer' = [writer EXCEPT !.bytes = Counted(n)]
        /\ UNCHANGED <<reader, istream, op>>
    BY <1>4 DEF WriteSync, readerVars
  <2>3. QED
    BY <2>1, <2>2, WriteCounts, WriterCall
<1>5. QED
  BY <1>2, <1>3, <1>4 DEF WriterCalls

-----------------------------------------------------------------------------
(* The asynchronous operations                                             *)

OpRecord == [pc : {"new", "flagged", "queued", "acted", "done", "lost"},
             addr : Addrs \cup {Null}, len : Nat, got : Nat, error : BOOLEAN]
FlyingPcs == {"flagged", "queued", "acted", "lost"}

\* An operation that goes from r to x is in flight after the step iff x says so.
LEMMA InFlightChange ==
  ASSUME op \in [Ops -> OpRecord], NEW t \in Ops, NEW x \in OpRecord,
         op' = [op EXCEPT ![t] = x]
  PROVE  /\ op' \in [Ops -> OpRecord]
         /\ op[t].pc \in FlyingPcs /\ x.pc \in FlyingPcs => InFlight' = InFlight
         /\ x.pc \in FlyingPcs => InFlight' = InFlight \cup {t}
         /\ x.pc \notin FlyingPcs => InFlight' = InFlight \ {t}
         /\ t \in InFlight <=> op[t].pc \in FlyingPcs
  BY DEF InFlight, FlyingPcs

LEMMA OpTypes ==
  ASSUME FileInv
  PROVE  op \in [Ops -> OpRecord]
  BY DEF FileInv, FileTypeOK, OpRecord

LEMMA CapturedChange ==
  ASSUME FileInv, NEW t \in Ops, NEW x \in OpRecord, op' = [op EXCEPT ![t] = x],
         x.pc \in {"flagged", "queued"} => x.addr # Null,
         reader'.handle # Null => istream'.file \in Files
  PROVE  Captured'
<1>1. op \in [Ops -> OpRecord]
  BY OpTypes
<1>2. QED
  BY <1>1 DEF FileInv, Captured

\* The account of one side: its operations S, its counter and its flag.
Account(S, pending, flag) ==
  pending = Cardinality(InFlight \cap S) /\ pending <= 1 /\ (flag <=> pending = 1)

LEMMA Accounts ==
  /\ OpsAccounted <=> /\ Account(Reads, reader.pending, reader.reading)
                      /\ Account(Writes, writer.pending, writer.writing)
  /\ OpsAccounted' <=> /\ Account(Reads, reader.pending, reader.reading)'
                       /\ Account(Writes, writer.pending, writer.writing)'
  BY DEF OpsAccounted, Account

\* The side an operation does not belong to.
LEMMA AccountOther ==
  ASSUME NEW S, NEW t, t \notin S, NEW pending, NEW flag, Account(S, pending, flag),
         InFlight' \in {InFlight, InFlight \cup {t}, InFlight \ {t}}
  PROVE  pending = Cardinality(InFlight' \cap S) /\ pending <= 1 /\ (flag <=> pending = 1)
<1>1. InFlight' \cap S = InFlight \cap S
  OBVIOUS
<1>2. QED
  BY <1>1 DEF Account

\* An operation enters: the flag was not set, so it is alone.
LEMMA AccountEnters ==
  ASSUME NEW S, S \subseteq Ops, NEW t \in S, NEW pending, Account(S, pending, FALSE),
         InFlight' = InFlight \cup {t}
  PROVE  pending = 0 /\ Cardinality(InFlight' \cap S) = 1
<1>1. IsFiniteSet(InFlight \cap S)
  <2>1. InFlight \cap S \in SUBSET Ops /\ IsFiniteSet(Ops)
    BY AsyncFileAssumption DEF InFlight, Ops
  <2>2. QED
    BY <2>1, FS_Subset
<1>2. pending = 0
  BY <1>1, FS_CardinalityType DEF Account
<1>3. InFlight \cap S = {}
  BY <1>1, <1>2, FS_EmptySet DEF Account
<1>4. InFlight' \cap S = {t}
  BY <1>3
<1>5. QED
  BY <1>2, <1>4, FS_Singleton

\* An operation ends: it was the only one.
LEMMA AccountLeaves ==
  ASSUME NEW S, S \subseteq Ops, NEW t \in S, t \in InFlight,
         NEW pending, NEW flag, Account(S, pending, flag), InFlight' = InFlight \ {t}
  PROVE  pending = 1 /\ Cardinality(InFlight' \cap S) = 0
<1>1. IsFiniteSet(InFlight \cap S)
  <2>1. InFlight \cap S \in SUBSET Ops /\ IsFiniteSet(Ops)
    BY AsyncFileAssumption DEF InFlight, Ops
  <2>2. QED
    BY <2>1, FS_Subset
<1>2. pending = 1
  <2>1. Cardinality(InFlight \cap S) # 0
    BY <1>1, FS_EmptySet
  <2>2. QED
    BY <1>1, <2>1, FS_CardinalityType DEF Account
<1>3. InFlight \cap S = {t}
  <2>1. PICK u : InFlight \cap S = {u}
    BY <1>1, <1>2, FS_Singleton DEF Account
  <2>2. QED
    BY <2>1
<1>4. InFlight' \cap S = {}
  BY <1>3
<1>5. QED
  BY <1>2, <1>4, FS_EmptySet

LEMMA Sides ==
  /\ Reads \subseteq Ops /\ Writes \subseteq Ops
  /\ \A t \in Reads : t \notin Writes
  /\ \A t \in Writes : t \notin Reads
  BY AsyncFileAssumption DEF Ops

\* An operation that stays in flight, or outside, keeps both accounts.
LEMMA AccountsMove ==
  ASSUME FileInv, InFlight' = InFlight,
         reader'.pending = reader.pending, reader'.reading = reader.reading,
         writer'.pending = writer.pending, writer'.writing = writer.writing
  PROVE  OpsAccounted'
  BY DEF FileInv, OpsAccounted

LEMMA FileInvReadAsync ==
  ASSUME FileInv, NEW t \in Reads, NEW n \in Lengths, ReadAsync(t, n)
  PROVE  FileInv'
<1> DEFINE x == [NewOp EXCEPT !.pc = "flagged", !.addr = reader.handle, !.len = n]
<1>1. /\ op[t].pc = "new" /\ reader.handle # Null /\ ~reader.reading
      /\ reader' = [reader EXCEPT !.reading = TRUE, !.pending = @ + 1]
      /\ op' = [op EXCEPT ![t] = x]
      /\ UNCHANGED <<istream, writer, ostream>>
  BY DEF ReadAsync, writerVars
<1>2. x \in OpRecord /\ x.pc = "flagged" /\ x.addr = reader.handle
  BY AsyncFileAssumption DEF NewOp, OpRecord, FileInv, FileTypeOK
<1> HIDE DEF x
<1>3. /\ reader' \in [handle : Addrs \cup {Null}, pos : Nat, size : Nat,
                      reading : BOOLEAN, pending : Int]
      /\ reader'.pending = reader.pending + 1 /\ reader'.reading = TRUE
      /\ reader'.handle = reader.handle /\ reader'.pos = reader.pos
  <2>1. reader \in [handle : Addrs \cup {Null}, pos : Nat, size : Nat,
                    reading : BOOLEAN, pending : Int]
    BY DEF FileInv, FileTypeOK
  <2>2. reader' = [handle |-> reader.handle, pos |-> reader.pos, size |-> reader.size,
                   reading |-> TRUE, pending |-> reader.pending + 1]
    BY <1>1, <2>1
  <2>3. QED
    BY <2>1, <2>2
<1>4. t \in Ops /\ op' \in [Ops -> OpRecord] /\ InFlight' = InFlight \cup {t}
  BY <1>1, <1>2, OpTypes, InFlightChange, Sides DEF FlyingPcs
<1>5. FileTypeOK'
  BY <1>1, <1>3, <1>4 DEF FileInv, FileTypeOK, OpRecord
<1>6. Captured'
  BY <1>1, <1>2, <1>3, <1>4, CapturedChange DEF FileInv, Captured
<1>7. OpsAccounted'
  <2>1. Account(Reads, reader.pending, FALSE)
    BY <1>1 DEF FileInv, OpsAccounted, Account
  <2>2. reader.pending = 0 /\ Cardinality(InFlight' \cap Reads) = 1
    BY <1>4, <2>1, AccountEnters, Sides
  <2>3. /\ writer.pending = Cardinality(InFlight' \cap Writes) /\ writer.pending <= 1
        /\ (writer.writing <=> writer.pending = 1)
    <3>1. Account(Writes, writer.pending, writer.writing)
      BY DEF FileInv, OpsAccounted, Account
    <3>2. QED
      BY <1>4, <3>1, AccountOther, Sides
  <2>4. QED
    BY <1>1, <1>3, <2>2, <2>3 DEF OpsAccounted
<1>8. PositionTracksStream' /\ CountsAccepted'
  BY <1>1, <1>3 DEF FileInv, PositionTracksStream, CountsAccepted
<1>9. QED
  BY <1>5, <1>6, <1>7, <1>8 DEF FileInv

LEMMA FileInvWriteAsync ==
  ASSUME FileInv, NEW t \in Writes, NEW n \in Lengths, WriteAsync(t, n)
  PROVE  FileInv'
<1> DEFINE x == [NewOp EXCEPT !.pc = "flagged", !.addr = writer.handle, !.len = n]
<1>1. /\ op[t].pc = "new" /\ writer.handle # Null /\ ~writer.writing
      /\ writer' = [writer EXCEPT !.writing = TRUE, !.pending = @ + 1]
      /\ op' = [op EXCEPT ![t] = x]
      /\ UNCHANGED <<reader, istream, ostream>>
  BY DEF WriteAsync, readerVars
<1>2. x \in OpRecord /\ x.pc = "flagged" /\ x.addr = writer.handle
  BY AsyncFileAssumption DEF NewOp, OpRecord, FileInv, FileTypeOK
<1> HIDE DEF x
<1>3. /\ writer' \in [handle : Addrs \cup {Null}, bytes : Nat,
                      writing : BOOLEAN, pending : Int]
      /\ writer'.pending = writer.pending + 1 /\ writer'.writing = TRUE
      /\ writer'.handle = writer.handle /\ writer'.bytes = writer.bytes
  <2>1. writer \in [handle : Addrs \cup {Null}, bytes : Nat,
                    writing : BOOLEAN, pending : Int]
    BY DEF FileInv, FileTypeOK
  <2>2. writer' = [handle |-> writer.handle, bytes |-> writer.bytes,
                   writing |-> TRUE, pending |-> writer.pending + 1]
    BY <1>1, <2>1
  <2>3. QED
    BY <2>1, <2>2
<1>4. t \in Ops /\ op' \in [Ops -> OpRecord] /\ InFlight' = InFlight \cup {t}
  BY <1>1, <1>2, OpTypes, InFlightChange, Sides DEF FlyingPcs
<1>5. FileTypeOK'
  BY <1>1, <1>3, <1>4 DEF FileInv, FileTypeOK, OpRecord
<1>6. Captured'
  BY <1>1, <1>2, <1>4, CapturedChange DEF FileInv, Captured
<1>7. OpsAccounted'
  <2>1. Account(Writes, writer.pending, FALSE)
    BY <1>1 DEF FileInv, OpsAccounted, Account
  <2>2. writer.pending = 0 /\ Cardinality(InFlight' \cap Writes) = 1
    BY <1>4, <2>1, AccountEnters, Sides
  <2>3. /\ reader.pending = Cardinality(InFlight' \cap Reads) /\ reader.pending <= 1
        /\ (reader.reading <=> reader.pending = 1)
    <3>1. Account(Reads, reader.pending, reader.reading)
      BY DEF FileInv, OpsAccounted, Account
    <3>2. QED
      BY <1>4, <3>1, AccountOther, Sides
  <2>4. QED
    BY <1>1, <1>3, <2>2, <2>3 DEF OpsAccounted
<1>8. PositionTracksStream' /\ CountsAccepted'
  BY <1>1, <1>3 DEF FileInv, PositionTracksStream, CountsAccepted
<1>9. QED
  BY <1>5, <1>6, <1>7, <1>8 DEF FileInv

LEMMA FileInvEnqueue ==
  ASSUME FileInv, NEW t \in Ops, Enqueue(t)
  PROVE  FileInv'
<1>1. /\ op[t].pc = "flagged" /\ UNCHANGED <<reader, istream, writer, ostream>>
      /\ \E pc \in {"queued", "lost"} : op' = [op EXCEPT ![t].pc = pc]
  BY DEF Enqueue, readerVars, writerVars
<1>2. PICK pc \in {"queued", "lost"} : op' = [op EXCEPT ![t].pc = pc]
  BY <1>1
<1> DEFINE x == [op[t] EXCEPT !.pc = pc]
<1>3. op[t] \in OpRecord /\ op[t].addr # Null
  BY <1>1, OpTypes DEF FileInv, Captured
<1>4. x \in OpRecord /\ x.pc = pc /\ x.addr # Null /\ op' = [op EXCEPT ![t] = x]
  BY <1>2, <1>3 DEF OpRecord
<1> HIDE DEF x
<1>5. op' \in [Ops -> OpRecord] /\ InFlight' = InFlight
  BY <1>1, <1>4, OpTypes, InFlightChange DEF FlyingPcs
<1>6. FileTypeOK'
  BY <1>1, <1>5 DEF FileInv, FileTypeOK, OpRecord
<1>7. Captured'
  BY <1>1, <1>4, CapturedChange DEF FileInv, Captured
<1>8. OpsAccounted' /\ PositionTracksStream' /\ CountsAccepted'
  BY <1>1, <1>5, AccountsMove DEF FileInv, PositionTracksStream, CountsAccepted
<1>9. QED
  BY <1>6, <1>7, <1>8 DEF FileInv

\* The task reads from the stream it was queued for, or from none.
LEMMA FileInvReadTask ==
  ASSUME FileInv, NEW t \in Reads, ReadTask(t)
  PROVE  FileInv'
<1> DEFINE same == reader.handle = op[t].addr
           got == IF same THEN StreamGot(op[t].len) ELSE 0
           x == [op[t] EXCEPT !.pc = "acted", !.got = got, !.error = ~same]
<1>1. /\ op[t].pc = "queued" /\ t \in Ops /\ op[t] \in OpRecord /\ op[t].addr # Null
      /\ op[t].len \in Nat
  BY OpTypes, Sides DEF ReadTask, FileInv, Captured, OpRecord
<1>2. got \in Nat
  BY <1>1, StreamGotType
<1>3. x \in OpRecord /\ x.pc = "acted"
  BY <1>1, <1>2 DEF OpRecord
<1>4. /\ op' = [op EXCEPT ![t] = x]
      /\ reader' = [reader EXCEPT !.pos = @ + got]
      /\ UNCHANGED <<writer, ostream>>
  BY OpTypes, <1>1 DEF ReadTask, writerVars
<1>5. /\ reader' \in [handle : Addrs \cup {Null}, pos : Nat, size : Nat,
                      reading : BOOLEAN, pending : Int]
      /\ reader'.pending = reader.pending /\ reader'.reading = reader.reading
      /\ reader'.handle = reader.handle /\ reader'.pos = reader.pos + got
  <2> HIDE DEF got
  <2>1. QED
    BY <1>2, <1>4 DEF FileInv, FileTypeOK
<1>6. /\ istream' \in [file : Files \cup {Null}, at : Nat, fail : BOOLEAN]
      /\ istream'.file = istream.file /\ istream'.at = istream.at + got
      /\ ~istream'.fail => ~istream.fail
  <2>1. CASE same
    <3>1. istream' = [istream EXCEPT !.at = @ + got, !.fail = @ \/ got < op[t].len]
      BY <2>1 DEF ReadTask, StreamRead
    <3> HIDE DEF got
    <3>2. QED
      BY <1>2, <1>4, <3>1, StreamAdvances
  <2>2. CASE ~same
    <3>1. istream' = istream /\ got = 0
      BY <2>2 DEF ReadTask
    <3>2. istream \in [file : Files \cup {Null}, at : Nat, fail : BOOLEAN]
      BY DEF FileInv, FileTypeOK
    <3> HIDE DEF got
    <3>3. QED
      BY <3>1, <3>2
  <2>3. QED
    BY <2>1, <2>2
<1> HIDE DEF x, got
<1>7. op' \in [Ops -> OpRecord] /\ InFlight' = InFlight
  BY <1>1, <1>3, <1>4, OpTypes, InFlightChange DEF FlyingPcs
<1>8. FileTypeOK'
  BY <1>4, <1>5, <1>6, <1>7 DEF FileInv, FileTypeOK, OpRecord
<1>9. Captured'
  BY <1>1, <1>3, <1>4, <1>5, <1>6, CapturedChange DEF FileInv, Captured
<1>10. OpsAccounted'
  BY <1>4, <1>5, <1>7, AccountsMove
<1>11. PositionTracksStream' /\ CountsAccepted'
  BY <1>4, <1>5, <1>6 DEF FileInv, PositionTracksStream, CountsAccepted
<1>12. QED
  BY <1>8, <1>9, <1>10, <1>11 DEF FileInv

LEMMA FileInvReadTaskEnds ==
  ASSUME FileInv, NEW t \in Reads, ReadTaskEnds(t)
  PROVE  FileInv'
<1> DEFINE x == [NewOp EXCEPT !.pc = "done"]
<1>1. /\ op[t].pc = "acted" /\ op' = [op EXCEPT ![t] = x]
      /\ reader' = [reader EXCEPT !.reading = FALSE, !.pending = @ - 1]
      /\ UNCHANGED <<istream, writer, ostream>>
  BY DEF ReadTaskEnds, writerVars
<1>2. x \in OpRecord /\ x.pc = "done"
  BY DEF OpRecord, NewOp
<1> HIDE DEF x
<1>3. /\ reader' \in [handle : Addrs \cup {Null}, pos : Nat, size : Nat,
                      reading : BOOLEAN, pending : Int]
      /\ reader'.pending = reader.pending - 1 /\ reader'.reading = FALSE
      /\ reader'.handle = reader.handle /\ reader'.pos = reader.pos
  <2>1. reader \in [handle : Addrs \cup {Null}, pos : Nat, size : Nat,
                    reading : BOOLEAN, pending : Int]
    BY DEF FileInv, FileTypeOK
  <2>2. reader' = [handle |-> reader.handle, pos |-> reader.pos, size |-> reader.size,
                   reading |-> FALSE, pending |-> reader.pending - 1]
    BY <1>1, <2>1
  <2>3. QED
    BY <2>1, <2>2
<1>4. /\ t \in Ops /\ op' \in [Ops -> OpRecord]
      /\ InFlight' = InFlight \ {t} /\ t \in InFlight
  BY <1>1, <1>2, OpTypes, InFlightChange, Sides DEF FlyingPcs
<1>5. FileTypeOK'
  BY <1>1, <1>3, <1>4 DEF FileInv, FileTypeOK, OpRecord
<1>6. Captured'
  BY <1>1, <1>2, <1>3, <1>4, CapturedChange DEF FileInv, Captured
<1>7. OpsAccounted'
  <2>1. Account(Reads, reader.pending, reader.reading)
    BY DEF FileInv, OpsAccounted, Account
  <2>2. reader.pending = 1 /\ Cardinality(InFlight' \cap Reads) = 0
    BY <1>4, <2>1, AccountLeaves, Sides
  <2>3. /\ writer.pending = Cardinality(InFlight' \cap Writes) /\ writer.pending <= 1
        /\ (writer.writing <=> writer.pending = 1)
    <3>1. Account(Writes, writer.pending, writer.writing)
      BY DEF FileInv, OpsAccounted, Account
    <3>2. QED
      BY <1>4, <3>1, AccountOther, Sides
  <2>4. QED
    BY <1>1, <1>3, <2>2, <2>3 DEF OpsAccounted
<1>8. PositionTracksStream' /\ CountsAccepted'
  BY <1>1, <1>3 DEF FileInv, PositionTracksStream, CountsAccepted
<1>9. QED
  BY <1>5, <1>6, <1>7, <1>8 DEF FileInv

\* The task writes to the stream it was queued for, or counts nothing.
LEMMA FileInvWriteTask ==
  ASSUME FileInv, NEW t \in Writes, WriteTask(t)
  PROVE  FileInv'
<1>1. /\ op[t].pc = "queued" /\ t \in Ops /\ op[t] \in OpRecord /\ op[t].addr # Null
      /\ op[t].len \in Nat /\ UNCHANGED <<reader, istream>>
  BY OpTypes, Sides DEF WriteTask, FileInv, Captured, OpRecord, readerVars
<1>2. \E x \in OpRecord : x.pc = "acted" /\ op' = [op EXCEPT ![t] = x]
  <2>1. CASE writer.handle = op[t].addr
    <3> DEFINE x == [op[t] EXCEPT !.pc = "acted", !.error = ostream'.fail,
                                  !.got = IF ostream'.fail THEN 0 ELSE op[t].len]
    <3>1. op' = [op EXCEPT ![t] = x]
      BY <1>1, <2>1, OpTypes DEF WriteTask
    <3>2. ostream'.fail \in BOOLEAN
      BY <1>1, <2>1, WriteCounts DEF WriteTask
    <3>3. x \in OpRecord /\ x.pc = "acted"
      BY <1>1, <3>2 DEF OpRecord
    <3> HIDE DEF x
    <3>4. QED
      BY <3>1, <3>3
  <2>2. CASE writer.handle # op[t].addr
    <3> DEFINE x == [op[t] EXCEPT !.pc = "acted", !.error = TRUE]
    <3>1. op' = [op EXCEPT ![t] = x]
      BY <1>1, <2>2, OpTypes DEF WriteTask
    <3>2. x \in OpRecord /\ x.pc = "acted"
      BY <1>1 DEF OpRecord
    <3> HIDE DEF x
    <3>3. QED
      BY <3>1, <3>2
  <2>3. QED
    BY <2>1, <2>2
<1>3. PICK x \in OpRecord : x.pc = "acted" /\ op' = [op EXCEPT ![t] = x]
  BY <1>2
<1>4. op' \in [Ops -> OpRecord] /\ InFlight' = InFlight
  BY <1>1, <1>3, OpTypes, InFlightChange DEF FlyingPcs
<1>5. /\ writer' \in [handle : Addrs \cup {Null}, bytes : Nat,
                      writing : BOOLEAN, pending : Int]
      /\ ostream' \in [disk : Nat, buffered : Nat, fail : BOOLEAN]
      /\ writer'.pending = writer.pending /\ writer'.writing = writer.writing
      /\ CountsAccepted'
  <2>1. CASE writer.handle = op[t].addr
    <3>1. /\ writer.handle # Null /\ StreamWrite(op[t].len)
          /\ writer' = [writer EXCEPT !.bytes = Counted(op[t].len)]
      BY <1>1, <2>1 DEF WriteTask
    <3>2. QED
      BY <1>1, <3>1, WriteCounts
  <2>2. CASE writer.handle # op[t].addr
    <3>1. UNCHANGED <<writer, ostream>>
      BY <2>2 DEF WriteTask, writerVars
    <3>2. QED
      BY <3>1 DEF FileInv, FileTypeOK, CountsAccepted
  <2>3. QED
    BY <2>1, <2>2
<1>6. FileTypeOK'
  BY <1>1, <1>4, <1>5 DEF FileInv, FileTypeOK, OpRecord
<1>7. Captured'
  BY <1>1, <1>3, CapturedChange DEF FileInv, Captured
<1>8. OpsAccounted' /\ PositionTracksStream'
  BY <1>1, <1>4, <1>5, AccountsMove DEF FileInv, PositionTracksStream
<1>9. QED
  BY <1>5, <1>6, <1>7, <1>8 DEF FileInv

LEMMA FileInvWriteTaskEnds ==
  ASSUME FileInv, NEW t \in Writes, WriteTaskEnds(t)
  PROVE  FileInv'
<1> DEFINE x == [NewOp EXCEPT !.pc = "done"]
<1>1. /\ op[t].pc = "acted" /\ op' = [op EXCEPT ![t] = x]
      /\ writer' = [writer EXCEPT !.writing = FALSE, !.pending = @ - 1]
      /\ UNCHANGED <<reader, istream, ostream>>
  BY DEF WriteTaskEnds, readerVars
<1>2. x \in OpRecord /\ x.pc = "done"
  BY DEF OpRecord, NewOp
<1> HIDE DEF x
<1>3. /\ writer' \in [handle : Addrs \cup {Null}, bytes : Nat,
                      writing : BOOLEAN, pending : Int]
      /\ writer'.pending = writer.pending - 1 /\ writer'.writing = FALSE
      /\ writer'.handle = writer.handle /\ writer'.bytes = writer.bytes
  <2>1. writer \in [handle : Addrs \cup {Null}, bytes : Nat,
                    writing : BOOLEAN, pending : Int]
    BY DEF FileInv, FileTypeOK
  <2>2. writer' = [handle |-> writer.handle, bytes |-> writer.bytes,
                   writing |-> FALSE, pending |-> writer.pending - 1]
    BY <1>1, <2>1
  <2>3. QED
    BY <2>1, <2>2
<1>4. /\ t \in Ops /\ op' \in [Ops -> OpRecord]
      /\ InFlight' = InFlight \ {t} /\ t \in InFlight
  BY <1>1, <1>2, OpTypes, InFlightChange, Sides DEF FlyingPcs
<1>5. FileTypeOK'
  BY <1>1, <1>3, <1>4 DEF FileInv, FileTypeOK, OpRecord
<1>6. Captured'
  BY <1>1, <1>2, <1>4, CapturedChange DEF FileInv, Captured
<1>7. OpsAccounted'
  <2>1. Account(Writes, writer.pending, writer.writing)
    BY DEF FileInv, OpsAccounted, Account
  <2>2. writer.pending = 1 /\ Cardinality(InFlight' \cap Writes) = 0
    BY <1>4, <2>1, AccountLeaves, Sides
  <2>3. /\ reader.pending = Cardinality(InFlight' \cap Reads) /\ reader.pending <= 1
        /\ (reader.reading <=> reader.pending = 1)
    <3>1. Account(Reads, reader.pending, reader.reading)
      BY DEF FileInv, OpsAccounted, Account
    <3>2. QED
      BY <1>4, <3>1, AccountOther, Sides
  <2>4. QED
    BY <1>1, <1>3, <2>2, <2>3 DEF OpsAccounted
<1>8. PositionTracksStream' /\ CountsAccepted'
  BY <1>1, <1>3 DEF FileInv, PositionTracksStream, CountsAccepted
<1>9. QED
  BY <1>5, <1>6, <1>7, <1>8 DEF FileInv

LEMMA FileInvStutter ==
  ASSUME FileInv, UNCHANGED <<reader, istream, writer, ostream, op>>
  PROVE  FileInv'
<1>1. FileTypeOK' /\ Captured' /\ PositionTracksStream' /\ CountsAccepted'
  BY DEF FileInv, FileTypeOK, Captured, PositionTracksStream, CountsAccepted
<1>2. OpsAccounted'
  BY AccountsKept DEF FileInv
<1>3. QED
  BY <1>1, <1>2 DEF FileInv

LEMMA FileInvStep == FileInv /\ [FileNext]_fileVars => FileInv'
<1> SUFFICES ASSUME FileInv, [FileNext]_fileVars PROVE FileInv'
  OBVIOUS
<1>1. CASE ReaderCalls
  BY <1>1, FileInvReaderCalls, FileInvReadAsync
<1>2. CASE WriterCalls
  BY <1>2, FileInvWriterCalls, FileInvWriteAsync
<1>3. CASE PoolSteps
  BY <1>3, FileInvStutter DEF PoolSteps, readerVars, writerVars
<1>4. CASE \E t \in Ops : Enqueue(t)
  BY <1>4, FileInvEnqueue
<1>5. CASE \E t \in Reads : ReadTask(t) \/ ReadTaskEnds(t)
  BY <1>5, FileInvReadTask, FileInvReadTaskEnds
<1>6. CASE \E t \in Writes : WriteTask(t) \/ WriteTaskEnds(t)
  BY <1>6, FileInvWriteTask, FileInvWriteTaskEnds
<1>7. CASE UNCHANGED fileVars
  BY <1>7, FileInvStutter DEF fileVars
<1>8. QED
  BY <1>1, <1>2, <1>3, <1>4, <1>5, <1>6, <1>7 DEF FileNext

-----------------------------------------------------------------------------
(* The theorems about the file objects                                     *)

\* Types and the three accounts hold together, whatever clients, the pool and
\* the disk do.
THEOREM FileInvariance == FileSafeSpec => []FileInv
<1>1. FileInit => FileInv
  BY FileInvInit
<1>2. FileInv /\ [FileNext]_fileVars => FileInv'
  BY FileInvStep
<1>3. QED
  BY <1>1, <1>2, PTL DEF FileSafeSpec

\* is_reading_, is_writing_ and pending_ops_ count the operations in flight, of
\* which each object has at most one, for any number of callers.
THEOREM FileOpsAccounted == FileSafeSpec => []OpsAccounted
<1>1. FileInv => OpsAccounted
  BY DEF FileInv
<1>2. QED
  BY <1>1, FileInvariance, PTL

\* The position AsyncFileReader reports is the stream's, across closes and opens
\* that overtake queued reads, for files of any length.
THEOREM ReaderPosition == FileSafeSpec => []PositionTracksStream
<1>1. FileInv => PositionTracksStream
  BY DEF FileInv
<1>2. QED
  BY <1>1, FileInvariance, PTL

\* The count AsyncFileWriter reports is what the current stream accepted.
THEOREM WriterCount == FileSafeSpec => []CountsAccepted
<1>1. FileInv => CountsAccepted
  BY DEF FileInv
<1>2. QED
  BY <1>1, FileInvariance, PTL

-----------------------------------------------------------------------------
(* Operations that the pool drops                                          *)

\* A step moves an operation that is under way or new, and no other.
LEMMA LostStays ==
  ASSUME FileInv, NEW t \in Ops, op[t].pc = "lost", [FileNext]_fileVars
  PROVE  op'[t].pc = "lost"
<1>1. op \in [Ops -> OpRecord]
  BY OpTypes
<1> SUFFICES op'[t] = op[t]
  OBVIOUS
<1>2. ASSUME NEW u \in Ops, op[u].pc # "lost", NEW x, op' = [op EXCEPT ![u] = x]
      PROVE  op'[t] = op[t]
  BY <1>1, <1>2
<1>3. CASE ReaderCalls
  BY <1>2, <1>3, Sides DEF ReaderCalls, OpenFileFails, CloseFile, OpenFile, ReadSync, ReadAsync, Seek
<1>4. CASE WriterCalls
  BY <1>2, <1>4, Sides DEF WriterCalls, CreateFileFails, CloseWriter, FlushBuffer, CreateFile,
     WriteSync, WriteAsync
<1>5. CASE PoolSteps \/ UNCHANGED fileVars
  BY <1>5 DEF PoolSteps, fileVars
<1>6. ASSUME NEW u \in Ops, Enqueue(u) PROVE op'[t] = op[t]
  <2>1. \/ op' = [op EXCEPT ![u] = [op[u] EXCEPT !.pc = "queued"]]
        \/ op' = [op EXCEPT ![u] = [op[u] EXCEPT !.pc = "lost"]]
    BY <1>1, <1>6 DEF Enqueue
  <2>2. op[u].pc # "lost"
    BY <1>6 DEF Enqueue
  <2>3. QED
    BY <1>2, <2>1, <2>2
<1>7. ASSUME NEW u \in Ops, op[u].pc \in {"queued", "acted"}, \A v \in Ops : v # u => op'[v] = op[v]
      PROVE  op'[t] = op[t]
  BY <1>7
<1>8. ASSUME NEW u \in Reads, ReadTask(u) \/ ReadTaskEnds(u) PROVE op'[t] = op[t]
  <2>1. u \in Ops /\ op[u].pc \in {"queued", "acted"}
    BY <1>8, Sides DEF ReadTask, ReadTaskEnds
  <2>2. \A v \in Ops : v # u => op'[v] = op[v]
    BY <1>1, <1>8, <2>1 DEF ReadTask, ReadTaskEnds
  <2>3. QED
    BY <1>7, <2>1, <2>2
<1>9. ASSUME NEW u \in Writes, WriteTask(u) \/ WriteTaskEnds(u) PROVE op'[t] = op[t]
  <2>1. u \in Ops /\ op[u].pc \in {"queued", "acted"}
    BY <1>9, Sides DEF WriteTask, WriteTaskEnds
  <2>2. \A v \in Ops : v # u => op'[v] = op[v]
    BY <1>1, <1>9, <2>1 DEF WriteTask, WriteTaskEnds
  <2>3. QED
    BY <1>7, <2>1, <2>2
<1>10. QED
  BY <1>3, <1>4, <1>5, <1>6, <1>8, <1>9 DEF FileNext

\* The flag that a lost operation holds.
Refuses(t) == (t \in Reads => reader.reading) /\ (t \in Writes => writer.writing)

LEMMA LostHolds ==
  ASSUME FileInv, NEW t \in Ops, op[t].pc = "lost"
  PROVE  Refuses(t)
<1>1. t \in InFlight
  BY DEF InFlight
<1>2. IsFiniteSet(InFlight \cap Reads) /\ IsFiniteSet(InFlight \cap Writes)
  <2>1. InFlight \cap Reads \in SUBSET (Reads \cup Writes)
        /\ InFlight \cap Writes \in SUBSET (Reads \cup Writes)
    OBVIOUS
  <2>2. QED
    BY <2>1, AsyncFileAssumption, FS_Subset
<1>3. /\ Cardinality(InFlight \cap Reads) = 0 => InFlight \cap Reads = {}
      /\ Cardinality(InFlight \cap Writes) = 0 => InFlight \cap Writes = {}
      /\ Cardinality(InFlight \cap Reads) \in Nat /\ Cardinality(InFlight \cap Writes) \in Nat
  BY <1>2, FS_EmptySet, FS_CardinalityType
<1>4. OpsAccounted
  BY DEF FileInv
<1>5. ASSUME t \in Reads PROVE reader.reading
  <2>1. Cardinality(InFlight \cap Reads) # 0
    BY <1>1, <1>3, <1>5
  <2>2. reader.pending = 1
    BY <1>3, <1>4, <2>1 DEF OpsAccounted
  <2>3. QED
    BY <1>4, <2>2 DEF OpsAccounted
<1>6. ASSUME t \in Writes PROVE writer.writing
  <2>1. Cardinality(InFlight \cap Writes) # 0
    BY <1>1, <1>3, <1>6
  <2>2. writer.pending = 1
    BY <1>3, <1>4, <2>1 DEF OpsAccounted
  <2>3. QED
    BY <1>4, <2>2 DEF OpsAccounted
<1>7. QED
  BY <1>5, <1>6 DEF Refuses

\* A read or a write that is handed to the pool while it closes may be dropped.  The
\* object then keeps its flag for ever, whatever is closed and opened and though the
\* pool may be started again: every later ReadAsync, or WriteAsync, is refused
\* (async_file_reader.cc:85).
THEOREM LostOperationRefusesAll ==
  ASSUME NEW t \in Ops
  PROVE  FileSafeSpec => [](op[t].pc = "lost" => [](op[t].pc = "lost" /\ Refuses(t)))
<1>1. FileInv /\ op[t].pc = "lost" => Refuses(t)
  BY LostHolds
<1>2. FileInv /\ op[t].pc = "lost" /\ [FileNext]_fileVars => (op[t].pc = "lost")'
  BY LostStays
<1>3. QED
  BY <1>1, <1>2, FileInvariance, PTL DEF FileSafeSpec

-----------------------------------------------------------------------------
(* Prefetches in progress                                                  *)

\* The prefetches that hold a key.
Holding == {t \in Tasks : task[t].pc \notin {"new", "done"}}

\* A key in progress is held by one prefetch, and a prefetch under way holds its.
HoldInv ==
  /\ DOMAIN task = Tasks /\ inProgress \subseteq Keys
  /\ \A t \in Tasks : "key" \in DOMAIN task[t] /\ "pc" \in DOMAIN task[t]
  /\ \A t \in Holding : task[t].key \in inProgress
  /\ \A k \in inProgress : \E t \in Holding : task[t].key = k
  /\ \A t, u \in Holding : task[t].key = task[u].key => t = u

LEMMA HoldInvReleased == HoldInv => KeysReleased
<1> SUFFICES ASSUME HoldInv, NEW k \in Keys
             PROVE  LET holding == {t \in Tasks : task[t].key = k /\ task[t].pc \notin {"new", "done"}}
                    IN  Cardinality(holding) = (IF k \in inProgress THEN 1 ELSE 0)
  BY DEF KeysReleased
<1> DEFINE holding == {t \in Tasks : task[t].key = k /\ task[t].pc \notin {"new", "done"}}
<1>1. CASE k \in inProgress
  <2>1. PICK t \in Holding : task[t].key = k
    BY <1>1 DEF HoldInv
  <2>2. holding = {t}
    BY <2>1 DEF HoldInv, Holding
  <2>3. QED
    BY <1>1, <2>2, FS_Singleton
<1>2. CASE k \notin inProgress
  <2>1. holding = {}
    BY <1>2 DEF HoldInv, Holding
  <2>2. QED
    BY <1>2, <2>1, FS_EmptySet
<1>3. QED
  BY <1>1, <1>2

\* A step of one prefetch between its start and its end.
LEMMA HoldInvMove ==
  ASSUME HoldInv, NEW t \in Holding, UNCHANGED inProgress, DOMAIN task' = Tasks,
         \A u \in Tasks : u # t => task'[u] = task[u],
         "key" \in DOMAIN task'[t], "pc" \in DOMAIN task'[t],
         task'[t].key = task[t].key, task'[t].pc \notin {"new", "done"}
  PROVE  HoldInv'
<1>1. Holding' = Holding
  BY DEF Holding, HoldInv
<1>2. \A u \in Holding : u \in Tasks /\ task'[u].key = task[u].key
  BY DEF Holding
<1>3. QED
  BY <1>1, <1>2 DEF HoldInv

\* A step that leaves the prefetches alone.
LEMMA HoldInvStutter ==
  ASSUME HoldInv, UNCHANGED <<task, inProgress>>
  PROVE  HoldInv'
  BY DEF HoldInv, Holding

LEMMA HoldInvStart ==
  ASSUME HoldInv, NEW t \in Tasks, NEW k \in Keys, PrefetchAsync(t, k)
  PROVE  HoldInv'
<1>1. /\ t \notin Holding /\ k \notin inProgress /\ inProgress' = inProgress \cup {k}
      /\ DOMAIN task' = Tasks /\ \A u \in Tasks : u # t => task'[u] = task[u]
      /\ task'[t].key = k /\ task'[t].pc = "queued"
      /\ "key" \in DOMAIN task'[t] /\ "pc" \in DOMAIN task'[t]
  BY DEF PrefetchAsync, HoldInv, Holding
<1>2. Holding' = Holding \cup {t}
  BY <1>1 DEF Holding
<1>3. \A u \in Holding : u # t /\ task'[u].key = task[u].key /\ task[u].key # k
  BY <1>1 DEF HoldInv, Holding
<1>4. QED
  BY <1>1, <1>2, <1>3 DEF HoldInv

LEMMA HoldInvEnd ==
  ASSUME HoldInv, NEW t \in Tasks, EraseInProgress(t)
  PROVE  HoldInv'
<1>1. /\ t \in Holding /\ inProgress' = inProgress \ {task[t].key}
      /\ DOMAIN task' = Tasks /\ \A u \in Tasks : u # t => task'[u] = task[u]
      /\ task'[t].pc = "done"
      /\ "key" \in DOMAIN task'[t] /\ "pc" \in DOMAIN task'[t]
  BY DEF EraseInProgress, HoldInv, Holding, NewTask
<1>2. Holding' = Holding \ {t}
  BY <1>1 DEF Holding
<1>3. \A u \in Holding \ {t} : task'[u].key = task[u].key /\ task[u].key # task[t].key
  BY <1>1 DEF HoldInv, Holding
<1>4. QED
  BY <1>1, <1>2, <1>3 DEF HoldInv

LEMMA HoldInvStep == HoldInv /\ [PrefetchNext]_prefetchVars => HoldInv'
<1> SUFFICES ASSUME HoldInv, [PrefetchNext]_prefetchVars PROVE HoldInv'
  OBVIOUS
<1>1. ASSUME NEW t \in Tasks, MapRead(t) \/ MapPush(t) \/ TaskGetRegion(t) \/ TestGeneration(t)
                               \/ PutOrUnmap(t) \/ PoolLoses(t)
      PROVE  HoldInv'
  <2>1. task[t].pc \in {"queued", "read", "mapped", "got", "tested"}
    BY <1>1 DEF MapRead, MapPush, TaskGetRegion, TestGeneration, PutOrUnmap, PoolLoses
  <2>2. t \in Holding
    BY <2>1 DEF Holding
  <2>3. UNCHANGED inProgress
    BY <1>1 DEF MapRead, MapPush, TaskGetRegion, TestGeneration, PutOrUnmap, PoolLoses, sharedVars
  <2>4. /\ DOMAIN task' = Tasks /\ \A u \in Tasks : u # t => task'[u] = task[u]
        /\ "key" \in DOMAIN task'[t] /\ "pc" \in DOMAIN task'[t]
        /\ task'[t].key = task[t].key /\ task'[t].pc \notin {"new", "done"}
    <3>1. CASE MapRead(t)
      BY <3>1 DEF MapRead, HoldInv
    <3>2. CASE MapPush(t)
      BY <3>2 DEF MapPush, HoldInv
    <3>3. CASE TaskGetRegion(t)
      BY <3>3 DEF TaskGetRegion, HoldInv
    <3>4. CASE TestGeneration(t)
      BY <3>4 DEF TestGeneration, HoldInv
    <3>5. CASE PutOrUnmap(t)
      BY <3>5 DEF PutOrUnmap, HoldInv
    <3>6. CASE PoolLoses(t)
      BY <3>6 DEF PoolLoses, HoldInv
    <3>7. QED
      BY <1>1, <3>1, <3>2, <3>3, <3>4, <3>5, <3>6
  <2>5. QED
    BY <2>2, <2>3, <2>4, HoldInvMove DEF HoldInv
<1>2. CASE \E g \in Getters : TryGetMap(g) \/ TryGetPut(g) \/ \E k \in Keys : TryGetCache(g, k)
  <2>1. UNCHANGED <<task, inProgress>>
    BY <1>2 DEF TryGetMap, TryGetPut, TryGetCache, sharedVars
  <2>2. QED
    BY <2>1, HoldInvStutter
<1>3. CASE \E i \in Invalidators : InvalidateCache(i) \/ InvalidateMap(i) \/ Settle(i)
                                  \/ \E p \in Paths : BumpGeneration(i, p)
  <2>1. UNCHANGED <<task, inProgress>>
    BY <1>3 DEF InvalidateCache, InvalidateMap, Settle, BumpGeneration, sharedVars
  <2>2. QED
    BY <2>1, HoldInvStutter
<1>4. CASE (\E p \in Paths : FileChanges(p)) \/ UNCHANGED prefetchVars
  <2>1. UNCHANGED <<task, inProgress>>
    BY <1>4 DEF FileChanges, sharedVars, prefetchVars
  <2>2. QED
    BY <2>1, HoldInvStutter
<1>5. QED
  BY <1>1, <1>2, <1>3, <1>4, HoldInvStart, HoldInvEnd DEF PrefetchNext, TaskStep

\* The end of a prefetch releases its key, whatever became of it, and no two
\* prefetches of a region overlap, for any number of them.
THEOREM PrefetchKeys == PrefetchSpec => []KeysReleased
<1>1. PrefetchInit => HoldInv
  BY DEF PrefetchInit, HoldInv, Holding, NewTask
<1>2. HoldInv /\ [PrefetchNext]_prefetchVars => HoldInv'
  BY HoldInvStep
<1>3. QED
  BY <1>1, <1>2, HoldInvReleased, PTL DEF PrefetchSpec

-----------------------------------------------------------------------------
(* The cache: lists of entries                                             *)

Entry == [key : Keys, data : Nat]

LEMMA EntryBytes ==
  ASSUME NEW e \in Entry
  PROVE  e.key \in Keys /\ e.key[2].len \in Nat
  BY PrefetchAssumption DEF Entry, Keys

\* The recursion behind Bytes.
BytesStep(s) == [n \in 1 .. Len(s) |-> [x \in Nat |-> x + s[n].key[2].len]]

LEMMA BytesUnfolds ==
  ASSUME NEW s \in Seq(Entry)
  PROVE  \E f : Unfolds(f, 0, BytesStep(s), Len(s), Nat) /\ Bytes(s) = f[Len(s)]
<1> DEFINE L == Len(s)
           g == BytesStep(s)
           F(f) == f = [n \in 0 .. L |-> IF n = 0 THEN 0 ELSE f[n - 1] + s[n].key[2].len]
           u == CHOOSE f : F(f)
<1>1. L \in Nat /\ \A n \in 1 .. L : s[n].key[2].len \in Nat
  BY EntryBytes
<1>2. IsStep(g, L, Nat)
  BY <1>1 DEF IsStep, BytesStep
<1>3. PICK f : Unfolds(f, 0, g, L, Nat)
  <2> HIDE DEF g, L
  <2>1. QED
    BY <1>1, <1>2, FiniteRecursion
<1>4. ASSUME NEW e, F(e) PROVE Unfolds(e, 0, g, L, Nat)
  <2>1. e[0] = 0 /\ \A n \in 1 .. L : e[n] = e[n - 1] + s[n].key[2].len
    <3> HIDE DEF L
    <3>1. 0 \in 0 .. L /\ \A n \in 1 .. L : n \in 0 .. L /\ n # 0
      BY <1>1
    <3>2. e[0] = 0
      BY <1>4, <3>1
    <3>3. ASSUME NEW n \in 1 .. L PROVE e[n] = e[n - 1] + s[n].key[2].len
      BY <1>4, <3>1
    <3>4. QED
      BY <3>2, <3>3
  <2> DEFINE T == {n \in Nat : n <= L => e[n] \in Nat}
  <2>2. Nat \subseteq T
    <3>1. 0 \in T
      BY <2>1
    <3>2. \A n \in Nat : n \in T => n + 1 \in T
      BY <1>1, <2>1
    <3> HIDE DEF T
    <3>3. QED
      BY <3>1, <3>2, NatInd
  <2>3. e \in [0 .. L -> Nat]
    <3>1. \A n \in 0 .. L : e[n] \in Nat
      BY <1>1, <2>2
    <3>2. e = [n \in 0 .. L |-> e[n]]
      BY <1>4
    <3>3. QED
      BY <3>1, <3>2
  <2>4. \A n \in 1 .. L : e[n] = g[n][e[n - 1]]
    <3> SUFFICES ASSUME NEW n \in 1 .. L PROVE e[n] = g[n][e[n - 1]]
      OBVIOUS
    <3>1. e[n - 1] \in Nat
      BY <1>1, <2>3
    <3>2. QED
      BY <1>1, <2>1, <3>1 DEF BytesStep
  <2>5. QED
    BY <2>1, <2>3, <2>4 DEF Unfolds
<1>5. F(f)
  <2>1. f \in [0 .. L -> Nat] /\ f[0] = 0 /\ \A n \in 1 .. L : f[n] = g[n][f[n - 1]]
    BY <1>3 DEF Unfolds
  <2>2. \A n \in 1 .. L : f[n] = f[n - 1] + s[n].key[2].len
    <3> SUFFICES ASSUME NEW n \in 1 .. L PROVE f[n] = f[n - 1] + s[n].key[2].len
      OBVIOUS
    <3>1. n - 1 \in 0 .. L /\ f \in [0 .. L -> Nat]
      BY <1>1, <2>1
    <3>2. f[n - 1] \in Nat
      BY <3>1
    <3>3. QED
      BY <2>1, <3>2 DEF BytesStep
  <2> HIDE DEF L
  <2>3. \A n \in 0 .. L : n = 0 \/ n \in 1 .. L
    BY <1>1
  <2>4. \A n \in 0 .. L : f[n] = IF n = 0 THEN 0 ELSE f[n - 1] + s[n].key[2].len
    BY <2>1, <2>2, <2>3
  <2>5. f = [n \in 0 .. L |-> f[n]]
    BY <2>1
  <2>6. QED
    BY <2>4, <2>5
<1>6. F(u)
  BY <1>5
<1>7. Bytes(s) = u[L]
  BY DEF Bytes
<1> HIDE DEF u, F
<1>8. QED
  BY <1>4, <1>6, <1>7

LEMMA BytesEmpty == Bytes(<<>>) = 0
<1>1. <<>> \in Seq(Entry) /\ Len(<<>>) = 0
  OBVIOUS
<1>2. QED
  BY <1>1, BytesUnfolds DEF Unfolds

LEMMA BytesAppend ==
  ASSUME NEW s \in Seq(Entry), NEW e \in Entry
  PROVE  /\ Bytes(s) \in Nat
         /\ Bytes(Append(s, e)) = Bytes(s) + e.key[2].len
<1> DEFINE r == Append(s, e)
           L == Len(s)
<1>1. /\ L \in Nat /\ r \in Seq(Entry) /\ Len(r) = L + 1 /\ r[L + 1] = e
      /\ \A n \in 1 .. L : r[n] = s[n]
  OBVIOUS
<1>2. PICK f : Unfolds(f, 0, BytesStep(s), L, Nat) /\ Bytes(s) = f[L]
  BY BytesUnfolds
<1> HIDE DEF r
<1>3. PICK h : Unfolds(h, 0, BytesStep(r), L + 1, Nat) /\ Bytes(r) = h[L + 1]
  BY <1>1, BytesUnfolds
<1>4. \A n \in 1 .. L : \A x \in Nat : BytesStep(r)[n][x] = BytesStep(s)[n][x]
  BY <1>1 DEF BytesStep
<1>5. \A n \in 0 .. L : h[n] = f[n]
  <2>1. L + 1 \in Nat /\ L <= L + 1
    BY <1>1
  <2> HIDE DEF L
  <2>2. QED
    BY <1>1, <1>2, <1>3, <1>4, <2>1, SameRecursion
<1>6. h[L] = f[L] /\ f[L] \in Nat
  BY <1>1, <1>2, <1>5 DEF Unfolds
<1>7. h[L + 1] = BytesStep(r)[L + 1][h[L]]
  BY <1>1, <1>3 DEF Unfolds
<1>8. BytesStep(r)[L + 1][h[L]] = h[L] + e.key[2].len
  BY <1>1, <1>6 DEF BytesStep
<1>9. QED
  BY <1>2, <1>3, <1>6, <1>7, <1>8 DEF r

\* The recursion behind Having.
HavingStep(s, K) ==
  [n \in 1 .. Len(s) |-> [x \in Seq(Entry) |-> IF s[n].key \in K THEN Append(x, s[n]) ELSE x]]

LEMMA HavingUnfolds ==
  ASSUME NEW s \in Seq(Entry), NEW K
  PROVE  \E f : /\ Unfolds(f, <<>>, HavingStep(s, K), Len(s), Seq(Entry))
                /\ Having(s, K) = f[Len(s)]
<1> DEFINE L == Len(s)
           S == Seq(Entry)
           g == HavingStep(s, K)
           F(f) == f = [n \in 0 .. L |->
                          IF n = 0 THEN <<>>
                          ELSE IF s[n].key \in K THEN Append(f[n - 1], s[n]) ELSE f[n - 1]]
           u == CHOOSE f : F(f)
<1>1. L \in Nat /\ <<>> \in S /\ \A n \in 1 .. L : s[n] \in Entry
  OBVIOUS
<1>2. IsStep(g, L, S)
  BY <1>1 DEF IsStep, HavingStep
<1>3. PICK f : Unfolds(f, <<>>, g, L, S)
  <2> HIDE DEF g, L, S
  <2>1. QED
    BY <1>1, <1>2, FiniteRecursion
<1>4. ASSUME NEW e, F(e) PROVE Unfolds(e, <<>>, g, L, S)
  <2>1. /\ e[0] = <<>>
        /\ \A n \in 1 .. L : e[n] = IF s[n].key \in K THEN Append(e[n - 1], s[n]) ELSE e[n - 1]
    <3> HIDE DEF L
    <3>1. 0 \in 0 .. L /\ \A n \in 1 .. L : n \in 0 .. L /\ n # 0
      BY <1>1
    <3>2. e[0] = <<>>
      BY <1>4, <3>1
    <3>3. ASSUME NEW n \in 1 .. L
          PROVE  e[n] = IF s[n].key \in K THEN Append(e[n - 1], s[n]) ELSE e[n - 1]
      BY <1>4, <3>1
    <3>4. QED
      BY <3>2, <3>3
  <2> DEFINE T == {n \in Nat : n <= L => e[n] \in S}
  <2>2. Nat \subseteq T
    <3>1. 0 \in T
      BY <1>1, <2>1
    <3>2. \A n \in Nat : n \in T => n + 1 \in T
      <4> SUFFICES ASSUME NEW n \in Nat, n \in T, n + 1 <= L PROVE e[n + 1] \in S
        OBVIOUS
      <4>1. e[n] \in S /\ n + 1 \in 1 .. L /\ (n + 1) - 1 = n /\ s[n + 1] \in Entry
        BY <1>1
      <4>2. e[n + 1] = IF s[n + 1].key \in K THEN Append(e[n], s[n + 1]) ELSE e[n]
        BY <2>1, <4>1
      <4>3. QED
        BY <4>1, <4>2
    <3> HIDE DEF T
    <3>3. QED
      BY <3>1, <3>2, NatInd
  <2>3. e \in [0 .. L -> S]
    <3> HIDE DEF S
    <3>1. \A n \in 0 .. L : e[n] \in S
      BY <1>1, <2>2
    <3>2. e = [n \in 0 .. L |-> e[n]]
      BY <1>4
    <3>3. QED
      BY <3>1, <3>2
  <2>4. \A n \in 1 .. L : e[n] = g[n][e[n - 1]]
    <3> SUFFICES ASSUME NEW n \in 1 .. L PROVE e[n] = g[n][e[n - 1]]
      OBVIOUS
    <3>1. e[n - 1] \in S
      BY <1>1, <2>3
    <3>2. QED
      BY <1>1, <2>1, <3>1 DEF HavingStep
  <2>5. QED
    BY <2>1, <2>3, <2>4 DEF Unfolds
<1>5. F(f)
  <2>1. f \in [0 .. L -> S] /\ f[0] = <<>> /\ \A n \in 1 .. L : f[n] = g[n][f[n - 1]]
    BY <1>3 DEF Unfolds
  <2>2. \A n \in 1 .. L : f[n] = IF s[n].key \in K THEN Append(f[n - 1], s[n]) ELSE f[n - 1]
    <3> SUFFICES ASSUME NEW n \in 1 .. L
                 PROVE  f[n] = IF s[n].key \in K THEN Append(f[n - 1], s[n]) ELSE f[n - 1]
      OBVIOUS
    <3>1. n - 1 \in 0 .. L /\ f \in [0 .. L -> S]
      BY <1>1, <2>1
    <3>2. f[n - 1] \in S
      BY <3>1
    <3>3. QED
      BY <2>1, <3>2 DEF HavingStep
  <2> HIDE DEF L, S
  <2>3. \A n \in 0 .. L : n = 0 \/ n \in 1 .. L
    BY <1>1
  <2>4. \A n \in 0 .. L : f[n] = IF n = 0 THEN <<>>
                                 ELSE IF s[n].key \in K THEN Append(f[n - 1], s[n]) ELSE f[n - 1]
    BY <2>1, <2>2, <2>3
  <2>5. f = [n \in 0 .. L |-> f[n]]
    BY <2>1
  <2>6. QED
    BY <2>4, <2>5
<1>6. F(u)
  BY <1>5
<1>7. Having(s, K) = u[L]
  BY DEF Having
<1> HIDE DEF u, F
<1>8. QED
  BY <1>4, <1>6, <1>7

LEMMA HavingEmpty == ASSUME NEW K PROVE Having(<<>>, K) = <<>>
<1>1. <<>> \in Seq(Entry) /\ Len(<<>>) = 0
  OBVIOUS
<1>2. QED
  BY <1>1, HavingUnfolds DEF Unfolds

LEMMA HavingAppend ==
  ASSUME NEW s \in Seq(Entry), NEW e \in Entry, NEW K
  PROVE  /\ Having(s, K) \in Seq(Entry)
         /\ Having(Append(s, e), K)
              = IF e.key \in K THEN Append(Having(s, K), e) ELSE Having(s, K)
<1> DEFINE r == Append(s, e)
           L == Len(s)
           S == Seq(Entry)
<1>1. /\ L \in Nat /\ r \in S /\ Len(r) = L + 1 /\ r[L + 1] = e
      /\ \A n \in 1 .. L : r[n] = s[n]
  OBVIOUS
<1>2. PICK f : Unfolds(f, <<>>, HavingStep(s, K), L, S) /\ Having(s, K) = f[L]
  BY HavingUnfolds
<1> HIDE DEF r
<1>3. PICK h : Unfolds(h, <<>>, HavingStep(r, K), L + 1, S) /\ Having(r, K) = h[L + 1]
  BY <1>1, HavingUnfolds
<1>4. \A n \in 1 .. L : \A x \in S : HavingStep(r, K)[n][x] = HavingStep(s, K)[n][x]
  BY <1>1 DEF HavingStep
<1>5. \A n \in 0 .. L : h[n] = f[n]
  <2>1. L + 1 \in Nat /\ L <= L + 1
    BY <1>1
  <2> HIDE DEF L, S
  <2>2. QED
    BY <1>1, <1>2, <1>3, <1>4, <2>1, SameRecursion
<1>6. h[L] = f[L] /\ f[L] \in S
  BY <1>1, <1>2, <1>5 DEF Unfolds
<1>7. h[L + 1] = HavingStep(r, K)[L + 1][h[L]]
  BY <1>1, <1>3 DEF Unfolds
<1>8. HavingStep(r, K)[L + 1][h[L]] = IF e.key \in K THEN Append(h[L], e) ELSE h[L]
  BY <1>1, <1>6 DEF HavingStep
<1>9. QED
  BY <1>2, <1>3, <1>6, <1>7, <1>8 DEF r
\* A list holds a key once.
OneEach(s) == \A a, b \in DOMAIN s : s[a].key = s[b].key => a = b

LEMMA HavingFacts ==
  ASSUME NEW s \in Seq(Entry), NEW K
  PROVE  /\ Having(s, K) \in Seq(Entry)
         /\ \A i \in DOMAIN Having(s, K) :
              /\ Having(s, K)[i].key \in K
              /\ \E j \in DOMAIN s : Having(s, K)[i] = s[j]
         /\ OneEach(s) => OneEach(Having(s, K))
<1> DEFINE From(h, r) == \A i \in DOMAIN h : h[i].key \in K /\ \E j \in DOMAIN r : h[i] = r[j]
           T == {r \in Seq(Entry) :
                   From(Having(r, K), r) /\ (OneEach(r) => OneEach(Having(r, K)))}
<1>1. <<>> \in T
  BY HavingEmpty DEF OneEach
<1>2. ASSUME NEW r \in Seq(Entry), NEW e \in Entry, r \in T
      PROVE  Append(r, e) \in T
  <2> DEFINE h == Having(r, K)
             q == Append(r, e)
             L == Len(r)
             m == Len(h)
  <2>1. /\ h \in Seq(Entry) /\ Having(q, K) = IF e.key \in K THEN Append(h, e) ELSE h
        /\ From(h, r) /\ (OneEach(r) => OneEach(h))
    BY <1>2, HavingAppend
  <2>2. /\ L \in Nat /\ q \in Seq(Entry) /\ DOMAIN q = 1 .. L + 1 /\ q[L + 1] = e
        /\ DOMAIN r = 1 .. L /\ \A n \in 1 .. L : q[n] = r[n]
    OBVIOUS
  <2> HIDE DEF h, q, L, m
  <2>3. From(h, q)
    BY <2>1, <2>2
  <2>4. ASSUME OneEach(q) PROVE OneEach(r) /\ \A n \in 1 .. L : r[n].key # e.key
    <3>1. \A n \in 1 .. L : n \in 1 .. L + 1 /\ n # L + 1
      BY <2>2
    <3>2. L + 1 \in 1 .. L + 1
      BY <2>2
    <3>3. QED
      BY <2>2, <2>4, <3>1, <3>2 DEF OneEach
  <2>5. CASE e.key \notin K
    BY <2>1, <2>2, <2>3, <2>4, <2>5 DEF q
  <2>6. CASE e.key \in K
    <3> DEFINE z == Append(h, e)
    <3>1. /\ m \in Nat /\ DOMAIN h = 1 .. m /\ DOMAIN z = 1 .. m + 1 /\ z[m + 1] = e
          /\ \A n \in 1 .. m : z[n] = h[n]
      BY <2>1 DEF m
    <3>2. Having(q, K) = z
      BY <2>1, <2>6
    <3> HIDE DEF z
    <3>3. \A n \in 1 .. m + 1 : n \in 1 .. m \/ n = m + 1
      BY <3>1
    <3>4. L + 1 \in DOMAIN q
      BY <2>2
    <3>5. From(z, q)
      BY <2>2, <2>3, <2>6, <3>1, <3>3, <3>4
    <3>6. ASSUME OneEach(q) PROVE OneEach(z)
      <4>1. OneEach(r) /\ \A n \in 1 .. L : r[n].key # e.key
        BY <2>4, <3>6
      <4>2. \A n \in 1 .. m : \E j \in 1 .. L : h[n] = r[j]
        BY <2>1, <2>2, <3>1
      <4>3. OneEach(h) /\ \A n \in 1 .. m : h[n].key # e.key
        BY <2>1, <4>1, <4>2
      <4>4. QED
        BY <3>1, <3>3, <4>3 DEF OneEach
    <3>7. QED
      BY <2>2, <3>2, <3>5, <3>6 DEF q
  <2>7. QED
    BY <2>5, <2>6
<1>3. Seq(Entry) \subseteq T
  <2> HIDE DEF T
  <2>1. QED
    BY <1>1, <1>2, SeqInd
<1>4. Having(s, K) \in Seq(Entry)
  <2>1. CASE s = <<>>
    BY <2>1, HavingEmpty
  <2>2. CASE s # <<>>
    <3>1. PICK e \in Entry : TRUE
      BY <2>2
    <3>2. QED
      BY <3>1, HavingAppend
  <2>3. QED
    BY <2>1, <2>2
<1>5. QED
  BY <1>3, <1>4

LEMMA BytesNat == ASSUME NEW s \in Seq(Entry) PROVE Bytes(s) \in Nat
<1>1. PICK f : Unfolds(f, 0, BytesStep(s), Len(s), Nat) /\ Bytes(s) = f[Len(s)]
  BY BytesUnfolds
<1>2. f \in [0 .. Len(s) -> Nat] /\ Len(s) \in 0 .. Len(s)
  BY <1>1 DEF Unfolds
<1>3. QED
  BY <1>1, <1>2

LEMMA BytesConcat ==
  ASSUME NEW s \in Seq(Entry), NEW t \in Seq(Entry)
  PROVE  Bytes(s \o t) = Bytes(s) + Bytes(t)
<1> DEFINE T == {r \in Seq(Entry) : Bytes(s \o r) = Bytes(s) + Bytes(r)}
<1>1. <<>> \in T
  <2>1. s \o <<>> = s
    OBVIOUS
  <2>2. QED
    BY <2>1, BytesEmpty, BytesNat
<1>2. ASSUME NEW r \in Seq(Entry), NEW e \in Entry, r \in T
      PROVE  Append(r, e) \in T
  <2>1. s \o Append(r, e) = Append(s \o r, e)
    OBVIOUS
  <2>2. s \o r \in Seq(Entry) /\ Append(r, e) \in Seq(Entry)
    OBVIOUS
  <2>3. Bytes(Append(s \o r, e)) = Bytes(s \o r) + e.key[2].len
    BY <2>2, BytesAppend
  <2>4. Bytes(Append(r, e)) = Bytes(r) + e.key[2].len
    BY BytesAppend
  <2>5. Bytes(s) \in Nat /\ Bytes(r) \in Nat /\ e.key[2].len \in Nat
    BY BytesNat, EntryBytes
  <2>6. Bytes(s \o r) = Bytes(s) + Bytes(r)
    BY <1>2
  <2>7. Bytes(s \o Append(r, e)) = Bytes(s) + Bytes(Append(r, e))
    <3> DEFINE n == e.key[2].len
               x == Bytes(s)
               y == Bytes(r)
    <3>1. Bytes(s \o Append(r, e)) = (x + y) + n /\ Bytes(Append(r, e)) = y + n
      BY <2>1, <2>3, <2>4, <2>6
    <3>2. x \in Nat /\ y \in Nat /\ n \in Nat
      BY <2>5
    <3> HIDE DEF x, y, n
    <3>3. (x + y) + n = x + (y + n)
      BY <3>2
    <3>4. QED
      BY <3>1, <3>3 DEF x
  <2>8. QED
    BY <2>2, <2>7
<1>3. Seq(Entry) \subseteq T
  <2> HIDE DEF T
  <2>1. QED
    BY <1>1, <1>2, SeqInd
<1>4. QED
  BY <1>3

\* What a split of the keys in two does to a list loses no bytes.
LEMMA BytesSplit ==
  ASSUME NEW s \in Seq(Entry), NEW K, NEW M, \A k \in Keys : k \in K <=> k \notin M
  PROVE  Bytes(s) = Bytes(Having(s, K)) + Bytes(Having(s, M))
<1> DEFINE T == {r \in Seq(Entry) : Bytes(r) = Bytes(Having(r, K)) + Bytes(Having(r, M))}
<1>1. <<>> \in T
  BY HavingEmpty, BytesEmpty
<1>2. ASSUME NEW r \in Seq(Entry), NEW e \in Entry, r \in T
      PROVE  Append(r, e) \in T
  <2> DEFINE h == Having(r, K)
             l == Having(r, M)
             n == e.key[2].len
             q == Append(r, e)
             Sums(x, y, z) == x = y + z
  <2>1. h \in Seq(Entry) /\ l \in Seq(Entry) /\ e.key \in Keys /\ n \in Nat
    BY HavingFacts, EntryBytes
  <2>2. /\ Having(q, K) = IF e.key \in K THEN Append(h, e) ELSE h
        /\ Having(q, M) = IF e.key \in M THEN Append(l, e) ELSE l
    BY HavingAppend
  <2>3. Bytes(q) = Bytes(r) + n /\ Bytes(h) \in Nat /\ Bytes(l) \in Nat
    BY <2>1, BytesAppend, BytesNat
  <2>4. Bytes(Append(h, e)) = Bytes(h) + n /\ Bytes(Append(l, e)) = Bytes(l) + n
    BY <2>1, BytesAppend
  <2>5. Bytes(r) = Bytes(h) + Bytes(l) /\ q \in Seq(Entry)
    BY <1>2
  <2> HIDE DEF h, l, n, q
  <2>6. CASE e.key \in K
    <3>1. e.key \notin M
      BY <2>1, <2>6
    <3>2. Having(q, K) = Append(h, e) /\ Having(q, M) = l
      BY <2>2, <2>6, <3>1
    <3>3. Sums(Bytes(q), Bytes(Append(h, e)), Bytes(l))
      BY <2>1, <2>3, <2>4, <2>5
    <3>4. QED
      BY <2>5, <3>2, <3>3 DEF q
  <2>7. CASE e.key \notin K
    <3>1. e.key \in M
      BY <2>1, <2>7
    <3>2. Having(q, K) = h /\ Having(q, M) = Append(l, e)
      BY <2>2, <2>7, <3>1
    <3>3. Sums(Bytes(q), Bytes(h), Bytes(Append(l, e)))
      BY <2>1, <2>3, <2>4, <2>5
    <3>4. QED
      BY <2>5, <3>2, <3>3 DEF q
  <2>8. QED
    BY <2>6, <2>7
<1>3. Seq(Entry) \subseteq T
  <2> HIDE DEF T
  <2>1. QED
    BY <1>1, <1>2, SeqInd
<1>4. QED
  BY <1>3

\* Eviction keeps a prefix of the list that fits.
LEMMA EvictedFacts ==
  ASSUME NEW s \in Seq(Entry)
  PROVE  /\ Evicted(s, Bytes(s)) \in Seq(Entry)
         /\ \A i \in DOMAIN Evicted(s, Bytes(s)) :
              i \in DOMAIN s /\ Evicted(s, Bytes(s))[i] = s[i]
         /\ Bytes(Evicted(s, Bytes(s))) <= Capacity
<1> DEFINE L == Len(s)
           Fits(n) == n = 0 \/ Bytes(s) - (Bytes(s) - Bytes(SubSeq(s, 1, n))) <= Capacity
           Kept(n) == Fits(n) /\ \A m \in (n + 1) .. L : ~Fits(m)
           kept == CHOOSE n \in 0 .. L : Kept(n)
           D == {d \in 0 .. L : Fits(L - d)}
<1>1. L \in Nat /\ Fits(0)
  OBVIOUS
<1>2. \E n \in 0 .. L : Kept(n)
  <2> HIDE DEF Fits, L
  <2>1. L \in D /\ D \in SUBSET Nat
    BY <1>1
  <2>2. PICK d \in D : \A i \in D : d <= i
    <3> HIDE DEF D
    <3>1. QED
      BY <2>1, LeastExists
  <2>3. L - d \in 0 .. L /\ Fits(L - d)
    BY <1>1, <2>2
  <2>4. ASSUME NEW m \in ((L - d) + 1) .. L, Fits(m) PROVE FALSE
    <3>1. L - m \in 0 .. L /\ L - (L - m) = m /\ L - m < d
      BY <1>1, <2>2, <2>3
    <3>2. L - m \in D
      BY <2>4, <3>1
    <3>3. QED
      BY <1>1, <2>2, <3>1, <3>2
  <2>5. QED
    BY <2>3, <2>4
<1>3. kept \in 0 .. L /\ Fits(kept)
  <2> HIDE DEF Fits, L
  <2>1. QED
    BY <1>2
<1>4. Evicted(s, Bytes(s)) = SubSeq(s, 1, kept)
  BY DEF Evicted
<1> HIDE DEF kept
<1>5. /\ SubSeq(s, 1, kept) \in Seq(Entry)
      /\ \A i \in DOMAIN SubSeq(s, 1, kept) : i \in DOMAIN s /\ SubSeq(s, 1, kept)[i] = s[i]
  BY <1>3
<1>6. Bytes(s) \in Nat /\ Bytes(SubSeq(s, 1, kept)) \in Nat /\ Capacity \in Nat
  BY <1>5, BytesNat, PrefetchAssumption
<1>7. kept = 0 => Bytes(SubSeq(s, 1, kept)) = 0
  <2>1. SubSeq(s, 1, 0) = <<>>
    OBVIOUS
  <2>2. QED
    BY <2>1, BytesEmpty
<1>8. Bytes(SubSeq(s, 1, kept)) <= Capacity
  BY <1>3, <1>6, <1>7
<1>9. QED
  BY <1>4, <1>5, <1>8
-----------------------------------------------------------------------------
(* The inductive invariant of the prefetch manager                         *)

TaskPcs == {"new", "queued", "read", "mapped", "got", "tested", "ending", "done", "lost"}
AnyTask == [key : Keys \cup {NoKey}, pc : TaskPcs, data : Nat \cup {NoData}, gen : Nat,
            stale : BOOLEAN]
AnyGetter == [key : Keys \cup {NoKey}, pc : {"idle", "missed", "got"}, data : Nat \cup {NoData}]
AnyInval == [pc : {"idle", "bumped", "removed", "settling"}, path : Paths \cup {NoKey},
             seen : Nat, clean : BOOLEAN]
AnyMapping == [region : [off : Int, len : Int], data : Nat]

PrefetchTypes ==
  /\ version \in [Paths -> Nat] /\ pathGenerations \in [Paths -> Nat]
  /\ floor \in [Paths -> Nat]
  /\ map \in [Paths -> Seq(AnyMapping)] /\ cache \in Seq(Entry)
  /\ task \in [Tasks -> AnyTask] /\ getter \in [Getters -> AnyGetter]
  /\ inval \in [Invalidators -> AnyInval]

\* What is under way is of a key or a path, and has data when it is said to.
TaskOk(t) ==
  /\ task[t].pc \notin {"new", "done"} =>
       task[t].key \in Keys /\ task[t].gen <= pathGenerations[task[t].key[1]]
  /\ task[t].pc \in {"read", "got", "tested"} =>
       task[t].data \in Nat /\ task[t].data >= floor[task[t].key[1]]
GetterOk(g) ==
  /\ getter[g].pc # "idle" => getter[g].key \in Keys
  /\ getter[g].pc = "got" =>
       getter[g].data \in Nat /\ getter[g].data >= floor[getter[g].key[1]]

UnderWay(t, p) == task[t].pc \notin {"new", "done", "lost"} /\ task[t].key[1] = p

\* A prefetch that an invalidation overtook finds out that it is stale.
Caught(t, p) ==
  \/ Untested(t) /\ task[t].gen < pathGenerations[p]
  \/ task[t].pc = "tested" /\ task[t].stale
  \/ task[t].pc = "ending"

\* It then unmaps the path, or what it mapped is gone already.
Unmaps(t, p) ==
  /\ UnderWay(t, p)
  /\ \/ task[t].pc \in {"got", "tested"}
     \/ /\ task[t].pc = "mapped"
        /\ \E j \in DOMAIN map[p] : Covers(map[p][j].region, task[t].key[2])

\* What an invalidation of p that nothing disturbed can count on: no TryGet of
\* the path, only prefetches it overtook, then nothing cached, and nothing
\* mapped that will not be unmapped.
Quiet(p) == \A g \in Getters : getter[g].pc # "idle" => getter[g].key[1] # p
Overtaken(p) == \A t \in Tasks : UnderWay(t, p) => Caught(t, p)
Uncached(p) == \A j \in DOMAIN cache : cache[j].key[1] # p
Unmapping(p) == map[p] # <<>> => \E t \in Tasks : Unmaps(t, p)

Vouches(i, p) ==
  /\ inval[i].pc # "idle" /\ inval[i].seen <= version[p] /\ Quiet(p) /\ Overtaken(p)
  /\ inval[i].pc \in {"removed", "settling"} => Uncached(p)
  /\ inval[i].pc = "settling" => Unmapping(p)

InvalOk(i) ==
  /\ inval[i].pc # "idle" => inval[i].path \in Paths
  /\ inval[i].clean => Vouches(i, inval[i].path)

PrefetchInv ==
  /\ PrefetchTypes /\ CacheAccounted /\ InvalidateClears
  /\ \A p \in Paths : floor[p] <= version[p]
  /\ \A t \in Tasks : TaskOk(t)
  /\ \A g \in Getters : GetterOk(g)
  /\ \A i \in Invalidators : InvalOk(i)

-----------------------------------------------------------------------------
(* The operations of the cache                                             *)

\* A new list of entries from the old one and perhaps one more.
LEMMA CachePutFacts ==
  ASSUME PrefetchInv, NEW k \in Keys, NEW d \in Nat, CachePut(k, d)
  PROVE  /\ cache' \in Seq(Entry) /\ CacheAccounted'
         /\ \A j \in DOMAIN cache' :
              \/ cache'[j] = [key |-> k, data |-> d]
              \/ \E i \in DOMAIN cache : cache'[j] = cache[i]
<1> DEFINE e == [key |-> k, data |-> d]
           o == Having(cache, Keys \ {k})
           all == <<e>> \o o
           n == k[2].len
           size == sizeBytes - (Bytes(cache) - Bytes(o)) + n
<1>1. cache \in Seq(Entry) /\ sizeBytes = Bytes(cache) /\ OneEach(cache)
  BY DEF PrefetchInv, PrefetchTypes, CacheAccounted, OneEach
<1>2. e \in Entry /\ n \in Nat /\ e.key = k /\ e.data = d
  <2>1. e \in Entry
    BY DEF Entry
  <2>2. e.key = k /\ e.data = d
    OBVIOUS
  <2>3. QED
    BY <2>1, <2>2, EntryBytes
<1>3. /\ cache' = Evicted(all, size)
      /\ sizeBytes' = size - (Bytes(all) - Bytes(cache'))
  BY DEF CachePut
<1> HIDE DEF e, n
<1>4. /\ o \in Seq(Entry) /\ OneEach(o)
      /\ \A i \in DOMAIN o : o[i].key \in Keys \ {k} /\ \E j \in DOMAIN cache : o[i] = cache[j]
  <2> DEFINE K == Keys \ {k}
  <2> HIDE DEF K
  <2>1. o = Having(cache, K)
    BY DEF K
  <2>2. /\ o \in Seq(Entry) /\ OneEach(o)
        /\ \A i \in DOMAIN o : o[i].key \in K /\ \E j \in DOMAIN cache : o[i] = cache[j]
    <3> HIDE DEF o
    <3>1. QED
      BY <1>1, <2>1, HavingFacts
  <2>3. QED
    BY <2>2 DEF K
<1> HIDE DEF o
<1>5. /\ <<e>> \in Seq(Entry) /\ all \in Seq(Entry) /\ Len(all) = 1 + Len(o) /\ all[1] = e
      /\ Len(o) \in Nat /\ DOMAIN o = 1 .. Len(o) /\ DOMAIN all = 1 .. 1 + Len(o)
      /\ \A i \in 2 .. 1 + Len(o) : all[i] = o[i - 1]
  BY <1>2, <1>4
<1>6. Bytes(all) = n + Bytes(o) /\ Bytes(o) \in Nat /\ Bytes(cache) \in Nat
  <2>1. <<e>> = Append(<<>>, e) /\ <<>> \in Seq(Entry)
    OBVIOUS
  <2>2. Bytes(<<e>>) = 0 + e.key[2].len
    BY <1>2, <2>1, BytesAppend, BytesEmpty
  <2>3. Bytes(<<e>>) = n
    BY <1>2, <2>2 DEF n
  <2>4. QED
    BY <1>1, <1>4, <1>5, <2>3, BytesConcat, BytesNat
<1>7. size = Bytes(all)
  BY <1>1, <1>2, <1>6
<1> HIDE DEF all, size
<1>8. \A i \in 1 .. 1 + Len(o) : i = 1 \/ (i \in 2 .. 1 + Len(o) /\ i - 1 \in 1 .. Len(o))
  BY <1>5
<1>9. OneEach(all)
  <2> SUFFICES ASSUME NEW a \in DOMAIN all, NEW b \in DOMAIN all, all[a].key = all[b].key
               PROVE  a = b
    BY DEF OneEach
  <2>1. \A i \in 2 .. 1 + Len(o) : all[i].key # k /\ all[1].key = k
    BY <1>2, <1>4, <1>5, <1>8
  <2>2. CASE a = 1 \/ b = 1
    BY <1>5, <1>8, <2>1, <2>2
  <2>3. CASE a # 1 /\ b # 1
    <3>1. a - 1 \in DOMAIN o /\ b - 1 \in DOMAIN o /\ o[a - 1].key = o[b - 1].key
      BY <1>5, <1>8, <2>3
    <3>2. a - 1 = b - 1
      BY <1>4, <3>1 DEF OneEach
    <3>3. QED
      BY <1>5, <3>2
  <2>4. QED
    BY <2>2, <2>3
<1>10. \A i \in DOMAIN all : all[i] = e \/ \E j \in DOMAIN cache : all[i] = cache[j]
  BY <1>4, <1>5, <1>8
<1>11. /\ cache' \in Seq(Entry) /\ Bytes(cache') <= Capacity
       /\ \A i \in DOMAIN cache' : i \in DOMAIN all /\ cache'[i] = all[i]
  BY <1>3, <1>5, <1>7, EvictedFacts
<1>12. sizeBytes' = Bytes(cache')
  <2>1. Bytes(cache') \in Nat /\ Bytes(all) \in Nat
    BY <1>2, <1>6, <1>11, BytesNat
  <2>2. QED
    BY <1>3, <1>7, <2>1
<1>13. CacheAccounted'
  BY <1>9, <1>11, <1>12 DEF CacheAccounted, OneEach
<1>14. QED
  BY <1>10, <1>11, <1>13 DEF e

LEMMA CacheGetFacts ==
  ASSUME PrefetchInv, NEW k \in Keys, CacheGet(k), UNCHANGED sizeBytes
  PROVE  /\ cache' \in Seq(Entry) /\ CacheAccounted'
         /\ \A j \in DOMAIN cache' : \E i \in DOMAIN cache : cache'[j] = cache[i]
<1> DEFINE h == Having(cache, {k})
           o == Having(cache, Keys \ {k})
<1>1. /\ cache \in Seq(Entry) /\ sizeBytes = Bytes(cache) /\ OneEach(cache)
      /\ sizeBytes <= Capacity
  BY DEF PrefetchInv, PrefetchTypes, CacheAccounted, OneEach
<1>2. cache' = h \o o
  BY DEF CacheGet
<1> DEFINE K == Keys \ {k}
           M == {k}
<1> HIDE DEF K, M, h, o
<1>21. o = Having(cache, K) /\ h = Having(cache, M)
  BY DEF K, M, h, o
<1>3. /\ o \in Seq(Entry) /\ OneEach(o)
      /\ \A i \in DOMAIN o : o[i].key \in K /\ \E j \in DOMAIN cache : o[i] = cache[j]
  BY <1>1, <1>21, HavingFacts
<1>4. /\ h \in Seq(Entry) /\ OneEach(h)
      /\ \A i \in DOMAIN h : h[i].key \in M /\ \E j \in DOMAIN cache : h[i] = cache[j]
  BY <1>1, <1>21, HavingFacts
<1>5. Bytes(h \o o) = Bytes(cache)
  <2>1. Bytes(h \o o) = Bytes(h) + Bytes(o)
    BY <1>3, <1>4, BytesConcat
  <2>2. \A x \in Keys : x \in M <=> x \notin K
    BY DEF K, M
  <2>3. Bytes(cache) = Bytes(h) + Bytes(o)
    BY <1>1, <1>21, <2>2, BytesSplit
  <2>4. QED
    BY <2>1, <2>3
<1> DEFINE m == Len(h)
           n == Len(o)
           all == h \o o
<1>6. /\ m \in Nat /\ n \in Nat /\ all \in Seq(Entry) /\ DOMAIN all = 1 .. m + n
      /\ DOMAIN h = 1 .. m /\ DOMAIN o = 1 .. n
      /\ \A i \in 1 .. m : all[i] = h[i]
      /\ \A i \in m + 1 .. m + n : all[i] = o[i - m]
  BY <1>3, <1>4
<1> HIDE DEF m, n, all
<1>7. \A i \in 1 .. m + n : i \in 1 .. m \/ (i \in m + 1 .. m + n /\ i - m \in 1 .. n)
  BY <1>6
<1>8. OneEach(all)
  <2> SUFFICES ASSUME NEW a \in 1 .. m + n, NEW b \in 1 .. m + n, all[a].key = all[b].key
               PROVE  a = b
    BY <1>6 DEF OneEach
  <2>1. CASE a \in 1 .. m
    <3>1. all[a].key = k
      BY <1>4, <1>6, <2>1 DEF M
    <3>2. b \in 1 .. m
      <4>1. ASSUME b - m \in 1 .. n, all[b] = o[b - m] PROVE FALSE
        BY <1>3, <1>6, <3>1, <4>1 DEF K
      <4>2. QED
        BY <1>6, <1>7, <4>1
    <3>3. QED
      BY <1>4, <1>6, <2>1, <3>2 DEF OneEach
  <2>2. CASE a \notin 1 .. m
    <3>1. a - m \in 1 .. n /\ all[a] = o[a - m]
      BY <1>6, <1>7, <2>2
    <3>2. all[a].key # k
      BY <1>3, <1>6, <3>1 DEF K
    <3>3. b \notin 1 .. m
      BY <1>4, <1>6, <3>2 DEF M
    <3>4. b - m \in 1 .. n /\ all[b] = o[b - m]
      BY <1>6, <1>7, <3>3
    <3>5. a - m = b - m
      BY <1>3, <1>6, <3>1, <3>4 DEF OneEach
    <3>6. QED
      BY <1>6, <3>5
  <2>3. QED
    BY <2>1, <2>2
<1>9. \A j \in DOMAIN all : \E i \in DOMAIN cache : all[j] = cache[i]
  <2> SUFFICES ASSUME NEW j \in 1 .. m + n PROVE \E i \in DOMAIN cache : all[j] = cache[i]
    BY <1>6
  <2>1. CASE j \in 1 .. m
    BY <1>4, <1>6, <2>1
  <2>2. CASE j \notin 1 .. m
    <3>1. j - m \in DOMAIN o /\ all[j] = o[j - m]
      BY <1>6, <1>7, <2>2
    <3>2. QED
      BY <1>3, <3>1
  <2>3. QED
    BY <2>1, <2>2
<1>10. cache' = all /\ Bytes(all) = Bytes(cache)
  BY <1>2, <1>5 DEF all
<1>11. CacheAccounted'
  BY <1>1, <1>8, <1>10 DEF CacheAccounted, OneEach
<1>12. QED
  BY <1>6, <1>9, <1>10, <1>11

LEMMA RemoveFacts ==
  ASSUME PrefetchInv, NEW p \in Paths, RemoveByPrefix(p)
  PROVE  /\ cache' \in Seq(Entry) /\ CacheAccounted' /\ Uncached(p)'
         /\ \A j \in DOMAIN cache' : \E i \in DOMAIN cache : cache'[j] = cache[i]
<1> DEFINE K == {k \in Keys : k[1] # p}
           M == {k \in Keys : k[1] = p}
<1>1. /\ cache \in Seq(Entry) /\ sizeBytes = Bytes(cache) /\ OneEach(cache)
      /\ sizeBytes <= Capacity
  BY DEF PrefetchInv, PrefetchTypes, CacheAccounted, OneEach
<1>2. cache' = Having(cache, K) /\ sizeBytes' = sizeBytes - (Bytes(cache) - Bytes(cache'))
  BY DEF RemoveByPrefix
<1> HIDE DEF K
<1>3. /\ cache' \in Seq(Entry) /\ OneEach(cache')
      /\ \A i \in DOMAIN cache' : cache'[i].key \in K /\ \E j \in DOMAIN cache : cache'[i] = cache[j]
  BY <1>1, <1>2, HavingFacts
<1>4. Bytes(cache) = Bytes(cache') + Bytes(Having(cache, M)) /\ Having(cache, M) \in Seq(Entry)
  <2>1. \A k \in Keys : k \in K <=> k \notin M
    BY DEF K
  <2> HIDE DEF M
  <2>2. QED
    BY <1>1, <1>2, <2>1, BytesSplit, HavingFacts
<1>5. /\ Bytes(cache) \in Nat /\ Bytes(cache') \in Nat /\ Bytes(Having(cache, M)) \in Nat
      /\ Capacity \in Nat
  BY <1>1, <1>3, <1>4, BytesNat, PrefetchAssumption
<1>6. sizeBytes' = Bytes(cache') /\ Bytes(cache') <= Capacity
  <2> DEFINE x == Bytes(cache)
             y == Bytes(cache')
             z == Bytes(Having(cache, M))
  <2>1. /\ x \in Nat /\ y \in Nat /\ z \in Nat /\ Capacity \in Nat /\ x = y + z
        /\ x <= Capacity /\ sizeBytes' = x - (x - y)
    BY <1>1, <1>2, <1>4, <1>5
  <2> HIDE DEF x, y, z
  <2>2. y <= Capacity /\ sizeBytes' = y
    BY <2>1
  <2>3. QED
    BY <2>2 DEF y
<1>7. CacheAccounted'
  BY <1>3, <1>6 DEF CacheAccounted, OneEach
<1>8. Uncached(p)'
  BY <1>3 DEF Uncached, K
<1>9. QED
  BY <1>3, <1>7, <1>8
-----------------------------------------------------------------------------
(* What a step must keep                                                   *)

LEMMA PrefetchInvInit == PrefetchInit => PrefetchInv
<1> SUFFICES ASSUME PrefetchInit PROVE PrefetchInv
  OBVIOUS
<1>1. PrefetchTypes
  <2>1. /\ version \in [Paths -> Nat] /\ pathGenerations \in [Paths -> Nat]
        /\ floor \in [Paths -> Nat] /\ map \in [Paths -> Seq(AnyMapping)] /\ cache \in Seq(Entry)
    BY DEF PrefetchInit
  <2>2. task \in [Tasks -> AnyTask] /\ getter \in [Getters -> AnyGetter]
    BY DEF PrefetchInit, NewTask, Put0, AnyTask, AnyGetter, TaskPcs
  <2>3. inval \in [Invalidators -> AnyInval]
    BY DEF PrefetchInit, AnyInval
  <2>4. QED
    BY <2>1, <2>2, <2>3 DEF PrefetchTypes
<1>2. CacheAccounted
  BY BytesEmpty, PrefetchAssumption DEF PrefetchInit, CacheAccounted
<1>3. InvalidateClears
  BY DEF PrefetchInit, InvalidateClears, ToSet
<1>4. \A p \in Paths : floor[p] <= version[p]
  BY DEF PrefetchInit
<1>5. \A t \in Tasks : TaskOk(t)
  BY DEF PrefetchInit, TaskOk, NewTask
<1>6. \A g \in Getters : GetterOk(g)
  BY DEF PrefetchInit, GetterOk, Put0
<1>7. \A i \in Invalidators : InvalOk(i)
  BY DEF PrefetchInit, InvalOk
<1>8. QED
  BY <1>1, <1>2, <1>3, <1>4, <1>5, <1>6, <1>7 DEF PrefetchInv

\* A step keeps what an undisturbed invalidation of p counts on.
Keeps(p) ==
  Quiet(p) /\ Overtaken(p) =>
    /\ Quiet(p)' /\ Overtaken(p)'
    /\ Uncached(p) => Uncached(p)'
    /\ Unmapping(p) => Unmapping(p)'

LEMMA InvalKept ==
  ASSUME PrefetchInv, NEW i \in Invalidators, version' \in [Paths -> Nat],
         \A p \in Paths : version'[p] >= version[p],
         inval'[i].pc = inval[i].pc, inval'[i].path = inval[i].path,
         inval'[i].seen = inval[i].seen,
         inval'[i].clean => inval[i].clean /\ (inval[i].path \in Paths => Keeps(inval[i].path))
  PROVE  InvalOk(i)'
<1> DEFINE p == inval[i].path
<1>1. InvalOk(i) /\ inval[i] \in AnyInval
  BY DEF PrefetchInv, PrefetchTypes
<1>2. inval'[i].pc # "idle" => inval'[i].path \in Paths
  BY <1>1 DEF InvalOk
<1>3. ASSUME inval'[i].clean PROVE Vouches(i, p)'
  <2>1. Vouches(i, p) /\ p \in Paths /\ Keeps(p)
    BY <1>1, <1>3 DEF InvalOk, Vouches
  <2>2. inval[i].seen \in Nat /\ version[p] \in Nat /\ version'[p] \in Nat
    BY <1>1, <2>1 DEF PrefetchInv, PrefetchTypes, AnyInval
  <2>3. inval'[i].seen <= version'[p]
    BY <2>1, <2>2 DEF Vouches
  <2>4. QED
    BY <2>1, <2>3 DEF Vouches, Keeps
<1>4. QED
  BY <1>2, <1>3 DEF InvalOk

\* A step that disturbs the invalidations of the paths D, and no other.
LEMMA InvalsKept ==
  ASSUME PrefetchInv, NEW D, version' \in [Paths -> Nat],
         \A p \in Paths : version'[p] >= version[p],
         \A i \in Invalidators :
           /\ inval'[i].pc = inval[i].pc /\ inval'[i].path = inval[i].path
           /\ inval'[i].seen = inval[i].seen
           /\ inval'[i].clean => inval[i].clean /\ inval[i].path \notin D,
         \A p \in Paths \ D : Keeps(p)
  PROVE  \A i \in Invalidators : InvalOk(i)'
  BY InvalKept

\* The entries and the regions are as fresh as they were.
LEMMA ClearsKept ==
  ASSUME PrefetchInv, floor' = floor,
         \A j \in DOMAIN cache' :
           \/ cache'[j].data >= floor[cache'[j].key[1]]
           \/ \E i \in DOMAIN cache : cache'[j] = cache[i],
         \A p \in Paths : \A j \in DOMAIN map'[p] :
           \/ map'[p][j].data >= floor[p]
           \/ \E i \in DOMAIN map[p] : map'[p][j] = map[p][i]
  PROVE  InvalidateClears'
<1>1. ASSUME NEW p \in Paths, NEW j \in DOMAIN cache', cache'[j].key[1] = p
      PROVE  cache'[j].data >= floor'[p]
  <2>1. ASSUME NEW i \in DOMAIN cache, cache'[j] = cache[i] PROVE cache'[j].data >= floor[p]
    <3>1. cache[i] \in ToSet(cache)
      BY DEF ToSet
    <3>2. QED
      BY <1>1, <2>1, <3>1 DEF PrefetchInv, InvalidateClears
  <2>2. QED
    BY <1>1, <2>1
<1>2. ASSUME NEW p \in Paths, NEW j \in DOMAIN map'[p]
      PROVE  map'[p][j].data >= floor'[p]
  <2>1. ASSUME NEW i \in DOMAIN map[p], map'[p][j] = map[p][i] PROVE map'[p][j].data >= floor[p]
    <3>1. map[p][i] \in ToSet(map[p])
      BY DEF ToSet
    <3>2. QED
      BY <1>2, <2>1, <3>1 DEF PrefetchInv, InvalidateClears
  <2>2. QED
    BY <1>2, <2>1
<1>3. QED
  BY <1>1, <1>2 DEF InvalidateClears, ToSet

\* A step of one prefetch between its start and its end.
LEMMA TaskMove ==
  ASSUME PrefetchInv, NEW t \in Tasks, UnderWay(t, task[t].key[1]),
         UNCHANGED <<version, pathGenerations, getter, inval, floor>>,
         task' \in [Tasks -> AnyTask], \A u \in Tasks : u # t => task'[u] = task[u],
         task'[t].key = task[t].key, task'[t].gen = task[t].gen, TaskOk(t)',
         map' \in [Paths -> Seq(AnyMapping)], cache' \in Seq(Entry), CacheAccounted',
         InvalidateClears',
         LET p == task[t].key[1] IN
           /\ Caught(t, p) => /\ UnderWay(t, p)' => Caught(t, p)'
                              /\ Uncached(p) => Uncached(p)'
                              /\ Unmapping(p) => Unmapping(p)'
           /\ \A q \in Paths \ {p} : map'[q] = map[q] /\ (Uncached(q) => Uncached(q)')
  PROVE  PrefetchInv'
<1> DEFINE p == task[t].key[1]
<1>1. \A u \in Tasks : TaskOk(u)'
  BY DEF PrefetchInv, TaskOk
<1>2. \A g \in Getters : GetterOk(g)'
  BY DEF PrefetchInv, GetterOk
<1>3. \A q \in Paths : floor'[q] <= version'[q]
  BY DEF PrefetchInv
<1>4. PrefetchTypes'
  BY DEF PrefetchInv, PrefetchTypes
<1>5. ASSUME NEW q \in Paths PROVE Keeps(q)
  <2> SUFFICES ASSUME Quiet(q), Overtaken(q)
               PROVE  /\ Quiet(q)' /\ Overtaken(q)'
                      /\ Uncached(q) => Uncached(q)'
                      /\ Unmapping(q) => Unmapping(q)'
    BY DEF Keeps
  <2>1. Quiet(q)'
    BY DEF Quiet
  <2>2. ASSUME NEW u \in Tasks, u # t PROVE /\ UnderWay(u, q)' <=> UnderWay(u, q)
                                            /\ Caught(u, q)' <=> Caught(u, q)
    BY <2>2 DEF UnderWay, Caught, Untested
  <2>3. CASE q = p
    <3>1. Caught(t, p)
      BY <2>3 DEF Overtaken
    <3>2. Overtaken(q)'
      BY <2>2, <2>3, <3>1 DEF Overtaken
    <3>3. QED
      BY <2>1, <2>3, <3>1, <3>2
  <2>4. CASE q # p
    <3>1. ~UnderWay(t, q) /\ ~UnderWay(t, q)'
      BY <2>4 DEF UnderWay
    <3>2. Overtaken(q)'
      BY <2>2, <3>1 DEF Overtaken
    <3>3. \A u \in Tasks : Unmaps(u, q) => Unmaps(u, q)'
      <4> SUFFICES ASSUME NEW u \in Tasks, Unmaps(u, q) PROVE Unmaps(u, q)'
        OBVIOUS
      <4>1. u # t
        BY <3>1 DEF Unmaps
      <4>2. task'[u] = task[u] /\ map'[q] = map[q]
        BY <2>4, <4>1
      <4>3. QED
        BY <4>2 DEF Unmaps, UnderWay
    <3>4. Unmapping(q) => Unmapping(q)'
      BY <2>4, <3>3 DEF Unmapping
    <3>5. QED
      BY <2>1, <2>4, <3>2, <3>4
  <2>5. QED
    BY <2>3, <2>4
<1>6. \A i \in Invalidators : InvalOk(i)'
  <2>1. version' \in [Paths -> Nat] /\ \A q \in Paths : version'[q] >= version[q]
    BY DEF PrefetchInv, PrefetchTypes
  <2> DEFINE D == {}
  <2>2. \A i \in Invalidators :
          /\ inval'[i].pc = inval[i].pc /\ inval'[i].path = inval[i].path
          /\ inval'[i].seen = inval[i].seen
          /\ inval'[i].clean => inval[i].clean /\ inval[i].path \notin D
    OBVIOUS
  <2>3. \A q \in Paths \ D : Keeps(q)
    BY <1>5
  <2> HIDE DEF D
  <2>4. QED
    BY <2>1, <2>2, <2>3, InvalsKept
<1>7. QED
  BY <1>1, <1>2, <1>3, <1>4, <1>6 DEF PrefetchInv
-----------------------------------------------------------------------------
(* The steps of a prefetch                                                 *)

LEMMA GetRegionIs ==
  ASSUME PrefetchInv, NEW p \in Paths, NEW r
  PROVE  \/ GetRegion(p, r) = NoData /\ \A j \in DOMAIN map[p] : ~Covers(map[p][j].region, r)
         \/ \E j \in DOMAIN map[p] : GetRegion(p, r) = map[p][j].data
<1> DEFINE found == {i \in DOMAIN map[p] : Covers(map[p][i].region, r)}
<1>1. GetRegion(p, r) = IF found = {} THEN NoData ELSE map[p][Min(found)].data
  BY DEF GetRegion
<1>2. map[p] \in Seq(AnyMapping)
  BY DEF PrefetchInv, PrefetchTypes
<1>3. CASE found = {}
  BY <1>1, <1>3
<1>4. CASE found # {}
  <2>1. found \in SUBSET Nat /\ found \subseteq DOMAIN map[p]
    BY <1>2
  <2>2. Min(found) \in found
    <3> HIDE DEF found
    <3>1. \E k \in found : \A i \in found : k <= i
      BY <1>4, <2>1, LeastExists
    <3>2. QED
      BY <3>1 DEF Min
  <2>3. GetRegion(p, r) = map[p][Min(found)].data
    BY <1>1, <1>4
  <2> HIDE DEF found
  <2>4. QED
    BY <2>1, <2>2, <2>3
<1>5. QED
  BY <1>3, <1>4

LEMMA GetRegionFacts ==
  ASSUME PrefetchInv, NEW p \in Paths, NEW r
  PROVE  \/ GetRegion(p, r) = NoData /\ \A j \in DOMAIN map[p] : ~Covers(map[p][j].region, r)
         \/ GetRegion(p, r) \in Nat /\ GetRegion(p, r) >= floor[p]
<1>1. ASSUME NEW j \in DOMAIN map[p] PROVE map[p][j].data \in Nat /\ map[p][j].data >= floor[p]
  <2>1. map[p][j] \in AnyMapping /\ map[p][j] \in ToSet(map[p])
    BY <1>1 DEF PrefetchInv, PrefetchTypes, ToSet
  <2>2. QED
    BY <2>1 DEF AnyMapping, PrefetchInv, InvalidateClears
<1>2. QED
  BY <1>1, GetRegionIs

\* What a prefetch under way works on.
LEMMA TaskFacts ==
  ASSUME PrefetchInv, NEW t \in Tasks, task[t].pc \in {"queued", "read", "mapped", "got", "tested"}
  PROVE  /\ task \in [Tasks -> AnyTask] /\ UnderWay(t, task[t].key[1])
         /\ task[t].key \in Keys /\ task[t].key[1] \in Paths /\ task[t].key[2] \in Regions
         /\ task[t].gen \in Nat /\ task[t].gen <= pathGenerations[task[t].key[1]]
         /\ pathGenerations[task[t].key[1]] \in Nat
         /\ floor[task[t].key[1]] \in Nat /\ version[task[t].key[1]] \in Nat
         /\ floor[task[t].key[1]] <= version[task[t].key[1]]
         /\ map \in [Paths -> Seq(AnyMapping)] /\ cache \in Seq(Entry)
<1>1. TaskOk(t) /\ task[t] \in AnyTask
  BY DEF PrefetchInv, PrefetchTypes
<1>2. task[t].key \in Keys /\ task[t].key[1] \in Paths /\ task[t].key[2] \in Regions
  BY <1>1 DEF TaskOk, Keys
<1>3. QED
  BY <1>1, <1>2 DEF PrefetchInv, PrefetchTypes, AnyTask, TaskOk, UnderWay

\* A step that leaves the cache and the map alone.
LEMMA TaskMoveOnly ==
  ASSUME PrefetchInv, NEW t \in Tasks, task[t].pc \in {"queued", "read", "mapped", "got", "tested"},
         UNCHANGED <<version, map, cache, sizeBytes, pathGenerations, getter, inval, floor>>,
         task' \in [Tasks -> AnyTask], \A u \in Tasks : u # t => task'[u] = task[u],
         task'[t].key = task[t].key, task'[t].gen = task[t].gen, TaskOk(t)',
         Caught(t, task[t].key[1]) =>
           /\ UnderWay(t, task[t].key[1])' => Caught(t, task[t].key[1])'
           /\ Unmaps(t, task[t].key[1]) => Unmaps(t, task[t].key[1])'
  PROVE  PrefetchInv'
<1> DEFINE p == task[t].key[1]
<1>1. UnderWay(t, p) /\ p \in Paths
  BY TaskFacts
<1>2. /\ map' \in [Paths -> Seq(AnyMapping)] /\ cache' \in Seq(Entry) /\ CacheAccounted'
      /\ InvalidateClears'
  BY DEF PrefetchInv, PrefetchTypes, CacheAccounted, InvalidateClears
<1>3. ASSUME NEW q \in Paths PROVE Uncached(q) => Uncached(q)'
  BY DEF Uncached
<1>4. ASSUME Caught(t, p), Unmapping(p) PROVE Unmapping(p)'
  <2>1. ASSUME NEW u \in Tasks, Unmaps(u, p) PROVE Unmaps(u, p)'
    <3>1. CASE u = t
      BY <1>4, <2>1, <3>1
    <3>2. CASE u # t
      <4>1. task'[u] = task[u] /\ map' = map
        BY <3>2
      <4>2. QED
        BY <2>1, <4>1 DEF Unmaps, UnderWay
    <3>3. QED
      BY <3>1, <3>2
  <2>2. QED
    BY <1>4, <2>1 DEF Unmapping
<1>5. QED
  BY <1>1, <1>2, <1>3, <1>4, TaskMove

LEMMA InvPoolLoses == ASSUME PrefetchInv, NEW t \in Tasks, PoolLoses(t) PROVE PrefetchInv'
<1>1. /\ task[t].pc = "queued" /\ task' = [task EXCEPT ![t].pc = "lost"]
      /\ UNCHANGED <<version, map, cache, sizeBytes, pathGenerations, getter, inval, floor>>
  BY DEF PoolLoses, sharedVars
<1>2. task \in [Tasks -> AnyTask] /\ TaskOk(t)
  BY DEF PrefetchInv, PrefetchTypes
<1>3. /\ task' \in [Tasks -> AnyTask] /\ \A u \in Tasks : u # t => task'[u] = task[u]
      /\ task'[t].key = task[t].key /\ task'[t].gen = task[t].gen /\ task'[t].pc = "lost"
  BY <1>1, <1>2 DEF AnyTask, TaskPcs
<1>4. TaskOk(t)'
  BY <1>1, <1>2, <1>3 DEF TaskOk
<1>5. ~UnderWay(t, task[t].key[1])' /\ ~Unmaps(t, task[t].key[1])
  BY <1>1, <1>3 DEF UnderWay, Unmaps
<1>6. QED
  BY <1>1, <1>3, <1>4, <1>5, TaskMoveOnly

LEMMA InvMapRead == ASSUME PrefetchInv, NEW t \in Tasks, MapRead(t) PROVE PrefetchInv'
<1> DEFINE p == task[t].key[1]
<1>1. /\ task[t].pc = "queued"
      /\ \/ task' = [task EXCEPT ![t].pc = "read", ![t].data = version[p]]
         \/ task' = [task EXCEPT ![t].pc = "ending"]
      /\ UNCHANGED <<version, map, cache, sizeBytes, pathGenerations, getter, inval, floor>>
  BY DEF MapRead, sharedVars
<1>2. /\ task \in [Tasks -> AnyTask] /\ task[t].key \in Keys /\ p \in Paths
      /\ task[t].gen <= pathGenerations[p] /\ version[p] \in Nat /\ floor[p] <= version[p]
      /\ floor[p] \in Nat
  BY <1>1, TaskFacts
<1> HIDE DEF p
<1>3. /\ task' \in [Tasks -> AnyTask] /\ \A u \in Tasks : u # t => task'[u] = task[u]
      /\ task'[t].key = task[t].key /\ task'[t].gen = task[t].gen
      /\ \/ task'[t].pc = "read" /\ task'[t].data = version[p]
         \/ task'[t].pc = "ending"
  BY <1>1, <1>2 DEF AnyTask, TaskPcs
<1>4. TaskOk(t)'
  BY <1>1, <1>2, <1>3 DEF TaskOk, p
<1>41. p' = p
  BY <1>3 DEF p
<1>5. Caught(t, p) => Caught(t, p)'
  BY <1>1, <1>3, <1>41 DEF Caught, Untested
<1>6. ~Unmaps(t, p)
  BY <1>1 DEF Unmaps
<1>7. QED
  BY <1>1, <1>3, <1>4, <1>5, <1>6, TaskMoveOnly DEF p

LEMMA InvTaskGetRegion == ASSUME PrefetchInv, NEW t \in Tasks, TaskGetRegion(t) PROVE PrefetchInv'
<1> DEFINE p == task[t].key[1]
           d == GetRegion(p, task[t].key[2])
<1>1. /\ task[t].pc = "mapped"
      /\ task' = [task EXCEPT ![t].data = d, ![t].pc = IF d = NoData THEN "ending" ELSE "got"]
      /\ UNCHANGED <<version, map, cache, sizeBytes, pathGenerations, getter, inval, floor>>
  BY DEF TaskGetRegion, sharedVars
<1>2. /\ task \in [Tasks -> AnyTask] /\ task[t].key \in Keys /\ p \in Paths
      /\ task[t].gen <= pathGenerations[p]
  BY <1>1, TaskFacts
<1>3. \/ d = NoData /\ \A j \in DOMAIN map[p] : ~Covers(map[p][j].region, task[t].key[2])
      \/ d \in Nat /\ d >= floor[p]
  BY <1>2, GetRegionFacts
<1>4. d \in Nat \cup {NoData} /\ (d \in Nat => d # NoData)
  BY <1>3 DEF NoData
<1> HIDE DEF p, d
<1>5. /\ task' \in [Tasks -> AnyTask] /\ \A u \in Tasks : u # t => task'[u] = task[u]
      /\ task'[t].key = task[t].key /\ task'[t].gen = task[t].gen /\ task'[t].data = d
      /\ task'[t].pc = IF d = NoData THEN "ending" ELSE "got"
  BY <1>1, <1>2, <1>4 DEF AnyTask, TaskPcs
<1>6. TaskOk(t)'
  BY <1>1, <1>2, <1>3, <1>4, <1>5 DEF TaskOk, p
<1>61. p' = p
  BY <1>5 DEF p
<1>7. Caught(t, p) => Caught(t, p)'
  BY <1>1, <1>5, <1>61 DEF Caught, Untested
<1>8. Unmaps(t, p) => Unmaps(t, p)'
  <2> SUFFICES ASSUME Unmaps(t, p) PROVE Unmaps(t, p)'
    OBVIOUS
  <2>1. \E j \in DOMAIN map[p] : Covers(map[p][j].region, task[t].key[2])
    BY <1>1 DEF Unmaps
  <2>2. d # NoData
    BY <1>3, <1>4, <2>1
  <2>3. QED
    BY <1>5, <1>61, <2>2 DEF Unmaps, UnderWay
<1>9. QED
  BY <1>1, <1>5, <1>6, <1>7, <1>8, TaskMoveOnly DEF p

LEMMA InvTestGeneration == ASSUME PrefetchInv, NEW t \in Tasks, TestGeneration(t) PROVE PrefetchInv'
<1> DEFINE p == task[t].key[1]
           b == pathGenerations[p] # task[t].gen
<1>1. /\ task[t].pc = "got" /\ task' = [task EXCEPT ![t].pc = "tested", ![t].stale = b]
      /\ UNCHANGED <<version, map, cache, sizeBytes, pathGenerations, getter, inval, floor>>
  BY DEF TestGeneration, sharedVars
<1>2. /\ task \in [Tasks -> AnyTask] /\ task[t].key \in Keys /\ p \in Paths /\ TaskOk(t)
      /\ task[t].gen \in Nat /\ pathGenerations[p] \in Nat
  BY <1>1, TaskFacts DEF PrefetchInv
<1>3. b \in BOOLEAN /\ (task[t].gen < pathGenerations[p] => b)
  BY <1>2
<1> HIDE DEF p, b
<1>4. /\ task' \in [Tasks -> AnyTask] /\ \A u \in Tasks : u # t => task'[u] = task[u]
      /\ task'[t].key = task[t].key /\ task'[t].gen = task[t].gen /\ task'[t].data = task[t].data
      /\ task'[t].pc = "tested" /\ task'[t].stale = b
  BY <1>1, <1>2, <1>3 DEF AnyTask, TaskPcs
<1>5. TaskOk(t)'
  BY <1>1, <1>2, <1>4 DEF TaskOk
<1>51. p' = p
  BY <1>4 DEF p
<1>6. Caught(t, p) => Caught(t, p)'
  BY <1>1, <1>3, <1>4, <1>51 DEF Caught, Untested
<1>7. Unmaps(t, p) => Unmaps(t, p)'
  BY <1>1, <1>4, <1>51 DEF Unmaps, UnderWay
<1>8. QED
  BY <1>1, <1>4, <1>5, <1>6, <1>7, TaskMoveOnly DEF p
LEMMA InvMapPush == ASSUME PrefetchInv, NEW t \in Tasks, MapPush(t) PROVE PrefetchInv'
<1> DEFINE p == task[t].key[1]
           r == task[t].key[2]
           m == [region |-> Mapped(r), data |-> task[t].data]
<1>1. /\ task[t].pc = "read" /\ map' = [map EXCEPT ![p] = Append(@, m)]
      /\ task' = [task EXCEPT ![t].pc = "mapped", ![t].data = NoData]
      /\ UNCHANGED <<version, cache, sizeBytes, pathGenerations, getter, inval, floor>>
  BY DEF MapPush
<1>2. /\ task \in [Tasks -> AnyTask] /\ task[t].key \in Keys /\ p \in Paths /\ r \in Regions
      /\ TaskOk(t) /\ UnderWay(t, p)
      /\ map \in [Paths -> Seq(AnyMapping)] /\ cache \in Seq(Entry) /\ CacheAccounted
  BY <1>1, TaskFacts DEF PrefetchInv
<1>3. r.off \in Nat /\ r.len \in Nat /\ r \in [off : Nat, len : Nat \ {0}] /\ FileLen \in Nat
  BY <1>2, PrefetchAssumption
<1>4. task[t].data \in Nat /\ task[t].data >= floor[p]
  BY <1>1, <1>2 DEF TaskOk
<1>5. m \in AnyMapping /\ m.region = Mapped(r) /\ m.data = task[t].data
  <2>1. Mapped(r) \in [off : Int, len : Int]
    BY <1>3 DEF Mapped
  <2> HIDE DEF r
  <2>2. QED
    BY <1>4, <2>1 DEF AnyMapping
<1>6. /\ task' \in [Tasks -> AnyTask] /\ \A u \in Tasks : u # t => task'[u] = task[u]
      /\ task'[t].key = task[t].key /\ task'[t].gen = task[t].gen /\ task'[t].pc = "mapped"
  BY <1>1, <1>2 DEF AnyTask, TaskPcs
<1>7. p' = p /\ r' = r
  BY <1>6
<1> HIDE DEF p, r, m
<1> DEFINE n == Len(map[p])
<1>8. /\ map' \in [Paths -> Seq(AnyMapping)]
      /\ \A q \in Paths : q # p => map'[q] = map[q]
      /\ map[p] \in Seq(AnyMapping) /\ map'[p] = Append(map[p], m)
  BY <1>1, <1>2, <1>5
<1>9. /\ n \in Nat /\ DOMAIN map[p] = 1 .. n /\ DOMAIN map'[p] = 1 .. n + 1
      /\ map'[p][n + 1] = m /\ \A j \in 1 .. n : map'[p][j] = map[p][j]
  BY <1>5, <1>8
<1> HIDE DEF n
<1>10. TaskOk(t)'
  BY <1>1, <1>2, <1>6, <1>7 DEF TaskOk, p
<1>11. CacheAccounted' /\ cache' \in Seq(Entry)
  BY <1>1, <1>2 DEF CacheAccounted
<1>12. InvalidateClears'
  <2>1. ASSUME NEW q \in Paths, NEW j \in DOMAIN map'[q]
        PROVE  \/ map'[q][j].data >= floor[q]
               \/ \E i \in DOMAIN map[q] : map'[q][j] = map[q][i]
    <3>1. CASE q = p
      <4>1. j \in 1 .. n \/ j = n + 1
        BY <1>9, <2>1, <3>1
      <4>2. QED
        BY <1>4, <1>5, <1>9, <3>1, <4>1
    <3>2. CASE q # p
      BY <1>8, <2>1, <3>2
    <3>3. QED
      BY <3>1, <3>2
  <2>2. \A j \in DOMAIN cache' : \E i \in DOMAIN cache : cache'[j] = cache[i]
    BY <1>1
  <2>3. floor' = floor
    BY <1>1
  <2>4. QED
    BY <2>1, <2>2, <2>3, ClearsKept
<1>13. \A q \in Paths : Uncached(q) => Uncached(q)'
  BY <1>1 DEF Uncached
<1>14. ASSUME Caught(t, p) PROVE Caught(t, p)' /\ Unmapping(p)' /\ (Uncached(p) => Uncached(p)')
  <2>1. Mapped(r) = r /\ task[t].gen < pathGenerations[p]
    BY <1>1, <1>14 DEF Caught, Untested, r
  <2>2. Caught(t, p)'
    BY <1>1, <1>6, <1>7, <2>1 DEF Caught, Untested, r
  <2>3. Covers(map'[p][n + 1].region, task'[t].key[2])
    <3>1. task'[t].key[2] = r /\ map'[p][n + 1].region = r
      BY <1>5, <1>6, <1>9, <2>1 DEF r
    <3>2. Covers(r, r)
      BY <1>3 DEF Covers
    <3>3. QED
      BY <3>1, <3>2
  <2>4. UnderWay(t, p)'
    BY <1>6, <1>7 DEF UnderWay, p
  <2>5. n + 1 \in DOMAIN map'[p]
    BY <1>9
  <2>6. Unmaps(t, p)'
    BY <1>6, <1>7, <2>3, <2>4, <2>5 DEF Unmaps
  <2>7. QED
    BY <1>1, <1>7, <2>2, <2>6 DEF Unmapping, Uncached
<1>15. QED
  BY <1>1, <1>2, <1>6, <1>8, <1>10, <1>11, <1>12, <1>13, <1>14, TaskMove DEF p

LEMMA InvPutOrUnmap == ASSUME PrefetchInv, NEW t \in Tasks, PutOrUnmap(t) PROVE PrefetchInv'
<1> DEFINE p == task[t].key[1]
<1>1. /\ task[t].pc = "tested" /\ task' = [task EXCEPT ![t].pc = "ending"]
      /\ UNCHANGED <<version, pathGenerations, getter, inval, floor>>
  BY DEF PutOrUnmap
<1>2. /\ task \in [Tasks -> AnyTask] /\ task[t].key \in Keys /\ p \in Paths
      /\ TaskOk(t) /\ UnderWay(t, p)
      /\ map \in [Paths -> Seq(AnyMapping)] /\ cache \in Seq(Entry) /\ CacheAccounted
  BY <1>1, TaskFacts DEF PrefetchInv
<1>3. task[t].data \in Nat /\ task[t].data >= floor[p]
  BY <1>1, <1>2 DEF TaskOk
<1>4. /\ task' \in [Tasks -> AnyTask] /\ \A u \in Tasks : u # t => task'[u] = task[u]
      /\ task'[t].key = task[t].key /\ task'[t].gen = task[t].gen /\ task'[t].pc = "ending"
  BY <1>1, <1>2 DEF AnyTask, TaskPcs
<1>5. p' = p
  BY <1>4
<1> HIDE DEF p
<1>6. TaskOk(t)' /\ Caught(t, p)'
  BY <1>1, <1>2, <1>4, <1>5 DEF TaskOk, Caught, p
<1>7. CASE task[t].stale
  <2>1. map' = [map EXCEPT ![p] = <<>>] /\ cache' = cache /\ sizeBytes' = sizeBytes
    BY <1>7 DEF PutOrUnmap, p
  <2>2. /\ map' \in [Paths -> Seq(AnyMapping)] /\ \A q \in Paths : q # p => map'[q] = map[q]
        /\ map'[p] = <<>>
    BY <1>2, <2>1
  <2>3. CacheAccounted' /\ cache' \in Seq(Entry)
    BY <1>2, <2>1 DEF CacheAccounted
  <2>4. InvalidateClears'
    <3>1. ASSUME NEW q \in Paths, NEW j \in DOMAIN map'[q]
          PROVE  \E i \in DOMAIN map[q] : map'[q][j] = map[q][i]
      BY <2>2, <3>1
    <3>2. \A j \in DOMAIN cache' : \E i \in DOMAIN cache : cache'[j] = cache[i]
      BY <2>1
    <3>3. floor' = floor
      BY <1>1
    <3>4. QED
      BY <3>1, <3>2, <3>3, ClearsKept
  <2>5. Unmapping(p)' /\ \A q \in Paths : Uncached(q) => Uncached(q)'
    BY <1>5, <2>1, <2>2 DEF Unmapping, Uncached
  <2>6. Uncached(p) => Uncached(p)'
    BY <1>5, <2>1 DEF Uncached
  <2>7. QED
    BY <1>1, <1>2, <1>4, <1>6, <2>2, <2>3, <2>4, <2>5, <2>6, TaskMove DEF p
<1>8. CASE ~task[t].stale
  <2> DEFINE k == task[t].key
             d == task[t].data
  <2>1. map' = map /\ CachePut(k, d)
    BY <1>8 DEF PutOrUnmap
  <2>2. /\ cache' \in Seq(Entry) /\ CacheAccounted'
        /\ \A j \in DOMAIN cache' :
             \/ cache'[j] = [key |-> k, data |-> d]
             \/ \E i \in DOMAIN cache : cache'[j] = cache[i]
    <3>1. k \in Keys /\ d \in Nat
      BY <1>2, <1>3
    <3> HIDE DEF k, d
    <3>2. QED
      BY <2>1, <3>1, CachePutFacts
  <2>3. InvalidateClears'
    <3>1. ASSUME NEW j \in DOMAIN cache'
          PROVE  \/ cache'[j].data >= floor[cache'[j].key[1]]
                 \/ \E i \in DOMAIN cache : cache'[j] = cache[i]
      <4>1. CASE cache'[j] = [key |-> k, data |-> d]
        BY <1>3, <4>1 DEF p
      <4>2. QED
        BY <2>2, <4>1
    <3>2. \A q \in Paths : \A j \in DOMAIN map'[q] : \E i \in DOMAIN map[q] : map'[q][j] = map[q][i]
      BY <2>1
    <3>3. floor' = floor
      BY <1>1
    <3>4. QED
      BY <3>1, <3>2, <3>3, ClearsKept
  <2>4. ASSUME NEW q \in Paths, q # p, Uncached(q) PROVE Uncached(q)'
    <3>1. ASSUME NEW j \in DOMAIN cache' PROVE cache'[j].key[1] # q
      <4>1. CASE cache'[j] = [key |-> k, data |-> d]
        BY <2>4, <4>1 DEF p
      <4>2. CASE \E i \in DOMAIN cache : cache'[j] = cache[i]
        BY <2>4, <4>2 DEF Uncached
      <4>3. QED
        BY <2>2, <4>1, <4>2
    <3>2. QED
      BY <3>1 DEF Uncached
  <2>5. ~Caught(t, p)
    BY <1>1, <1>8 DEF Caught, Untested
  <2>6. map' \in [Paths -> Seq(AnyMapping)]
    BY <1>2, <2>1
  <2>7. QED
    BY <1>1, <1>2, <1>4, <1>6, <2>1, <2>2, <2>3, <2>4, <2>5, <2>6, TaskMove DEF p
<1>9. QED
  BY <1>7, <1>8

\* A step that moves nothing but one prefetch, which no invalidation of the
\* paths outside D has to do with.
LEMMA TaskSwap ==
  ASSUME NEW t \in Tasks, NEW D, UNCHANGED <<map, cache, pathGenerations, getter>>,
         \A u \in Tasks : u # t => task'[u] = task[u],
         \A q \in Paths \ D : ~UnderWay(t, q)' /\ ~Unmaps(t, q)
  PROVE  \A q \in Paths \ D : Keeps(q)
<1> SUFFICES ASSUME NEW q \in Paths \ D, Quiet(q), Overtaken(q)
             PROVE  /\ Quiet(q)' /\ Overtaken(q)'
                    /\ Uncached(q) => Uncached(q)'
                    /\ Unmapping(q) => Unmapping(q)'
  BY DEF Keeps
<1>1. Quiet(q)' /\ (Uncached(q) => Uncached(q)')
  BY DEF Quiet, Uncached
<1>2. ASSUME NEW u \in Tasks, UnderWay(u, q)' PROVE Caught(u, q)'
  <2>1. u # t
    BY <1>2
  <2>2. task'[u] = task[u]
    BY <2>1
  <2>3. UnderWay(u, q)
    BY <1>2, <2>2 DEF UnderWay
  <2>4. QED
    BY <2>2, <2>3 DEF Overtaken, Caught, Untested
<1>3. ASSUME NEW u \in Tasks, Unmaps(u, q) PROVE Unmaps(u, q)'
  <2>1. task'[u] = task[u]
    BY <1>3
  <2>2. QED
    BY <1>3, <2>1 DEF Unmaps, UnderWay
<1>4. QED
  BY <1>1, <1>2, <1>3 DEF Overtaken, Unmapping

\* A step that leaves the files, the map, the cache and the generations alone.
LEMMA RestKept ==
  ASSUME PrefetchInv, UNCHANGED <<version, map, cache, sizeBytes, pathGenerations, floor>>,
         task' \in [Tasks -> AnyTask], getter' \in [Getters -> AnyGetter],
         inval' \in [Invalidators -> AnyInval],
         \A t \in Tasks : TaskOk(t)', \A g \in Getters : GetterOk(g)',
         \A i \in Invalidators : InvalOk(i)'
  PROVE  PrefetchInv'
<1>1. PrefetchTypes'
  BY DEF PrefetchInv, PrefetchTypes
<1>2. CacheAccounted' /\ InvalidateClears' /\ \A p \in Paths : floor'[p] <= version'[p]
  BY DEF PrefetchInv, CacheAccounted, InvalidateClears
<1>3. QED
  BY <1>1, <1>2 DEF PrefetchInv

\* The start of an operation on a path.
LEMMA DisturbsFacts ==
  ASSUME PrefetchInv, NEW p \in Paths, Disturbs(p)
  PROVE  /\ inval' \in [Invalidators -> AnyInval]
         /\ \A i \in Invalidators :
              /\ inval'[i].pc = inval[i].pc /\ inval'[i].path = inval[i].path
              /\ inval'[i].seen = inval[i].seen
              /\ inval'[i].clean => inval[i].clean /\ inval[i].path \notin {p}
<1>1. inval \in [Invalidators -> AnyInval]
  BY DEF PrefetchInv, PrefetchTypes
<1>2. \A i \in Invalidators :
        inval'[i] = IF inval[i].path = p THEN [inval[i] EXCEPT !.clean = FALSE] ELSE inval[i]
  BY DEF Disturbs
<1>3. ASSUME NEW i \in Invalidators
      PROVE  /\ inval'[i] \in AnyInval
             /\ inval'[i].pc = inval[i].pc /\ inval'[i].path = inval[i].path
             /\ inval'[i].seen = inval[i].seen
             /\ inval'[i].clean => inval[i].clean /\ inval[i].path \notin {p}
  <2>1. inval[i] \in AnyInval
    BY <1>1
  <2>2. CASE inval[i].path = p
    BY <1>2, <2>1, <2>2 DEF AnyInval
  <2>3. CASE inval[i].path # p
    BY <1>2, <2>1, <2>3
  <2>4. QED
    BY <2>2, <2>3
<1>4. inval' = [i \in Invalidators |-> inval'[i]]
  BY DEF Disturbs
<1>5. QED
  BY <1>3, <1>4

LEMMA InvPrefetchAsync ==
  ASSUME PrefetchInv, NEW t \in Tasks, NEW k \in Keys, PrefetchAsync(t, k)
  PROVE  PrefetchInv'
<1> DEFINE p == k[1]
           D == {p}
<1>1. /\ task[t].pc = "new" /\ Disturbs(p)
      /\ task' = [task EXCEPT ![t].pc = "queued", ![t].key = k, ![t].gen = pathGenerations[p]]
      /\ UNCHANGED <<version, map, cache, sizeBytes, pathGenerations, getter, floor>>
  BY DEF PrefetchAsync
<1>2. /\ task \in [Tasks -> AnyTask] /\ p \in Paths /\ pathGenerations[p] \in Nat
      /\ version' \in [Paths -> Nat] /\ \A q \in Paths : version'[q] >= version[q]
      /\ getter' \in [Getters -> AnyGetter]
  BY <1>1 DEF PrefetchInv, PrefetchTypes, Keys
<1> HIDE DEF p
<1>3. /\ task' \in [Tasks -> AnyTask] /\ \A u \in Tasks : u # t => task'[u] = task[u]
      /\ task'[t].key = k /\ task'[t].gen = pathGenerations[p] /\ task'[t].pc = "queued"
  <2> DEFINE r == [task[t] EXCEPT !.pc = "queued", !.key = k, !.gen = pathGenerations[p]]
  <2>1. task[t] \in AnyTask
    BY <1>2
  <2>2. r \in AnyTask /\ r.key = k /\ r.gen = pathGenerations[p] /\ r.pc = "queued"
    BY <1>2, <2>1 DEF AnyTask, TaskPcs
  <2>3. task' = [task EXCEPT ![t] = r]
    BY <1>1, <1>2
  <2> HIDE DEF r
  <2>4. QED
    BY <1>2, <2>2, <2>3
<1>4. \A u \in Tasks : TaskOk(u)'
  <2>1. TaskOk(t)'
    BY <1>1, <1>2, <1>3 DEF TaskOk, p
  <2>2. ASSUME NEW u \in Tasks, u # t PROVE TaskOk(u)'
    BY <1>1, <1>3, <2>2 DEF PrefetchInv, TaskOk
  <2>3. QED
    BY <2>1, <2>2
<1>5. \A g \in Getters : GetterOk(g)'
  BY <1>1 DEF PrefetchInv, GetterOk
<1>6. /\ inval' \in [Invalidators -> AnyInval]
      /\ \A i \in Invalidators :
           /\ inval'[i].pc = inval[i].pc /\ inval'[i].path = inval[i].path
           /\ inval'[i].seen = inval[i].seen
           /\ inval'[i].clean => inval[i].clean /\ inval[i].path \notin D
  BY <1>1, <1>2, DisturbsFacts
<1>7. \A q \in Paths \ D : ~UnderWay(t, q)' /\ ~Unmaps(t, q)
  BY <1>1, <1>3 DEF UnderWay, Unmaps, p
<1> HIDE DEF D
<1>8. \A q \in Paths \ D : Keeps(q)
  BY <1>1, <1>3, <1>7, TaskSwap
<1>9. \A i \in Invalidators : InvalOk(i)'
  BY <1>2, <1>6, <1>8, InvalsKept
<1>10. QED
  BY <1>1, <1>2, <1>3, <1>4, <1>5, <1>6, <1>9, RestKept

LEMMA InvEraseInProgress ==
  ASSUME PrefetchInv, NEW t \in Tasks, EraseInProgress(t)
  PROVE  PrefetchInv'
<1> DEFINE D == {}
<1>1. /\ task[t].pc = "ending" /\ task' = [task EXCEPT ![t] = [NewTask EXCEPT !.pc = "done"]]
      /\ UNCHANGED <<version, map, cache, sizeBytes, pathGenerations, getter, inval, floor>>
  BY DEF EraseInProgress
<1>2. /\ task \in [Tasks -> AnyTask] /\ inval' \in [Invalidators -> AnyInval]
      /\ version' \in [Paths -> Nat] /\ \A q \in Paths : version'[q] >= version[q]
      /\ getter' \in [Getters -> AnyGetter]
  BY <1>1 DEF PrefetchInv, PrefetchTypes
<1>3. /\ task' \in [Tasks -> AnyTask] /\ \A u \in Tasks : u # t => task'[u] = task[u]
      /\ task'[t].pc = "done"
  BY <1>1, <1>2 DEF AnyTask, TaskPcs, NewTask
<1>4. \A u \in Tasks : TaskOk(u)'
  <2>1. TaskOk(t)'
    BY <1>3 DEF TaskOk
  <2>2. ASSUME NEW u \in Tasks, u # t PROVE TaskOk(u)'
    BY <1>1, <1>3, <2>2 DEF PrefetchInv, TaskOk
  <2>3. QED
    BY <2>1, <2>2
<1>5. \A g \in Getters : GetterOk(g)'
  BY <1>1 DEF PrefetchInv, GetterOk
<1>6. \A i \in Invalidators :
        /\ inval'[i].pc = inval[i].pc /\ inval'[i].path = inval[i].path
        /\ inval'[i].seen = inval[i].seen
        /\ inval'[i].clean => inval[i].clean /\ inval[i].path \notin D
  BY <1>1
<1>7. \A q \in Paths \ D : ~UnderWay(t, q)' /\ ~Unmaps(t, q)
  BY <1>1, <1>3 DEF UnderWay, Unmaps
<1> HIDE DEF D
<1>8. \A q \in Paths \ D : Keeps(q)
  BY <1>1, <1>3, <1>7, TaskSwap
<1>9. \A i \in Invalidators : InvalOk(i)'
  BY <1>2, <1>6, <1>8, InvalsKept
<1>10. QED
  BY <1>1, <1>2, <1>3, <1>4, <1>5, <1>9, RestKept
-----------------------------------------------------------------------------
(* TryGet                                                                  *)

\* A step that moves no prefetch and maps nothing.
LEMMA GettersKeep ==
  ASSUME NEW D, UNCHANGED <<map, task, pathGenerations>>,
         \A q \in Paths \ D : Quiet(q) => Quiet(q)' /\ (Uncached(q) => Uncached(q)')
  PROVE  \A q \in Paths \ D : Keeps(q)
<1> SUFFICES ASSUME NEW q \in Paths \ D, Quiet(q), Overtaken(q)
             PROVE  /\ Overtaken(q)'
                    /\ Unmapping(q) => Unmapping(q)'
  BY DEF Keeps
<1>1. \A t \in Tasks : /\ UnderWay(t, q)' <=> UnderWay(t, q)
                       /\ Caught(t, q)' <=> Caught(t, q)
                       /\ Unmaps(t, q)' <=> Unmaps(t, q)
  BY DEF UnderWay, Caught, Untested, Unmaps
<1>2. QED
  BY <1>1 DEF Overtaken, Unmapping

\* What a step of a getter must show.
LEMMA GetterMove ==
  ASSUME PrefetchInv, NEW D,
         UNCHANGED <<version, map, task, pathGenerations, floor>>,
         getter' \in [Getters -> AnyGetter], \A g \in Getters : GetterOk(g)',
         cache' \in Seq(Entry), CacheAccounted', InvalidateClears',
         inval' \in [Invalidators -> AnyInval],
         \A i \in Invalidators :
           /\ inval'[i].pc = inval[i].pc /\ inval'[i].path = inval[i].path
           /\ inval'[i].seen = inval[i].seen
           /\ inval'[i].clean => inval[i].clean /\ inval[i].path \notin D,
         \A q \in Paths \ D : Quiet(q) => Quiet(q)' /\ (Uncached(q) => Uncached(q)')
  PROVE  PrefetchInv'
<1>1. PrefetchTypes' /\ version' \in [Paths -> Nat] /\ \A q \in Paths : version'[q] >= version[q]
  BY DEF PrefetchInv, PrefetchTypes
<1>2. \A t \in Tasks : TaskOk(t)'
  BY DEF PrefetchInv, TaskOk
<1>3. \A q \in Paths \ D : Keeps(q)
  BY GettersKeep
<1>4. \A i \in Invalidators : InvalOk(i)'
  BY <1>1, <1>3, InvalsKept
<1>5. \A q \in Paths : floor'[q] <= version'[q]
  BY DEF PrefetchInv
<1>6. QED
  BY <1>1, <1>2, <1>4, <1>5 DEF PrefetchInv

LEMMA InvTryGetCache ==
  ASSUME PrefetchInv, NEW g \in Getters, NEW k \in Keys, TryGetCache(g, k)
  PROVE  PrefetchInv'
<1> DEFINE p == k[1]
           D == {p}
<1>1. /\ getter[g].pc = "idle" /\ Disturbs(p)
      /\ UNCHANGED <<version, map, sizeBytes, pathGenerations, task, floor>>
      /\ \/ CacheGet(k) /\ getter' = getter
         \/ /\ getter' = [getter EXCEPT ![g] = [Put0 EXCEPT !.pc = "missed", !.key = k]]
            /\ cache' = cache
  BY DEF TryGetCache
<1>2. p \in Paths /\ getter \in [Getters -> AnyGetter] /\ cache \in Seq(Entry) /\ CacheAccounted
  BY DEF Keys, PrefetchInv, PrefetchTypes
<1>3. /\ inval' \in [Invalidators -> AnyInval]
      /\ \A i \in Invalidators :
           /\ inval'[i].pc = inval[i].pc /\ inval'[i].path = inval[i].path
           /\ inval'[i].seen = inval[i].seen
           /\ inval'[i].clean => inval[i].clean /\ inval[i].path \notin D
  BY <1>1, <1>2, DisturbsFacts
<1>4. /\ cache' \in Seq(Entry) /\ CacheAccounted'
      /\ \A j \in DOMAIN cache' : \E i \in DOMAIN cache : cache'[j] = cache[i]
  <2>1. CASE CacheGet(k)
    BY <1>1, <2>1, CacheGetFacts
  <2>2. CASE cache' = cache
    BY <1>1, <1>2, <2>2 DEF CacheAccounted
  <2>3. QED
    BY <1>1, <2>1, <2>2
<1>5. InvalidateClears'
  <2>1. \A q \in Paths : \A j \in DOMAIN map'[q] : \E i \in DOMAIN map[q] : map'[q][j] = map[q][i]
    BY <1>1
  <2>2. floor' = floor
    BY <1>1
  <2>3. QED
    BY <1>4, <2>1, <2>2, ClearsKept
<1>6. /\ getter' \in [Getters -> AnyGetter] /\ \A h \in Getters : h # g => getter'[h] = getter[h]
      /\ \/ getter'[g] = getter[g]
         \/ getter'[g].pc = "missed" /\ getter'[g].key = k
  BY <1>1, <1>2 DEF AnyGetter, Put0
<1>7. \A h \in Getters : GetterOk(h)'
  <2>1. ASSUME NEW h \in Getters, getter'[h] = getter[h] PROVE GetterOk(h)'
    BY <1>1, <2>1 DEF PrefetchInv, GetterOk
  <2>2. CASE getter'[g].pc = "missed" /\ getter'[g].key = k
    <3>1. GetterOk(g)'
      BY <2>2 DEF GetterOk
    <3>2. QED
      BY <1>6, <2>1, <3>1
  <2>3. QED
    BY <1>6, <2>1, <2>2
<1>8. ASSUME NEW q \in Paths \ D, Quiet(q) PROVE Quiet(q)' /\ (Uncached(q) => Uncached(q)')
  <2>1. Quiet(q)'
    BY <1>6, <1>8 DEF Quiet
  <2>2. Uncached(q) => Uncached(q)'
    BY <1>4 DEF Uncached
  <2>3. QED
    BY <2>1, <2>2
<1> HIDE DEF D
<1>9. QED
  BY <1>1, <1>3, <1>4, <1>5, <1>6, <1>7, <1>8, GetterMove

LEMMA InvTryGetMap == ASSUME PrefetchInv, NEW g \in Getters, TryGetMap(g) PROVE PrefetchInv'
<1> DEFINE D == {}
           k == getter[g].key
           d == GetRegion(k[1], k[2])
<1>1. /\ getter[g].pc = "missed"
      /\ getter' = [getter EXCEPT ![g] = IF d = NoData THEN Put0
                                         ELSE [@ EXCEPT !.pc = "got", !.data = d]]
      /\ UNCHANGED <<version, map, cache, sizeBytes, pathGenerations, task, inval, floor>>
  BY DEF TryGetMap, sharedVars
<1>2. getter \in [Getters -> AnyGetter] /\ GetterOk(g)
  BY DEF PrefetchInv, PrefetchTypes
<1>3. k \in Keys /\ k[1] \in Paths
  BY <1>1, <1>2 DEF GetterOk, Keys
<1>4. d = NoData \/ (d \in Nat /\ d >= floor[k[1]])
  BY <1>3, GetRegionFacts
<1> HIDE DEF k, d
<1>5. /\ getter' \in [Getters -> AnyGetter] /\ \A h \in Getters : h # g => getter'[h] = getter[h]
      /\ \/ getter'[g].pc = "idle"
         \/ /\ d # NoData /\ getter'[g].pc = "got" /\ getter'[g].key = k
            /\ getter'[g].data = d
  <2>1. Put0 \in AnyGetter /\ Put0.pc = "idle"
    BY DEF Put0, AnyGetter
  <2>2. CASE d = NoData
    BY <1>1, <1>2, <2>1, <2>2
  <2>3. CASE d # NoData
    BY <1>1, <1>2, <1>4, <2>3 DEF AnyGetter, k
  <2>4. QED
    BY <2>2, <2>3
<1>6. \A h \in Getters : GetterOk(h)'
  <2>1. ASSUME NEW h \in Getters, h # g PROVE GetterOk(h)'
    BY <1>1, <1>5, <2>1 DEF PrefetchInv, GetterOk
  <2>2. GetterOk(g)'
    BY <1>1, <1>3, <1>4, <1>5 DEF GetterOk
  <2>3. QED
    BY <2>1, <2>2
<1>7. /\ cache' \in Seq(Entry) /\ CacheAccounted' /\ InvalidateClears'
      /\ inval' \in [Invalidators -> AnyInval]
  BY <1>1 DEF PrefetchInv, PrefetchTypes, CacheAccounted, InvalidateClears
<1>8. \A i \in Invalidators :
        /\ inval'[i].pc = inval[i].pc /\ inval'[i].path = inval[i].path
        /\ inval'[i].seen = inval[i].seen
        /\ inval'[i].clean => inval[i].clean /\ inval[i].path \notin D
  BY <1>1
<1>9. ASSUME NEW q \in Paths \ D, Quiet(q) PROVE Quiet(q)' /\ (Uncached(q) => Uncached(q)')
  <2>1. k[1] # q
    BY <1>1, <1>9 DEF Quiet, k
  <2>2. Quiet(q)'
    BY <1>5, <1>9, <2>1 DEF Quiet
  <2>3. Uncached(q) => Uncached(q)'
    BY <1>1 DEF Uncached
  <2>4. QED
    BY <2>2, <2>3
<1> HIDE DEF D
<1>10. QED
  BY <1>1, <1>5, <1>6, <1>7, <1>8, <1>9, GetterMove

LEMMA InvTryGetPut == ASSUME PrefetchInv, NEW g \in Getters, TryGetPut(g) PROVE PrefetchInv'
<1> DEFINE D == {}
           k == getter[g].key
           d == getter[g].data
<1>1. /\ getter[g].pc = "got" /\ CachePut(k, d) /\ getter' = [getter EXCEPT ![g] = Put0]
      /\ UNCHANGED <<version, map, pathGenerations, task, inval, floor>>
  BY DEF TryGetPut
<1>2. getter \in [Getters -> AnyGetter] /\ GetterOk(g)
  BY DEF PrefetchInv, PrefetchTypes
<1>3. k \in Keys /\ k[1] \in Paths /\ d \in Nat /\ d >= floor[k[1]]
  BY <1>1, <1>2 DEF GetterOk, Keys
<1> HIDE DEF k, d
<1>4. /\ cache' \in Seq(Entry) /\ CacheAccounted'
      /\ \A j \in DOMAIN cache' :
           \/ cache'[j] = [key |-> k, data |-> d]
           \/ \E i \in DOMAIN cache : cache'[j] = cache[i]
  BY <1>1, <1>3, CachePutFacts
<1>5. InvalidateClears'
  <2>1. ASSUME NEW j \in DOMAIN cache'
        PROVE  \/ cache'[j].data >= floor[cache'[j].key[1]]
               \/ \E i \in DOMAIN cache : cache'[j] = cache[i]
    <3>1. CASE cache'[j] = [key |-> k, data |-> d]
      BY <1>3, <3>1
    <3>2. QED
      BY <1>4, <3>1
  <2>2. \A q \in Paths : \A j \in DOMAIN map'[q] : \E i \in DOMAIN map[q] : map'[q][j] = map[q][i]
    BY <1>1
  <2>3. floor' = floor
    BY <1>1
  <2>4. QED
    BY <2>1, <2>2, <2>3, ClearsKept
<1>6. /\ getter' \in [Getters -> AnyGetter] /\ \A h \in Getters : h # g => getter'[h] = getter[h]
      /\ getter'[g].pc = "idle"
  <2>1. Put0 \in AnyGetter /\ Put0.pc = "idle"
    BY DEF Put0, AnyGetter
  <2>2. QED
    BY <1>1, <1>2, <2>1
<1>7. \A h \in Getters : GetterOk(h)'
  <2>1. ASSUME NEW h \in Getters, h # g PROVE GetterOk(h)'
    BY <1>1, <1>6, <2>1 DEF PrefetchInv, GetterOk
  <2>2. GetterOk(g)'
    BY <1>6 DEF GetterOk
  <2>3. QED
    BY <2>1, <2>2
<1>8. /\ inval' \in [Invalidators -> AnyInval]
      /\ \A i \in Invalidators :
           /\ inval'[i].pc = inval[i].pc /\ inval'[i].path = inval[i].path
           /\ inval'[i].seen = inval[i].seen
           /\ inval'[i].clean => inval[i].clean /\ inval[i].path \notin D
  BY <1>1 DEF PrefetchInv, PrefetchTypes
<1>9. ASSUME NEW q \in Paths \ D, Quiet(q) PROVE Quiet(q)' /\ (Uncached(q) => Uncached(q)')
  <2>1. k[1] # q
    BY <1>1, <1>9 DEF Quiet, k
  <2>2. Quiet(q)'
    BY <1>6, <1>9 DEF Quiet
  <2>3. ASSUME Uncached(q) PROVE Uncached(q)'
    <3>1. ASSUME NEW j \in DOMAIN cache' PROVE cache'[j].key[1] # q
      <4>1. CASE cache'[j] = [key |-> k, data |-> d]
        BY <2>1, <4>1
      <4>2. CASE \E i \in DOMAIN cache : cache'[j] = cache[i]
        BY <2>3, <4>2 DEF Uncached
      <4>3. QED
        BY <1>4, <4>1, <4>2
    <3>2. QED
      BY <3>1 DEF Uncached
  <2>4. QED
    BY <2>2, <2>3
<1> HIDE DEF D
<1>10. QED
  BY <1>1, <1>4, <1>5, <1>6, <1>7, <1>8, <1>9, GetterMove
-----------------------------------------------------------------------------
(* InvalidatePath, and files that change                                   *)

LEMMA InvBumpGeneration ==
  ASSUME PrefetchInv, NEW i \in Invalidators, NEW p \in Paths, BumpGeneration(i, p)
  PROVE  PrefetchInv'
<1> DEFINE c == ~Busy(p)
           r == [pc |-> "bumped", path |-> p, seen |-> version[p], clean |-> c]
<1>1. /\ pathGenerations' = [pathGenerations EXCEPT ![p] = @ + 1]
      /\ inval' = [inval EXCEPT ![i] = r]
      /\ UNCHANGED <<version, map, cache, sizeBytes, task, getter, floor>>
  BY DEF BumpGeneration
<1>2. c \in BOOLEAN /\ (c => ~Busy(p))
  OBVIOUS
<1> HIDE DEF c
<1>3. /\ PrefetchTypes /\ pathGenerations \in [Paths -> Nat] /\ version \in [Paths -> Nat]
      /\ task \in [Tasks -> AnyTask] /\ inval \in [Invalidators -> AnyInval]
  BY DEF PrefetchInv, PrefetchTypes
<1>4. /\ pathGenerations' \in [Paths -> Nat] /\ pathGenerations'[p] = pathGenerations[p] + 1
      /\ \A q \in Paths : pathGenerations[q] <= pathGenerations'[q]
  BY <1>1, <1>3
<1>5. /\ r \in AnyInval /\ r.pc = "bumped" /\ r.path = p /\ r.seen = version[p] /\ r.clean = c
  BY <1>2, <1>3 DEF AnyInval
<1> HIDE DEF r
<1>6. /\ inval' \in [Invalidators -> AnyInval] /\ inval'[i] = r
      /\ \A h \in Invalidators : h # i => inval'[h] = inval[h]
  BY <1>1, <1>3, <1>5
<1>7. PrefetchTypes'
  BY <1>1, <1>3, <1>4, <1>6 DEF PrefetchTypes
<1>8. \A t \in Tasks : task[t].gen \in Nat
  BY <1>3 DEF AnyTask
<1>9. \A t \in Tasks : TaskOk(t)'
  <2> SUFFICES ASSUME NEW t \in Tasks PROVE TaskOk(t)'
    OBVIOUS
  <2>1. TaskOk(t)
    BY DEF PrefetchInv
  <2>2. CASE task[t].pc \in {"new", "done"}
    BY <1>1, <2>2 DEF TaskOk
  <2>3. CASE task[t].pc \notin {"new", "done"}
    <3>1. task[t].key \in Keys /\ task[t].key[1] \in Paths
      BY <2>1, <2>3 DEF TaskOk, Keys
    <3> DEFINE q == task[t].key[1]
    <3>2. task[t].gen <= pathGenerations[q] /\ pathGenerations[q] <= pathGenerations'[q]
      BY <1>4, <2>1, <2>3, <3>1 DEF TaskOk
    <3>3. pathGenerations[q] \in Nat /\ pathGenerations'[q] \in Nat /\ task[t].gen \in Nat
      BY <1>3, <1>4, <1>8, <3>1
    <3>4. task[t].gen <= pathGenerations'[q]
      BY <3>2, <3>3
    <3>5. QED
      BY <1>1, <2>1, <3>1, <3>4 DEF TaskOk
  <2>4. QED
    BY <2>2, <2>3
<1>10. /\ \A g \in Getters : GetterOk(g)'
       /\ CacheAccounted' /\ InvalidateClears' /\ \A q \in Paths : floor'[q] <= version'[q]
  BY <1>1 DEF PrefetchInv, GetterOk, CacheAccounted, InvalidateClears
<1>11. ASSUME NEW q \in Paths, NEW t \in Tasks
       PROVE  /\ UnderWay(t, q)' <=> UnderWay(t, q)
              /\ Caught(t, q) => Caught(t, q)'
              /\ Unmaps(t, q) => Unmaps(t, q)'
  <2>1. task'[t] = task[t] /\ map' = map
    BY <1>1
  <2>2. task[t].gen < pathGenerations[q] => task[t].gen < pathGenerations'[q]
    BY <1>3, <1>4, <1>8
  <2>3. QED
    BY <2>1, <2>2 DEF UnderWay, Caught, Untested, Unmaps
<1>12. ASSUME NEW q \in Paths PROVE Keeps(q)
  <2>1. Quiet(q) => Quiet(q)'
    BY <1>1 DEF Quiet
  <2>2. Uncached(q) => Uncached(q)'
    BY <1>1 DEF Uncached
  <2>3. Overtaken(q) => Overtaken(q)'
    BY <1>11 DEF Overtaken
  <2>4. Unmapping(q) => Unmapping(q)'
    BY <1>1, <1>11 DEF Unmapping
  <2>5. QED
    BY <2>1, <2>2, <2>3, <2>4 DEF Keeps
<1>13. ASSUME NEW h \in Invalidators, h # i PROVE InvalOk(h)'
  <2>1. version' \in [Paths -> Nat] /\ \A q \in Paths : version'[q] >= version[q]
    BY <1>1, <1>3
  <2>2. inval'[h] = inval[h]
    BY <1>6, <1>13
  <2>3. QED
    BY <1>12, <2>1, <2>2, InvalKept
<1>14. ASSUME c PROVE Vouches(i, p)'
  <2>1. Quiet(p)'
    BY <1>1, <1>2, <1>14 DEF Busy, Quiet
  <2>2. ASSUME NEW t \in Tasks, UnderWay(t, p)' PROVE Caught(t, p)'
    <3>1. UnderWay(t, p) /\ task'[t] = task[t] /\ TaskOk(t)
      BY <1>1, <1>11, <2>2 DEF PrefetchInv
    <3>2. Untested(t)
      BY <1>2, <1>14, <3>1 DEF Busy, UnderWay
    <3>3. task[t].gen <= pathGenerations[p]
      BY <3>1 DEF TaskOk, UnderWay
    <3>4. task[t].gen < pathGenerations'[p]
      <4>1. task[t].gen \in Nat /\ pathGenerations[p] \in Nat
        BY <1>3, <1>8
      <4>2. QED
        BY <1>4, <3>3, <4>1
    <3>5. QED
      BY <3>1, <3>2, <3>4 DEF Caught, Untested
  <2>3. inval'[i].seen <= version'[p]
    BY <1>1, <1>3, <1>5, <1>6
  <2>4. QED
    BY <1>5, <1>6, <2>1, <2>2, <2>3 DEF Vouches, Overtaken
<1>15. InvalOk(i)'
  BY <1>5, <1>6, <1>14 DEF InvalOk
<1>16. QED
  BY <1>7, <1>9, <1>10, <1>13, <1>15 DEF PrefetchInv

\* A step of one invalidation.
LEMMA InvalMove ==
  ASSUME PrefetchInv, NEW i \in Invalidators, NEW pc \in {"removed", "settling"},
         UNCHANGED <<version, task, getter, pathGenerations, floor>>,
         inval[i].pc # "idle", inval' = [inval EXCEPT ![i].pc = pc],
         map' \in [Paths -> Seq(AnyMapping)], cache' \in Seq(Entry), CacheAccounted',
         InvalidateClears',
         \A q \in Paths : /\ Uncached(q) => Uncached(q)'
                          /\ Unmapping(q) => Unmapping(q)',
         inval[i].clean => Uncached(inval[i].path)',
         pc = "settling" => Unmapping(inval[i].path)'
  PROVE  PrefetchInv'
<1> DEFINE p == inval[i].path
<1>1. PrefetchTypes /\ inval \in [Invalidators -> AnyInval] /\ InvalOk(i) /\ p \in Paths
  BY DEF PrefetchInv, PrefetchTypes, InvalOk
<1>2. /\ inval' \in [Invalidators -> AnyInval]
      /\ \A h \in Invalidators : h # i => inval'[h] = inval[h]
      /\ inval'[i].pc = pc /\ inval'[i].path = p /\ inval'[i].seen = inval[i].seen
      /\ inval'[i].clean = inval[i].clean
  <2>1. inval[i] \in AnyInval
    BY <1>1
  <2>2. [inval[i] EXCEPT !.pc = pc] \in AnyInval
    BY <2>1 DEF AnyInval
  <2>3. QED
    BY <1>1, <2>1, <2>2 DEF AnyInval
<1>3. PrefetchTypes'
  BY <1>1, <1>2 DEF PrefetchTypes
<1>4. /\ \A t \in Tasks : TaskOk(t)'
      /\ \A g \in Getters : GetterOk(g)'
      /\ \A q \in Paths : floor'[q] <= version'[q]
  BY DEF PrefetchInv, TaskOk, GetterOk
<1>5. ASSUME NEW q \in Paths PROVE /\ Quiet(q)' <=> Quiet(q)
                                   /\ Overtaken(q)' <=> Overtaken(q)
  BY DEF Quiet, Overtaken, UnderWay, Caught, Untested
<1>6. ASSUME NEW q \in Paths PROVE Keeps(q)
  BY <1>5 DEF Keeps
<1>7. ASSUME NEW h \in Invalidators, h # i PROVE InvalOk(h)'
  <2>1. version' \in [Paths -> Nat] /\ \A q \in Paths : version'[q] >= version[q]
    BY <1>1 DEF PrefetchTypes
  <2>2. inval'[h] = inval[h]
    BY <1>2, <1>7
  <2>3. QED
    BY <1>6, <2>1, <2>2, InvalKept
<1>8. InvalOk(i)'
  <2>1. ASSUME inval'[i].clean PROVE Vouches(i, p)'
    <3>1. Vouches(i, p)
      BY <1>1, <1>2, <2>1 DEF InvalOk
    <3>2. Quiet(p)' /\ Overtaken(p)' /\ inval'[i].seen <= version'[p]
      <4>1. Quiet(p) /\ Overtaken(p) /\ inval[i].seen <= version[p]
        BY <3>1 DEF Vouches
      <4>2. p' = p
        BY <1>2
      <4> HIDE DEF p
      <4>3. QED
        BY <1>1, <1>2, <1>5, <4>1, <4>2
    <3>3. QED
      BY <1>2, <2>1, <3>2 DEF Vouches
  <2>2. QED
    BY <1>1, <1>2, <2>1 DEF InvalOk
<1>9. QED
  BY <1>3, <1>4, <1>7, <1>8 DEF PrefetchInv

LEMMA InvInvalidateCache ==
  ASSUME PrefetchInv, NEW i \in Invalidators, InvalidateCache(i)
  PROVE  PrefetchInv'
<1> DEFINE p == inval[i].path
<1>1. /\ inval[i].pc = "bumped" /\ RemoveByPrefix(p) /\ inval' = [inval EXCEPT ![i].pc = "removed"]
      /\ UNCHANGED <<version, map, pathGenerations, task, getter, floor>>
  BY DEF InvalidateCache
<1>2. /\ p \in Paths /\ inval \in [Invalidators -> AnyInval] /\ map' \in [Paths -> Seq(AnyMapping)]
  BY <1>1 DEF PrefetchInv, PrefetchTypes, InvalOk
<1>3. inval'[i].path = p
  BY <1>1, <1>2 DEF AnyInval
<1>4. p' = p
  BY <1>3
<1> HIDE DEF p
<1>5. /\ cache' \in Seq(Entry) /\ CacheAccounted' /\ (\A j \in DOMAIN cache' : cache'[j].key[1] # p)
      /\ \A j \in DOMAIN cache' : \E h \in DOMAIN cache : cache'[j] = cache[h]
  <2>1. PICK q \in Paths : q = p
    BY <1>2
  <2>2. /\ cache' \in Seq(Entry) /\ CacheAccounted' /\ Uncached(q)'
        /\ \A j \in DOMAIN cache' : \E h \in DOMAIN cache : cache'[j] = cache[h]
    BY <1>1, <2>1, RemoveFacts
  <2>3. QED
    BY <2>1, <2>2 DEF Uncached
<1>6. InvalidateClears'
  <2>1. \A q \in Paths : \A j \in DOMAIN map'[q] : \E h \in DOMAIN map[q] : map'[q][j] = map[q][h]
    BY <1>1
  <2>2. floor' = floor
    BY <1>1
  <2>3. QED
    BY <1>5, <2>1, <2>2, ClearsKept
<1>7. ASSUME NEW q \in Paths PROVE /\ Uncached(q) => Uncached(q)'
                                   /\ Unmapping(q) => Unmapping(q)'
  <2>1. Uncached(q) => Uncached(q)'
    BY <1>5 DEF Uncached
  <2>2. Unmapping(q) => Unmapping(q)'
    BY <1>1 DEF Unmapping, Unmaps, UnderWay
  <2>3. QED
    BY <2>1, <2>2
<1>8. Uncached(p)'
  BY <1>4, <1>5 DEF Uncached
<1>9. QED
  BY <1>1, <1>2, <1>5, <1>6, <1>7, <1>8, InvalMove DEF p

LEMMA InvInvalidateMap ==
  ASSUME PrefetchInv, NEW i \in Invalidators, InvalidateMap(i)
  PROVE  PrefetchInv'
<1> DEFINE p == inval[i].path
<1>1. /\ inval[i].pc = "removed" /\ map' = [map EXCEPT ![p] = <<>>]
      /\ inval' = [inval EXCEPT ![i].pc = "settling"]
      /\ UNCHANGED <<version, cache, sizeBytes, pathGenerations, task, getter, floor>>
  BY DEF InvalidateMap
<1>2. /\ p \in Paths /\ inval \in [Invalidators -> AnyInval] /\ map \in [Paths -> Seq(AnyMapping)]
      /\ InvalOk(i)
  BY <1>1 DEF PrefetchInv, PrefetchTypes, InvalOk
<1>3. inval'[i].path = p
  BY <1>1, <1>2 DEF AnyInval
<1>4. p' = p
  BY <1>3
<1>5. inval[i].clean => Uncached(p)
  BY <1>1, <1>2 DEF InvalOk, Vouches
<1> HIDE DEF p
<1>6. /\ map' \in [Paths -> Seq(AnyMapping)] /\ map'[p] = <<>>
      /\ \A q \in Paths : q # p => map'[q] = map[q]
  BY <1>1, <1>2
<1>7. cache' \in Seq(Entry) /\ CacheAccounted'
  BY <1>1 DEF PrefetchInv, PrefetchTypes, CacheAccounted
<1>8. InvalidateClears'
  <2>1. ASSUME NEW q \in Paths, NEW j \in DOMAIN map'[q]
        PROVE  \E h \in DOMAIN map[q] : map'[q][j] = map[q][h]
    BY <1>6, <2>1
  <2>2. \A j \in DOMAIN cache' : \E h \in DOMAIN cache : cache'[j] = cache[h]
    BY <1>1
  <2>3. floor' = floor
    BY <1>1
  <2>4. QED
    BY <2>1, <2>2, <2>3, ClearsKept
<1>9. ASSUME NEW q \in Paths PROVE /\ Uncached(q) => Uncached(q)'
                                   /\ Unmapping(q) => Unmapping(q)'
  <2>1. Uncached(q) => Uncached(q)'
    BY <1>1 DEF Uncached
  <2>2. CASE q = p
    BY <1>6, <2>1, <2>2 DEF Unmapping
  <2>3. CASE q # p
    <3>1. map'[q] = map[q] /\ task' = task
      BY <1>1, <1>6, <2>3
    <3>2. QED
      BY <2>1, <3>1 DEF Unmapping, Unmaps, UnderWay
  <2>4. QED
    BY <2>2, <2>3
<1>10. Unmapping(p)' /\ (inval[i].clean => Uncached(p)')
  BY <1>1, <1>4, <1>5, <1>6 DEF Unmapping, Uncached
<1>11. QED
  BY <1>1, <1>6, <1>7, <1>8, <1>9, <1>10, InvalMove DEF p

LEMMA InvSettle == ASSUME PrefetchInv, NEW i \in Invalidators, Settle(i) PROVE PrefetchInv'
<1> DEFINE p == inval[i].path
<1>1. /\ inval[i].pc = "settling" /\ (~Flying(p) \/ ~inval[i].clean)
      /\ floor' = IF inval[i].clean /\ inval[i].seen > floor[p]
                  THEN [floor EXCEPT ![p] = inval[i].seen] ELSE floor
      /\ inval' = [inval EXCEPT ![i] = [@ EXCEPT !.pc = "idle", !.path = NoKey, !.seen = 0,
                                                 !.clean = FALSE]]
      /\ UNCHANGED <<version, map, cache, sizeBytes, pathGenerations, task, getter>>
  BY DEF Settle, sharedVars
<1>2. /\ PrefetchTypes /\ p \in Paths /\ inval \in [Invalidators -> AnyInval] /\ InvalOk(i)
      /\ floor \in [Paths -> Nat] /\ inval[i] \in AnyInval
  BY <1>1 DEF PrefetchInv, PrefetchTypes, InvalOk
<1>3. /\ inval' \in [Invalidators -> AnyInval] /\ inval'[i].pc = "idle" /\ inval'[i].clean = FALSE
      /\ \A h \in Invalidators : h # i => inval'[h] = inval[h]
  <2>1. [inval[i] EXCEPT !.pc = "idle", !.path = NoKey, !.seen = 0, !.clean = FALSE] \in AnyInval
    BY <1>2 DEF AnyInval
  <2>2. QED
    BY <1>1, <1>2, <2>1 DEF AnyInval
<1>4. ASSUME inval[i].clean
      PROVE  /\ Quiet(p) /\ Uncached(p) /\ map[p] = <<>> /\ \A t \in Tasks : ~UnderWay(t, p)
             /\ inval[i].seen \in Nat /\ inval[i].seen <= version[p]
  <2>1. \A t \in Tasks : ~UnderWay(t, p)
    BY <1>1, <1>4 DEF Flying, UnderWay
  <2>2. Vouches(i, p)
    BY <1>2, <1>4 DEF InvalOk
  <2>3. map[p] = <<>>
    BY <1>1, <2>1, <2>2 DEF Vouches, Unmapping, Unmaps
  <2>4. inval[i].seen \in Nat
    BY <1>2 DEF AnyInval
  <2>5. QED
    BY <1>1, <2>1, <2>2, <2>3, <2>4 DEF Vouches
<1>5. /\ floor' \in [Paths -> Nat]
      /\ \A q \in Paths : \/ floor'[q] = floor[q]
                          \/ q = p /\ inval[i].clean /\ floor'[q] = inval[i].seen
  BY <1>1, <1>2, <1>4
<1> HIDE DEF p
<1>6. PrefetchTypes'
  BY <1>1, <1>2, <1>3, <1>5 DEF PrefetchTypes
<1>7. \A q \in Paths : floor'[q] <= version'[q]
  BY <1>1, <1>4, <1>5 DEF PrefetchInv
<1>8. CacheAccounted'
  BY <1>1 DEF PrefetchInv, CacheAccounted
<1>9. InvalidateClears'
  <2>1. ASSUME NEW q \in Paths, floor'[q] # floor[q] PROVE Uncached(q) /\ map[q] = <<>>
    BY <1>4, <1>5, <2>1
  <2>2. ASSUME NEW q \in Paths, NEW e \in ToSet(cache), e.key[1] = q PROVE e.data >= floor'[q]
    <3>1. ~Uncached(q)
      BY <2>2 DEF Uncached, ToSet
    <3>2. QED
      BY <2>1, <2>2, <3>1 DEF PrefetchInv, InvalidateClears
  <2>3. ASSUME NEW q \in Paths, NEW m \in ToSet(map[q]) PROVE m.data >= floor'[q]
    <3>1. map[q] # <<>>
      BY <2>3 DEF ToSet
    <3>2. QED
      BY <2>1, <2>3, <3>1 DEF PrefetchInv, InvalidateClears
  <2>4. QED
    BY <1>1, <2>2, <2>3 DEF InvalidateClears
<1>10. ASSUME NEW t \in Tasks PROVE TaskOk(t)'
  <2>1. TaskOk(t) /\ task'[t] = task[t] /\ pathGenerations' = pathGenerations
    BY <1>1 DEF PrefetchInv
  <2>2. ASSUME task[t].pc \in {"read", "got", "tested"}
        PROVE  floor'[task[t].key[1]] = floor[task[t].key[1]]
    <3>1. UnderWay(t, task[t].key[1]) /\ task[t].key[1] \in Paths
      BY <2>1, <2>2 DEF UnderWay, TaskOk, Keys
    <3>2. QED
      BY <1>4, <1>5, <3>1
  <2>3. QED
    BY <2>1, <2>2 DEF TaskOk
<1>11. ASSUME NEW g \in Getters PROVE GetterOk(g)'
  <2>1. GetterOk(g) /\ getter'[g] = getter[g]
    BY <1>1 DEF PrefetchInv
  <2>2. ASSUME getter[g].pc = "got"
        PROVE  floor'[getter[g].key[1]] = floor[getter[g].key[1]]
    <3>1. getter[g].key[1] \in Paths
      BY <2>1, <2>2 DEF GetterOk, Keys
    <3>2. QED
      BY <1>4, <1>5, <2>2, <3>1 DEF Quiet
  <2>3. QED
    BY <2>1, <2>2 DEF GetterOk
<1>12. ASSUME NEW h \in Invalidators PROVE InvalOk(h)'
  <2>1. CASE h = i
    BY <1>3, <2>1 DEF InvalOk
  <2>2. CASE h # i
    <3>1. version' \in [Paths -> Nat] /\ \A q \in Paths : version'[q] >= version[q]
      BY <1>1, <1>2 DEF PrefetchTypes
    <3>2. inval'[h] = inval[h]
      BY <1>3, <2>2
    <3>3. \A q \in Paths : Keeps(q)
      BY <1>1 DEF Keeps, Quiet, Overtaken, Uncached, Unmapping, Unmaps, UnderWay, Caught, Untested
    <3>4. QED
      BY <3>1, <3>2, <3>3, InvalKept
  <2>3. QED
    BY <2>1, <2>2
<1>13. QED
  BY <1>6, <1>7, <1>8, <1>9, <1>10, <1>11, <1>12 DEF PrefetchInv

LEMMA InvFileChanges == ASSUME PrefetchInv, NEW p \in Paths, FileChanges(p) PROVE PrefetchInv'
<1>1. /\ version' = [version EXCEPT ![p] = @ + 1]
      /\ UNCHANGED <<map, cache, sizeBytes, pathGenerations, task, getter, inval, floor>>
  BY DEF FileChanges, sharedVars
<1>2. PrefetchTypes /\ version \in [Paths -> Nat] /\ floor \in [Paths -> Nat]
  BY DEF PrefetchInv, PrefetchTypes
<1>3. version' \in [Paths -> Nat] /\ \A q \in Paths : version'[q] >= version[q]
  BY <1>1, <1>2
<1>4. \A q \in Paths : floor'[q] <= version'[q]
  <2>1. ASSUME NEW q \in Paths PROVE floor[q] <= version'[q]
    <3>1. floor[q] \in Nat /\ version[q] \in Nat /\ version'[q] \in Nat /\ floor[q] <= version[q]
      BY <1>2, <1>3 DEF PrefetchInv
    <3>2. QED
      BY <1>3, <3>1
  <2>2. QED
    BY <1>1, <2>1
<1>5. PrefetchTypes'
  BY <1>1, <1>2, <1>3 DEF PrefetchTypes
<1>6. /\ CacheAccounted' /\ InvalidateClears'
      /\ \A t \in Tasks : TaskOk(t)'
      /\ \A g \in Getters : GetterOk(g)'
  BY <1>1 DEF PrefetchInv, CacheAccounted, InvalidateClears, TaskOk, GetterOk
<1>7. \A q \in Paths : Keeps(q)
  BY <1>1 DEF Keeps, Quiet, Overtaken, Uncached, Unmapping, Unmaps, UnderWay, Caught, Untested
<1>8. ASSUME NEW h \in Invalidators PROVE InvalOk(h)'
  <2>1. inval'[h] = inval[h]
    BY <1>1
  <2>2. QED
    BY <1>3, <1>7, <2>1, InvalKept
<1>9. QED
  BY <1>4, <1>5, <1>6, <1>8 DEF PrefetchInv

LEMMA PrefetchInvStep == PrefetchInv /\ [PrefetchNext]_prefetchVars => PrefetchInv'
<1> SUFFICES ASSUME PrefetchInv, [PrefetchNext]_prefetchVars PROVE PrefetchInv'
  OBVIOUS
<1>1. ASSUME NEW t \in Tasks,
             TaskStep(t) \/ PoolLoses(t) \/ \E k \in Keys : PrefetchAsync(t, k)
      PROVE  PrefetchInv'
  BY <1>1, InvMapRead, InvMapPush, InvTaskGetRegion, InvTestGeneration, InvPutOrUnmap,
     InvEraseInProgress, InvPoolLoses, InvPrefetchAsync DEF TaskStep
<1>2. ASSUME NEW g \in Getters,
             TryGetMap(g) \/ TryGetPut(g) \/ \E k \in Keys : TryGetCache(g, k)
      PROVE  PrefetchInv'
  BY <1>2, InvTryGetMap, InvTryGetPut, InvTryGetCache
<1>3. ASSUME NEW i \in Invalidators,
             InvalidateCache(i) \/ InvalidateMap(i) \/ Settle(i)
               \/ \E p \in Paths : BumpGeneration(i, p)
      PROVE  PrefetchInv'
  BY <1>3, InvInvalidateCache, InvInvalidateMap, InvSettle, InvBumpGeneration
<1>4. CASE UNCHANGED prefetchVars
  <2>1. UNCHANGED <<version, map, cache, sizeBytes, inProgress, pathGenerations, task, getter,
                    inval, floor>>
    BY <1>4 DEF prefetchVars
  <2>2. PrefetchTypes'
    BY <2>1 DEF PrefetchInv, PrefetchTypes
  <2>3. CacheAccounted' /\ InvalidateClears' /\ \A p \in Paths : floor'[p] <= version'[p]
    BY <2>1 DEF PrefetchInv, CacheAccounted, InvalidateClears
  <2>4. (\A t \in Tasks : TaskOk(t)') /\ (\A g \in Getters : GetterOk(g)')
    BY <2>1 DEF PrefetchInv, TaskOk, GetterOk
  <2>5. \A p \in Paths : Keeps(p)
    BY <2>1 DEF Keeps, Quiet, Overtaken, Uncached, Unmapping, Unmaps, UnderWay, Caught, Untested
  <2>6. version' \in [Paths -> Nat] /\ \A p \in Paths : version'[p] >= version[p]
    BY <2>1 DEF PrefetchInv, PrefetchTypes
  <2>7. ASSUME NEW i \in Invalidators PROVE InvalOk(i)'
    <3>1. inval'[i] = inval[i]
      BY <2>1
    <3>2. QED
      BY <2>5, <2>6, <3>1, InvalKept
  <2>8. QED
    BY <2>2, <2>3, <2>4, <2>7 DEF PrefetchInv
<1>5. QED
  BY <1>1, <1>2, <1>3, <1>4, InvFileChanges DEF PrefetchNext

LEMMA PrefetchInvariance == PrefetchSpec => []PrefetchInv
  BY PrefetchInvInit, PrefetchInvStep, PTL DEF PrefetchSpec

\* sizeBytes_ is the size of the entries held, within the capacity, and a key is
\* held once, however many prefetches, TryGets and invalidations interleave
\* (io_cache_manager.cc).
THEOREM CacheSize == PrefetchSpec => []CacheAccounted
<1>1. PrefetchInv => CacheAccounted
  BY DEF PrefetchInv
<1>2. QED
  BY <1>1, PrefetchInvariance, PTL

\* After an invalidation that nothing on its path disturbed, and the end of the
\* prefetches it overtook, nothing older than the file it saw is cached or
\* mapped, for any number of files, prefetches, getters and invalidations.
THEOREM InvalidationHolds == PrefetchSpec => []InvalidateClears
<1>1. PrefetchInv => InvalidateClears
  BY DEF PrefetchInv
<1>2. QED
  BY <1>1, PrefetchInvariance, PTL

-----------------------------------------------------------------------------
(* The prefetch manager implements a fresh cache                           *)

\* What is held or under way was read from the file: it is not newer.
KnownShared ==
  /\ \A j \in DOMAIN cache : cache[j].data <= version[cache[j].key[1]]
  /\ \A p \in Paths : \A j \in DOMAIN map[p] : map[p][j].data <= version[p]
KnownTask(t) ==
  task[t].pc \in {"read", "got", "tested"} => task[t].data <= version[task[t].key[1]]
KnownGetter(g) == getter[g].pc = "got" => getter[g].data <= version[getter[g].key[1]]
KnownInv ==
  /\ KnownShared
  /\ \A t \in Tasks : KnownTask(t)
  /\ \A g \in Getters : KnownGetter(g)

\* A step after which nothing new is held, and one after which a version d of p
\* is held as well.
OldEntry(j) == \E i \in DOMAIN cache : cache'[j] = cache[i]
OldMapping(p, j) == \E i \in DOMAIN map[p] : map'[p][j] = map[p][i]
Kept ==
  /\ version' = version /\ floor' = floor
  /\ \A j \in DOMAIN cache' : OldEntry(j)
  /\ \A p \in Paths : \A j \in DOMAIN map'[p] : OldMapping(p, j)
Added(p, d) ==
  /\ version' = version /\ floor' = floor
  /\ \A j \in DOMAIN cache' :
       OldEntry(j) \/ (cache'[j].key[1] = p /\ cache'[j].data = d)
  /\ \A q \in Paths : \A j \in DOMAIN map'[q] :
       OldMapping(q, j) \/ (q = p /\ map'[q][j].data = d)
KeptOrAdded ==
  Kept \/ \E p \in Paths : \E d \in floor[p] .. version[p] : Added(p, d)

LEMMA KnownSharedStep ==
  ASSUME PrefetchInv, KnownInv, KeptOrAdded
  PROVE  KnownShared'
<1>1. ASSUME NEW p \in Paths, NEW d \in floor[p] .. version[p], Added(p, d) PROVE KnownShared'
  <2>0. floor \in [Paths -> Nat] /\ version \in [Paths -> Nat]
    BY DEF PrefetchInv, PrefetchTypes
  <2>1. d <= version[p]
    BY <2>0
  <2>2. ASSUME NEW j \in DOMAIN cache' PROVE cache'[j].data <= version'[cache'[j].key[1]]
    <3>1. CASE OldEntry(j)
      BY <1>1, <3>1 DEF KnownInv, KnownShared, Added, OldEntry
    <3>2. CASE cache'[j].key[1] = p /\ cache'[j].data = d
      BY <1>1, <2>1, <3>2 DEF Added
    <3>3. QED
      BY <1>1, <3>1, <3>2 DEF Added
  <2>3. ASSUME NEW q \in Paths, NEW j \in DOMAIN map'[q] PROVE map'[q][j].data <= version'[q]
    <3>1. CASE OldMapping(q, j)
      BY <1>1, <3>1 DEF KnownInv, KnownShared, Added, OldMapping
    <3>2. CASE q = p /\ map'[q][j].data = d
      BY <1>1, <2>1, <3>2 DEF Added
    <3>3. QED
      BY <1>1, <3>1, <3>2 DEF Added
  <2>4. QED
    BY <2>2, <2>3 DEF KnownShared
<1>2. CASE Kept
  <2>1. ASSUME NEW j \in DOMAIN cache' PROVE cache'[j].data <= version'[cache'[j].key[1]]
    BY <1>2 DEF KnownInv, KnownShared, Kept, OldEntry
  <2>2. ASSUME NEW q \in Paths, NEW j \in DOMAIN map'[q] PROVE map'[q][j].data <= version'[q]
    BY <1>2 DEF KnownInv, KnownShared, Kept, OldMapping
  <2>3. QED
    BY <2>1, <2>2 DEF KnownShared
<1>3. QED
  BY <1>1, <1>2 DEF KeptOrAdded

\* The steps that only move a prefetch or a TryGet, an invalidation, or a key.
LEMMA NothingHeld ==
  ASSUME UNCHANGED <<version, floor, cache, map>>
  PROVE  Kept
  BY DEF Kept, OldEntry, OldMapping

LEMMA KnownMapRead ==
  ASSUME PrefetchInv, KnownInv, NEW t \in Tasks, MapRead(t)
  PROVE  KeptOrAdded /\ KnownInv'
<1>1. /\ task[t].pc = "queued"
      /\ \/ task' = [task EXCEPT ![t].pc = "read", ![t].data = version[task[t].key[1]]]
         \/ task' = [task EXCEPT ![t].pc = "ending"]
      /\ UNCHANGED <<version, map, cache, getter, floor>>
  BY DEF MapRead, sharedVars
<1>2. task \in [Tasks -> AnyTask] /\ version[task[t].key[1]] \in Nat
  BY <1>1, TaskFacts
<1>3. KnownTask(t)' /\ \A u \in Tasks : u # t => task'[u] = task[u]
  BY <1>1, <1>2 DEF KnownTask, AnyTask
<1>4. \A u \in Tasks : KnownTask(u)'
  BY <1>1, <1>3 DEF KnownInv, KnownTask
<1>5. \A g \in Getters : KnownGetter(g)'
  BY <1>1 DEF KnownInv, KnownGetter
<1>6. KeptOrAdded
  BY <1>1, NothingHeld DEF KeptOrAdded
<1>7. QED
  BY <1>4, <1>5, <1>6, KnownSharedStep DEF KnownInv

LEMMA KnownMapPush ==
  ASSUME PrefetchInv, KnownInv, NEW t \in Tasks, MapPush(t)
  PROVE  KeptOrAdded /\ KnownInv'
<1> DEFINE p == task[t].key[1]
           d == task[t].data
           m == [region |-> Mapped(task[t].key[2]), data |-> d]
<1>1. /\ task[t].pc = "read" /\ map' = [map EXCEPT ![p] = Append(@, m)]
      /\ task' = [task EXCEPT ![t].pc = "mapped", ![t].data = NoData]
      /\ UNCHANGED <<version, cache, getter, floor>>
  BY DEF MapPush
<1>2. /\ task \in [Tasks -> AnyTask] /\ p \in Paths /\ map \in [Paths -> Seq(AnyMapping)]
      /\ floor[p] \in Nat /\ version[p] \in Nat
  BY <1>1, TaskFacts
<1>3. d \in floor[p] .. version[p]
  <2>1. TaskOk(t) /\ KnownTask(t)
    BY DEF PrefetchInv, KnownInv
  <2>2. QED
    BY <1>1, <1>2, <2>1 DEF TaskOk, KnownTask
<1>4. \A u \in Tasks : KnownTask(u)'
  BY <1>1, <1>2 DEF KnownInv, KnownTask, AnyTask
<1>5. \A g \in Getters : KnownGetter(g)'
  BY <1>1 DEF KnownInv, KnownGetter
<1>6. m.data = d
  OBVIOUS
<1> HIDE DEF m, d, p
<1>7. ASSUME NEW q \in Paths, NEW j \in DOMAIN map'[q]
      PROVE  OldMapping(q, j) \/ (q = p /\ map'[q][j].data = d)
  <2>1. CASE q # p
    BY <1>1, <1>2, <2>1 DEF OldMapping
  <2>2. CASE q = p
    <3>1. map[p] \in Seq(AnyMapping) /\ map'[p] = Append(map[p], m)
      BY <1>1, <1>2
    <3>2. \/ j \in DOMAIN map[p] /\ map'[p][j] = map[p][j]
          \/ map'[p][j] = m
      BY <2>2, <3>1
    <3>3. QED
      BY <1>6, <2>2, <3>2 DEF OldMapping
  <2>3. QED
    BY <2>1, <2>2
<1>8. \A j \in DOMAIN cache' : OldEntry(j)
  BY <1>1 DEF OldEntry
<1>9. Added(p, d)
  BY <1>1, <1>7, <1>8 DEF Added
<1>10. KeptOrAdded
  BY <1>2, <1>3, <1>9 DEF KeptOrAdded
<1>11. QED
  BY <1>4, <1>5, <1>10, KnownSharedStep DEF KnownInv

LEMMA KnownTaskGetRegion ==
  ASSUME PrefetchInv, KnownInv, NEW t \in Tasks, TaskGetRegion(t)
  PROVE  KeptOrAdded /\ KnownInv'
<1> DEFINE p == task[t].key[1]
           d == GetRegion(p, task[t].key[2])
<1>1. /\ task[t].pc = "mapped"
      /\ task' = [task EXCEPT ![t].data = d, ![t].pc = IF d = NoData THEN "ending" ELSE "got"]
      /\ UNCHANGED <<version, map, cache, getter, floor>>
  BY DEF TaskGetRegion, sharedVars
<1>2. task \in [Tasks -> AnyTask] /\ p \in Paths
  BY <1>1, TaskFacts
<1>3. d = NoData \/ d <= version[p]
  BY <1>2, GetRegionIs DEF KnownInv, KnownShared
<1> HIDE DEF d
<1>4. KnownTask(t)' /\ \A u \in Tasks : u # t => task'[u] = task[u]
  BY <1>1, <1>2, <1>3 DEF KnownTask, AnyTask
<1>5. \A u \in Tasks : KnownTask(u)'
  BY <1>1, <1>4 DEF KnownInv, KnownTask
<1>6. \A g \in Getters : KnownGetter(g)'
  BY <1>1 DEF KnownInv, KnownGetter
<1>7. KeptOrAdded
  BY <1>1, NothingHeld DEF KeptOrAdded
<1>8. QED
  BY <1>5, <1>6, <1>7, KnownSharedStep DEF KnownInv

LEMMA KnownPutOrUnmap ==
  ASSUME PrefetchInv, KnownInv, NEW t \in Tasks, PutOrUnmap(t)
  PROVE  KeptOrAdded /\ KnownInv'
<1> DEFINE k == task[t].key
           p == k[1]
           d == task[t].data
<1>1. /\ task[t].pc = "tested" /\ task' = [task EXCEPT ![t].pc = "ending"]
      /\ UNCHANGED <<version, getter, floor>>
      /\ \/ map' = [map EXCEPT ![p] = <<>>] /\ cache' = cache
         \/ CachePut(k, d) /\ map' = map
  BY DEF PutOrUnmap
<1>2. /\ task \in [Tasks -> AnyTask] /\ k \in Keys /\ p \in Paths
      /\ map \in [Paths -> Seq(AnyMapping)] /\ floor[p] \in Nat /\ version[p] \in Nat
  BY <1>1, TaskFacts
<1>3. d \in Nat /\ d \in floor[p] .. version[p]
  <2>1. TaskOk(t) /\ KnownTask(t)
    BY DEF PrefetchInv, KnownInv
  <2>2. QED
    BY <1>1, <1>2, <2>1 DEF TaskOk, KnownTask
<1>4. \A u \in Tasks : KnownTask(u)'
  BY <1>1, <1>2 DEF KnownInv, KnownTask, AnyTask
<1>5. \A g \in Getters : KnownGetter(g)'
  BY <1>1 DEF KnownInv, KnownGetter
<1>6. CASE map' = [map EXCEPT ![p] = <<>>] /\ cache' = cache
  <2>1. \A q \in Paths : \A j \in DOMAIN map'[q] : OldMapping(q, j)
    BY <1>2, <1>6 DEF OldMapping
  <2>2. \A j \in DOMAIN cache' : OldEntry(j)
    BY <1>6 DEF OldEntry
  <2>3. KeptOrAdded
    BY <1>1, <2>1, <2>2 DEF KeptOrAdded, Kept
  <2>4. QED
    BY <1>4, <1>5, <2>3, KnownSharedStep DEF KnownInv
<1>7. CASE CachePut(k, d) /\ map' = map
  <2> HIDE DEF d, k
  <2>1. \A j \in DOMAIN cache' : OldEntry(j) \/ cache'[j] = [key |-> k, data |-> d]
    BY <1>2, <1>3, <1>7, CachePutFacts DEF OldEntry
  <2>2. \A q \in Paths : \A j \in DOMAIN map'[q] : OldMapping(q, j)
    BY <1>7 DEF OldMapping
  <2>3. Added(p, d)
    BY <1>1, <2>1, <2>2 DEF Added
  <2>4. KeptOrAdded
    BY <1>2, <1>3, <2>3 DEF KeptOrAdded
  <2>5. QED
    BY <1>4, <1>5, <2>4, KnownSharedStep DEF KnownInv
<1>8. QED
  BY <1>1, <1>6, <1>7

\* Steps of a prefetch that leave the cache, the map and its data alone.
LEMMA KnownQuietTask ==
  ASSUME PrefetchInv, KnownInv, NEW t \in Tasks,
         TestGeneration(t) \/ EraseInProgress(t) \/ PoolLoses(t)
           \/ \E k \in Keys : PrefetchAsync(t, k)
  PROVE  KeptOrAdded /\ KnownInv'
<1>1. task \in [Tasks -> AnyTask]
  BY DEF PrefetchInv, PrefetchTypes
<1>2. /\ UNCHANGED <<version, map, cache, getter, floor>>
      /\ \A u \in Tasks : u # t => task'[u] = task[u]
      /\ \/ task'[t].pc \notin {"read", "got", "tested"}
         \/ /\ task[t].pc = "got" /\ task'[t].key = task[t].key
            /\ task'[t].data = task[t].data
  <2>1. CASE TestGeneration(t)
    BY <1>1, <2>1 DEF TestGeneration, sharedVars, AnyTask
  <2>2. CASE EraseInProgress(t)
    BY <1>1, <2>2 DEF EraseInProgress, NewTask
  <2>3. CASE PoolLoses(t)
    BY <1>1, <2>3 DEF PoolLoses, sharedVars, AnyTask
  <2>4. ASSUME NEW k \in Keys, PrefetchAsync(t, k)
        PROVE  /\ UNCHANGED <<version, map, cache, getter, floor>>
               /\ \A u \in Tasks : u # t => task'[u] = task[u]
               /\ task'[t].pc = "queued"
    <3>1. /\ UNCHANGED <<version, map, cache, getter, floor>>
          /\ task' = [task EXCEPT ![t].pc = "queued", ![t].key = k,
                                  ![t].gen = pathGenerations[k[1]]]
      BY <2>4 DEF PrefetchAsync
    <3>2. task[t] \in AnyTask
      BY <1>1
    <3>3. QED
      BY <1>1, <3>1, <3>2 DEF AnyTask
  <2>5. QED
    BY <2>1, <2>2, <2>3, <2>4
<1>3. \A u \in Tasks : KnownTask(u)'
  BY <1>2 DEF KnownInv, KnownTask
<1>4. \A g \in Getters : KnownGetter(g)'
  BY <1>2 DEF KnownInv, KnownGetter
<1>5. KeptOrAdded
  BY <1>2, NothingHeld DEF KeptOrAdded
<1>6. QED
  BY <1>3, <1>4, <1>5, KnownSharedStep DEF KnownInv

LEMMA KnownTryGetCache ==
  ASSUME PrefetchInv, KnownInv, NEW g \in Getters, NEW k \in Keys, TryGetCache(g, k)
  PROVE  KeptOrAdded /\ KnownInv'
<1>1. /\ UNCHANGED <<version, map, sizeBytes, task, floor>>
      /\ \/ CacheGet(k) /\ getter' = getter
         \/ /\ getter' = [getter EXCEPT ![g] = [Put0 EXCEPT !.pc = "missed", !.key = k]]
            /\ cache' = cache
  BY DEF TryGetCache
<1>2. getter \in [Getters -> AnyGetter]
  BY DEF PrefetchInv, PrefetchTypes
<1>3. \A h \in Getters : KnownGetter(h)'
  <2>1. \A h \in Getters : getter'[h] = getter[h] \/ getter'[h].pc = "missed"
    BY <1>1, <1>2 DEF Put0
  <2>2. QED
    BY <1>1, <2>1 DEF KnownInv, KnownGetter
<1>4. \A t \in Tasks : KnownTask(t)'
  BY <1>1 DEF KnownInv, KnownTask
<1>5. \A j \in DOMAIN cache' : OldEntry(j)
  BY <1>1, CacheGetFacts DEF OldEntry
<1>6. Kept
  BY <1>1, <1>5 DEF Kept, OldMapping
<1>7. QED
  BY <1>3, <1>4, <1>6, KnownSharedStep DEF KnownInv, KeptOrAdded

LEMMA KnownTryGetMap ==
  ASSUME PrefetchInv, KnownInv, NEW g \in Getters, TryGetMap(g)
  PROVE  KeptOrAdded /\ KnownInv'
<1> DEFINE p == getter[g].key[1]
           d == GetRegion(p, getter[g].key[2])
<1>1. /\ getter[g].pc = "missed"
      /\ getter' = [getter EXCEPT ![g] = IF d = NoData THEN Put0
                                         ELSE [@ EXCEPT !.pc = "got", !.data = d]]
      /\ UNCHANGED <<version, map, cache, task, floor>>
  BY DEF TryGetMap, sharedVars
<1>2. getter \in [Getters -> AnyGetter] /\ p \in Paths
  BY <1>1 DEF PrefetchInv, PrefetchTypes, GetterOk, Keys
<1>3. d = NoData \/ d <= version[p]
  BY <1>2, GetRegionIs DEF KnownInv, KnownShared
<1> HIDE DEF d
<1>4. KnownGetter(g)'
  <2>1. CASE d = NoData
    BY <1>1, <1>2, <2>1 DEF KnownGetter, Put0
  <2>2. CASE d # NoData
    BY <1>1, <1>2, <1>3, <2>2 DEF KnownGetter, AnyGetter
  <2>3. QED
    BY <2>1, <2>2
<1>5. \A h \in Getters : KnownGetter(h)'
  BY <1>1, <1>4 DEF KnownInv, KnownGetter
<1>6. \A t \in Tasks : KnownTask(t)'
  BY <1>1 DEF KnownInv, KnownTask
<1>7. KeptOrAdded
  BY <1>1, NothingHeld DEF KeptOrAdded
<1>8. QED
  BY <1>5, <1>6, <1>7, KnownSharedStep DEF KnownInv

LEMMA KnownTryGetPut ==
  ASSUME PrefetchInv, KnownInv, NEW g \in Getters, TryGetPut(g)
  PROVE  KeptOrAdded /\ KnownInv'
<1> DEFINE k == getter[g].key
           p == k[1]
           d == getter[g].data
<1>1. /\ getter[g].pc = "got" /\ CachePut(k, d) /\ getter' = [getter EXCEPT ![g] = Put0]
      /\ UNCHANGED <<version, map, task, floor>>
  BY DEF TryGetPut
<1>2. getter \in [Getters -> AnyGetter] /\ GetterOk(g) /\ KnownGetter(g)
  BY DEF PrefetchInv, PrefetchTypes, KnownInv
<1>3. k \in Keys /\ p \in Paths /\ d \in Nat /\ floor[p] \in Nat /\ version[p] \in Nat
  BY <1>1, <1>2 DEF GetterOk, Keys, PrefetchInv, PrefetchTypes
<1>4. d \in floor[p] .. version[p]
  BY <1>1, <1>2, <1>3 DEF GetterOk, KnownGetter
<1>5. \A h \in Getters : KnownGetter(h)'
  <2>1. \A h \in Getters : getter'[h] = getter[h] \/ getter'[h].pc = "idle"
    BY <1>1, <1>2 DEF Put0
  <2>2. QED
    BY <1>1, <2>1 DEF KnownInv, KnownGetter
<1>6. \A t \in Tasks : KnownTask(t)'
  BY <1>1 DEF KnownInv, KnownTask
<1> HIDE DEF d, k
<1>7. \A j \in DOMAIN cache' : OldEntry(j) \/ cache'[j] = [key |-> k, data |-> d]
  BY <1>1, <1>3, CachePutFacts DEF OldEntry
<1>8. \A q \in Paths : \A j \in DOMAIN map'[q] : OldMapping(q, j)
  BY <1>1 DEF OldMapping
<1>9. Added(p, d)
  BY <1>1, <1>7, <1>8 DEF Added
<1>10. KeptOrAdded
  BY <1>3, <1>4, <1>9 DEF KeptOrAdded
<1>11. QED
  BY <1>5, <1>6, <1>10, KnownSharedStep DEF KnownInv

LEMMA KnownInvalidates ==
  ASSUME PrefetchInv, KnownInv, NEW i \in Invalidators,
         InvalidateCache(i) \/ InvalidateMap(i) \/ \E p \in Paths : BumpGeneration(i, p)
  PROVE  KeptOrAdded /\ KnownInv'
<1>1. UNCHANGED <<version, task, getter, floor>>
  BY DEF InvalidateCache, InvalidateMap, BumpGeneration
<1>2. Kept
  <2>1. CASE InvalidateCache(i)
    <3>1. PICK p \in Paths : p = inval[i].path
      BY <2>1 DEF InvalidateCache, PrefetchInv, InvalOk
    <3>2. RemoveByPrefix(p) /\ map' = map
      BY <2>1, <3>1 DEF InvalidateCache
    <3>3. \A j \in DOMAIN cache' : OldEntry(j)
      BY <3>2, RemoveFacts DEF OldEntry
    <3>4. QED
      BY <1>1, <3>2, <3>3 DEF Kept, OldMapping
  <2>2. CASE InvalidateMap(i)
    <3>1. cache' = cache /\ map' = [map EXCEPT ![inval[i].path] = <<>>]
      BY <2>2 DEF InvalidateMap
    <3>2. map \in [Paths -> Seq(AnyMapping)]
      BY DEF PrefetchInv, PrefetchTypes
    <3>3. \A q \in Paths : \A j \in DOMAIN map'[q] : OldMapping(q, j)
      BY <3>1, <3>2 DEF OldMapping
    <3>4. QED
      BY <1>1, <3>1, <3>3 DEF Kept, OldEntry
  <2>3. CASE \E p \in Paths : BumpGeneration(i, p)
    <3>1. cache' = cache /\ map' = map
      BY <2>3 DEF BumpGeneration
    <3>2. QED
      BY <1>1, <3>1, NothingHeld
  <2>4. QED
    BY <2>1, <2>2, <2>3
<1>3. (\A t \in Tasks : KnownTask(t)') /\ (\A g \in Getters : KnownGetter(g)')
  BY <1>1 DEF KnownInv, KnownTask, KnownGetter
<1>4. QED
  BY <1>2, <1>3, KnownSharedStep DEF KnownInv, KeptOrAdded

LEMMA KnownSettle ==
  ASSUME PrefetchInv, KnownInv, NEW i \in Invalidators, Settle(i)
  PROVE  KnownInv'
<1>1. UNCHANGED <<version, cache, map, task, getter>>
  BY DEF Settle, sharedVars
<1>2. QED
  BY <1>1 DEF KnownInv, KnownShared, KnownTask, KnownGetter

LEMMA KnownFileChanges ==
  ASSUME PrefetchInv, KnownInv, NEW p \in Paths, FileChanges(p)
  PROVE  KnownInv'
<1>1. /\ version' = [version EXCEPT ![p] = @ + 1]
      /\ UNCHANGED <<map, cache, task, getter>>
  BY DEF FileChanges, sharedVars
<1>2. /\ version \in [Paths -> Nat] /\ cache \in Seq(Entry)
      /\ map \in [Paths -> Seq(AnyMapping)]
  BY DEF PrefetchInv, PrefetchTypes
<1>3. ASSUME NEW q \in Paths, NEW d \in Nat, d <= version[q] PROVE d <= version'[q]
  BY <1>1, <1>2, <1>3
<1>4. \A j \in DOMAIN cache' : cache'[j].data <= version'[cache'[j].key[1]]
  <2>1. ASSUME NEW j \in DOMAIN cache
        PROVE  cache[j].data \in Nat /\ cache[j].key[1] \in Paths
    <3>1. cache[j] \in Entry
      BY <1>2, <2>1
    <3>2. QED
      BY <3>1 DEF Entry, Keys
  <2>2. QED
    BY <1>1, <1>3, <2>1 DEF KnownInv, KnownShared
<1>5. \A q \in Paths : \A j \in DOMAIN map'[q] : map'[q][j].data <= version'[q]
  <2>1. ASSUME NEW q \in Paths, NEW j \in DOMAIN map[q] PROVE map[q][j].data \in Nat
    <3>1. map[q] \in Seq(AnyMapping)
      BY <1>2
    <3>2. map[q][j] \in AnyMapping
      BY <2>1, <3>1
    <3>3. QED
      BY <3>2 DEF AnyMapping
  <2>2. QED
    BY <1>1, <1>3, <2>1 DEF KnownInv, KnownShared
<1>6. \A t \in Tasks : KnownTask(t)'
  <2>1. ASSUME NEW t \in Tasks, task[t].pc \in {"read", "got", "tested"}
        PROVE  task[t].data \in Nat /\ task[t].key[1] \in Paths
    BY <2>1 DEF PrefetchInv, TaskOk, Keys
  <2>2. QED
    BY <1>1, <1>3, <2>1 DEF KnownInv, KnownTask
<1>7. \A g \in Getters : KnownGetter(g)'
  <2>1. ASSUME NEW g \in Getters, getter[g].pc = "got"
        PROVE  getter[g].data \in Nat /\ getter[g].key[1] \in Paths
    BY <2>1 DEF PrefetchInv, GetterOk, Keys
  <2>2. QED
    BY <1>1, <1>3, <2>1 DEF KnownInv, KnownGetter
<1>8. QED
  BY <1>4, <1>5, <1>6, <1>7 DEF KnownInv, KnownShared

LEMMA HeldAre ==
  ASSUME PrefetchInv, NEW p \in Paths, NEW v
  PROVE  v \in Held[p] <=> \/ \E j \in DOMAIN cache : cache[j].key[1] = p /\ cache[j].data = v
                           \/ \E j \in DOMAIN map[p] : map[p][j].data = v
<1>1. Held[p] = {e.data : e \in {e \in ToSet(cache) : e.key[1] = p}}
                  \cup {m.data : m \in ToSet(map[p])}
  BY DEF Held
<1>2. QED
  BY <1>1 DEF ToSet

LEMMA HeldType ==
  ASSUME PrefetchInv
  PROVE  Held \in [Paths -> SUBSET Nat]
<1>1. ASSUME NEW p \in Paths, NEW v \in Held[p] PROVE v \in Nat
  <2>1. cache \in Seq(Entry) /\ map[p] \in Seq(AnyMapping)
    BY DEF PrefetchInv, PrefetchTypes
  <2>2. ASSUME NEW j \in DOMAIN cache PROVE cache[j].data \in Nat
    <3>1. cache[j] \in Entry
      BY <2>1, <2>2
    <3>2. QED
      BY <3>1 DEF Entry
  <2>3. ASSUME NEW j \in DOMAIN map[p] PROVE map[p][j].data \in Nat
    <3>1. map[p][j] \in AnyMapping
      BY <2>1, <2>3
    <3>2. QED
      BY <3>1 DEF AnyMapping
  <2>4. QED
    BY <1>1, <2>2, <2>3, HeldAre
<1>2. Held = [p \in Paths |-> Held[p]]
  BY DEF Held
<1>3. QED
  BY <1>1, <1>2

LEMMA KeptDrops ==
  ASSUME PrefetchInv, Kept
  PROVE  Fresh!Drop
<1>1. ASSUME NEW p \in Paths, NEW v \in Held'[p] PROVE v \in Held[p]
  <2>1. \/ \E j \in DOMAIN cache' : cache'[j].key[1] = p /\ cache'[j].data = v
        \/ \E j \in DOMAIN map'[p] : map'[p][j].data = v
    BY <1>1 DEF Held, ToSet
  <2>2. \/ \E j \in DOMAIN cache : cache[j].key[1] = p /\ cache[j].data = v
        \/ \E j \in DOMAIN map[p] : map[p][j].data = v
    BY <2>1 DEF Kept, OldEntry, OldMapping
  <2>3. QED
    BY <2>2, HeldAre
<1>2. Held' \in [Paths -> SUBSET Nat]
  <2>1. Held' = [p \in Paths |-> Held'[p]]
    BY DEF Held
  <2>2. QED
    BY <1>1, <2>1, HeldType
<1>3. QED
  BY <1>1, <1>2 DEF Fresh!Drop, Kept

LEMMA AddedHolds ==
  ASSUME PrefetchInv, NEW p \in Paths, NEW d \in floor[p] .. version[p],
         Added(p, d)
  PROVE  Fresh!Hold(p, d)
<1>1. d \in Nat
  BY DEF PrefetchInv, PrefetchTypes
<1>2. ASSUME NEW q \in Paths, NEW v \in Held'[q] PROVE v \in Held[q] \/ (q = p /\ v = d)
  <2>1. \/ \E j \in DOMAIN cache' : cache'[j].key[1] = q /\ cache'[j].data = v
        \/ \E j \in DOMAIN map'[q] : map'[q][j].data = v
    BY <1>2 DEF Held, ToSet
  <2>2. \/ \E j \in DOMAIN cache : cache[j].key[1] = q /\ cache[j].data = v
        \/ \E j \in DOMAIN map[q] : map[q][j].data = v
        \/ q = p /\ v = d
    BY <2>1 DEF Added, OldEntry, OldMapping
  <2>3. QED
    BY <2>2, HeldAre
<1>3. Held' \in [Paths -> SUBSET Nat]
  <2>1. Held' = [q \in Paths |-> Held'[q]]
    BY DEF Held
  <2>2. QED
    BY <1>1, <1>2, <2>1, HeldType
<1>4. QED
  BY <1>2, <1>3 DEF Fresh!Hold, Added

LEMMA SettleVouches ==
  ASSUME PrefetchInv, NEW i \in Invalidators, Settle(i)
  PROVE  [Fresh!Next]_(Fresh!vars)
<1> DEFINE p == inval[i].path
           v == inval[i].seen
<1>1. /\ inval[i].pc = "settling" /\ (~Flying(p) \/ ~inval[i].clean)
      /\ floor' = IF inval[i].clean /\ v > floor[p] THEN [floor EXCEPT ![p] = v] ELSE floor
      /\ UNCHANGED <<version, map, cache>>
  BY DEF Settle, sharedVars
<1>2. Held' = Held
  BY <1>1 DEF Held
<1>3. CASE inval[i].clean /\ v > floor[p]
  <2>1. InvalOk(i) /\ inval[i] \in AnyInval /\ p \in Paths
    BY <1>1 DEF PrefetchInv, PrefetchTypes, InvalOk
  <2>2. Vouches(i, p)
    BY <1>3, <2>1 DEF InvalOk
  <2>3. Uncached(p) /\ map[p] = <<>>
    BY <1>1, <1>3, <2>2 DEF Vouches, Unmapping, Unmaps, Flying, UnderWay
  <2>4. Held[p] = {}
    BY <2>1, <2>3, HeldAre DEF Uncached
  <2>5. v \in floor[p] .. version[p]
    <3>1. v \in Nat /\ floor[p] \in Nat /\ version[p] \in Nat /\ v <= version[p]
      BY <2>1, <2>2 DEF Vouches, AnyInval, PrefetchInv, PrefetchTypes
    <3>2. QED
      BY <1>3, <3>1
  <2>6. Fresh!Vouch(p, v)
    BY <1>1, <1>2, <1>3, <2>4, <2>5 DEF Fresh!Vouch
  <2>7. QED
    BY <2>1, <2>5, <2>6 DEF Fresh!Next
<1>4. CASE ~(inval[i].clean /\ v > floor[p])
  BY <1>1, <1>2, <1>4 DEF Fresh!vars
<1>5. QED
  BY <1>3, <1>4

LEMMA KnownInvStep ==
  ASSUME PrefetchInv, KnownInv, [PrefetchNext]_prefetchVars
  PROVE  KnownInv'
<1>1. ASSUME NEW t \in Tasks,
             TaskStep(t) \/ PoolLoses(t) \/ \E k \in Keys : PrefetchAsync(t, k)
      PROVE  KnownInv'
  BY <1>1, KnownMapRead, KnownMapPush, KnownTaskGetRegion, KnownPutOrUnmap, KnownQuietTask
     DEF TaskStep
<1>2. ASSUME NEW g \in Getters,
             TryGetMap(g) \/ TryGetPut(g) \/ \E k \in Keys : TryGetCache(g, k)
      PROVE  KnownInv'
  BY <1>2, KnownTryGetMap, KnownTryGetPut, KnownTryGetCache
<1>3. ASSUME NEW i \in Invalidators,
             InvalidateCache(i) \/ InvalidateMap(i) \/ Settle(i)
               \/ \E p \in Paths : BumpGeneration(i, p)
      PROVE  KnownInv'
  BY <1>3, KnownInvalidates, KnownSettle
<1>4. CASE UNCHANGED prefetchVars
  BY <1>4 DEF prefetchVars, KnownInv, KnownShared, KnownTask, KnownGetter
<1>5. QED
  BY <1>1, <1>2, <1>3, <1>4, KnownFileChanges DEF PrefetchNext

LEMMA StepIsFresh ==
  ASSUME PrefetchInv, KnownInv, [PrefetchNext]_prefetchVars
  PROVE  [Fresh!Next]_(Fresh!vars)
<1>1. ASSUME KeptOrAdded PROVE [Fresh!Next]_(Fresh!vars)
  <2>1. CASE Kept
    BY <2>1, KeptDrops DEF Fresh!Next
  <2>2. ASSUME NEW p \in Paths, NEW d \in floor[p] .. version[p], Added(p, d)
        PROVE  Fresh!Next
    BY <2>2, AddedHolds DEF Fresh!Next
  <2>3. QED
    BY <1>1, <2>1, <2>2 DEF KeptOrAdded
<1>2. ASSUME NEW t \in Tasks,
             TaskStep(t) \/ PoolLoses(t) \/ \E k \in Keys : PrefetchAsync(t, k)
      PROVE  KeptOrAdded
  BY <1>2, KnownMapRead, KnownMapPush, KnownTaskGetRegion, KnownPutOrUnmap, KnownQuietTask
     DEF TaskStep
<1>3. ASSUME NEW g \in Getters,
             TryGetMap(g) \/ TryGetPut(g) \/ \E k \in Keys : TryGetCache(g, k)
      PROVE  KeptOrAdded
  BY <1>3, KnownTryGetMap, KnownTryGetPut, KnownTryGetCache
<1>4. ASSUME NEW i \in Invalidators,
             InvalidateCache(i) \/ InvalidateMap(i) \/ \E p \in Paths : BumpGeneration(i, p)
      PROVE  KeptOrAdded
  BY <1>4, KnownInvalidates
<1>5. ASSUME NEW p \in Paths, FileChanges(p) PROVE Fresh!Next
  <2>1. version' = [version EXCEPT ![p] = @ + 1] /\ UNCHANGED <<cache, map, floor>>
    BY <1>5 DEF FileChanges, sharedVars
  <2>2. Fresh!FileChanges(p)
    BY <2>1 DEF Fresh!FileChanges, Held
  <2>3. QED
    BY <2>2 DEF Fresh!Next
<1>6. CASE UNCHANGED prefetchVars
  BY <1>6 DEF prefetchVars, Fresh!vars, Held
<1>7. QED
  BY <1>1, <1>2, <1>3, <1>4, <1>5, <1>6, SettleVouches DEF PrefetchNext

\* IOPrefetchManager implements the abstract cache: whatever prefetches, TryGets,
\* invalidations and changes of files interleave, what comes to be cached or
\* mapped is a version that its file had and that is not older than what an
\* invalidation vouches for, and nothing of a path is cached or mapped when one
\* comes to vouch for it.
THEOREM PrefetchImplementsFreshCache == PrefetchSpec => ImplementsFreshCache
<1>1. PrefetchInit => KnownInv
  BY DEF PrefetchInit, KnownInv, KnownShared, KnownTask, KnownGetter, NewTask, Put0
<1>2. PrefetchInit => Fresh!Init
  <2> SUFFICES ASSUME PrefetchInit PROVE Fresh!Init
    OBVIOUS
  <2>1. Held = [p \in Paths |-> {}]
    BY DEF PrefetchInit, Held, ToSet
  <2>2. QED
    BY <2>1 DEF PrefetchInit, Fresh!Init
<1>3. PrefetchInv /\ KnownInv /\ [PrefetchNext]_prefetchVars => KnownInv'
  BY KnownInvStep
<1>4. PrefetchInv /\ KnownInv /\ [PrefetchNext]_prefetchVars
        => [Fresh!Next]_(Fresh!vars)
  BY StepIsFresh
<1>5. QED
  BY <1>1, <1>2, <1>3, <1>4, PrefetchInvariance, PTL DEF PrefetchSpec, ImplementsFreshCache, Fresh!Spec
=============================================================================
