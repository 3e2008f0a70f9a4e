------------------------------ MODULE AsyncFile ------------------------------
(***************************************************************************)
(* IO::AsyncIO::AsyncFileReader and AsyncFileWriter: one object of each,   *)
(* their clients on any thread, and their operations on the shared         *)
(* IOThreadPool, which is seen through TaskService.                        *)
(*                                                                         *)
(* Every critical section of state_mutex_ is one action.  A file object is *)
(* known by its address, and an address may be used again once the object  *)
(* is deleted: that is what the comparison of file_handle_ with the        *)
(* captured pointer sees.  Data is abstracted to its length; last_error_   *)
(* and the calls that only report state are left out.                      *)
(***************************************************************************)
EXTENDS Integers, FiniteSets

CONSTANTS Reads, Writes,    \* the asynchronous reads and writes issued
          Files, FileSize,  \* the files that can be read and their lengths
          Addrs,            \* addresses of stream objects
          Null,             \* the null pointer
          Lengths,          \* lengths asked for and written
          Offsets,          \* offsets sought
          MaxBytes          \* bound on the bytes written by WriteSync

ASSUME AsyncFileAssumption ==
  /\ Reads \cap Writes = {} /\ Null \notin Addrs \cup Files
  /\ IsFiniteSet(Reads \cup Writes)
  /\ FileSize \in [Files -> Nat] /\ Lengths \subseteq Nat \ {0}
  /\ Offsets \subseteq Nat /\ MaxBytes \in Nat

VARIABLES reader,           \* the members of AsyncFileReader
          istream,          \* the ifstream behind file_handle_
          writer,           \* the members of AsyncFileWriter
          ostream,          \* the ofstream behind file_handle_
          op,               \* the local state of each asynchronous operation
          status, service   \* the thread pool

readerVars == <<reader, istream>>
writerVars == <<writer, ostream>>
poolVars == <<status, service>>
fileVars == <<reader, istream, writer, ostream, op, status, service>>

Ops == Reads \cup Writes
Pool == INSTANCE TaskService WITH Tasks <- Ops

\* An operation that set the in-progress flag and has not cleared it yet.
InFlight == {t \in Ops : op[t].pc \in {"flagged", "queued", "acted", "lost"}}
NewOp == [pc |-> "new", addr |-> Null, len |-> 0, got |-> 0, error |-> FALSE]

FileTypeOK ==
  /\ reader \in [handle : Addrs \cup {Null}, pos : Nat, size : Nat,
                 reading : BOOLEAN, pending : Int]
  /\ istream \in [file : Files \cup {Null}, at : Nat, fail : BOOLEAN]
  /\ writer \in [handle : Addrs \cup {Null}, bytes : Nat,
                 writing : BOOLEAN, pending : Int]
  /\ ostream \in [disk : Nat, buffered : Nat, fail : BOOLEAN]
  /\ op \in [Ops -> [pc : {"new", "flagged", "queued", "acted", "done", "lost"},
                     addr : Addrs \cup {Null}, len : Nat, got : Nat,
                     error : BOOLEAN]]

FileInit ==
  /\ reader = [handle |-> Null, pos |-> 0, size |-> 0, reading |-> FALSE, pending |-> 0]
  /\ istream = [file |-> Null, at |-> 0, fail |-> FALSE]
  /\ writer = [handle |-> Null, bytes |-> 0, writing |-> FALSE, pending |-> 0]
  /\ ostream = [disk |-> 0, buffered |-> 0, fail |-> FALSE]
  /\ op = [t \in Ops |-> NewOp]
  /\ Pool!Init

(***************************************************************************)
(* The reader.                                                             *)
(***************************************************************************)
\* A new stream object is placed anywhere but where another one lives; the
\* one it replaces has been deleted.
FreeAddrs(other) == Addrs \ {other}

\* Fault: the position of the previous file survives.
OpenFileKeepsPosition(f, a) ==
  /\ a \in FreeAddrs(writer.handle)
  /\ reader' = [reader EXCEPT !.handle = a, !.size = FileSize[f]]
  /\ istream' = [file |-> f, at |-> 0, fail |-> FALSE]
  /\ UNCHANGED <<writerVars, op, poolVars>>

OpenFile(f, a) ==
  /\ a \in FreeAddrs(writer.handle)
  /\ reader' = [reader EXCEPT !.handle = a, !.size = FileSize[f], !.pos = 0]
  /\ istream' = [file |-> f, at |-> 0, fail |-> FALSE]
  /\ UNCHANGED <<writerVars, op, poolVars>>

ClosedReader == [reader EXCEPT !.handle = Null, !.size = 0, !.pos = 0]
ClosedStream == [file |-> Null, at |-> 0, fail |-> FALSE]

\* The file cannot be opened: the previous one is closed all the same.
OpenFileFails ==
  /\ reader.handle # Null
  /\ reader' = ClosedReader /\ istream' = ClosedStream
  /\ UNCHANGED <<writerVars, op, poolVars>>

CloseFile ==
  /\ reader.handle # Null
  /\ reader' = ClosedReader /\ istream' = ClosedStream
  /\ UNCHANGED <<writerVars, op, poolVars>>

\* istream::read: nothing from a failed stream; a short read sets eofbit and
\* failbit.
StreamGot(n) ==
  LET left == IF istream.at < FileSize[istream.file]
              THEN FileSize[istream.file] - istream.at ELSE 0
  IN IF istream.fail THEN 0 ELSE IF n < left THEN n ELSE left
StreamRead(n) ==
  istream' = [istream EXCEPT !.at = @ + StreamGot(n), !.fail = @ \/ StreamGot(n) < n]

ReadSync(n) ==
  /\ reader.handle # Null
  /\ StreamRead(n)
  /\ reader' = [reader EXCEPT !.pos = @ + StreamGot(n)]
  /\ UNCHANGED <<writerVars, op, poolVars>>

\* seekg does nothing on a failed stream, but the member is set all the same.
Seek(offset) ==
  /\ reader.handle # Null
  /\ istream' = [istream EXCEPT !.at = IF istream.fail THEN @ ELSE offset]
  /\ reader' = [reader EXCEPT !.pos = offset]
  /\ UNCHANGED <<writerVars, op, poolVars>>

\* Fault: a second read is accepted while one is in progress.
ReadAsyncOverlapping(t, n) ==
  /\ op[t].pc = "new" /\ reader.handle # Null
  /\ reader' = [reader EXCEPT !.reading = TRUE, !.pending = @ + 1]
  /\ op' = [op EXCEPT ![t] = [NewOp EXCEPT !.pc = "flagged", !.addr = reader.handle,
                                           !.len = n]]
  /\ UNCHANGED <<istream, writerVars, poolVars>>

ReadAsync(t, n) ==
  /\ op[t].pc = "new" /\ reader.handle # Null /\ ~reader.reading
  /\ reader' = [reader EXCEPT !.reading = TRUE, !.pending = @ + 1]
  /\ op' = [op EXCEPT ![t] = [NewOp EXCEPT !.pc = "flagged", !.addr = reader.handle,
                                           !.len = n]]
  /\ UNCHANGED <<istream, writerVars, poolVars>>

\* The task on the pool: read if the handle is still the one captured.
ReadTask(t) ==
  /\ status[t] = "running" /\ op[t].pc = "queued"
  /\ LET same == reader.handle = op[t].addr
         got == IF same THEN StreamGot(op[t].len) ELSE 0
     IN /\ IF same THEN StreamRead(op[t].len) ELSE UNCHANGED istream
        /\ reader' = [reader EXCEPT !.pos = @ + got]
        /\ op' = [op EXCEPT ![t].pc = "acted", ![t].got = got, ![t].error = ~same]
  /\ UNCHANGED <<writerVars, poolVars>>

\* After the callback, which runs outside the lock: the flag is cleared and
\* the task ends.
ReadTaskEnds(t) ==
  /\ op[t].pc = "acted"
  /\ reader' = [reader EXCEPT !.reading = FALSE, !.pending = @ - 1]
  /\ op' = [op EXCEPT ![t] = [NewOp EXCEPT !.pc = "done"]]
  /\ Pool!Finish(t)
  /\ UNCHANGED <<istream, writerVars>>

(***************************************************************************)
(* The writer.                                                             *)
(***************************************************************************)
\* Fault: the count of the previous file survives.
CreateFileKeepsCount(a) ==
  /\ a \in FreeAddrs(reader.handle)
  /\ writer' = [writer EXCEPT !.handle = a]
  /\ ostream' = [disk |-> 0, buffered |-> 0, fail |-> FALSE]
  /\ UNCHANGED <<readerVars, op, poolVars>>

\* The stream that is replaced is flushed, closed and deleted; only the data
\* of the current stream is followed.
CreateFile(a) ==
  /\ a \in FreeAddrs(reader.handle)
  /\ writer' = [writer EXCEPT !.handle = a, !.bytes = 0]
  /\ ostream' = [disk |-> 0, buffered |-> 0, fail |-> FALSE]
  /\ UNCHANGED <<readerVars, op, poolVars>>

CreateFileFails ==
  /\ writer.handle # Null
  /\ writer' = [writer EXCEPT !.handle = Null]
  /\ ostream' = [disk |-> 0, buffered |-> 0, fail |-> FALSE]
  /\ UNCHANGED <<readerVars, op, poolVars>>

CloseWriter ==
  /\ writer.handle # Null
  /\ writer' = [writer EXCEPT !.handle = Null]
  /\ ostream' = [disk |-> 0, buffered |-> 0, fail |-> FALSE]
  /\ UNCHANGED <<readerVars, op, poolVars>>

\* ostream::write: the data is buffered, or the buffer is written out with
\* it, or the device refuses it and the stream fails for good.
StreamWrite(n) ==
  \/ /\ ~ostream.fail
     /\ ostream' \in {[ostream EXCEPT !.buffered = @ + n],
                      [ostream EXCEPT !.disk = @ + ostream.buffered + n, !.buffered = 0]}
  \/ ostream' = [ostream EXCEPT !.fail = TRUE]

\* bytes_written_ after a write of n bytes.
Counted(n) == writer.bytes + (IF ostream'.fail THEN 0 ELSE n)

WriteSync(n) ==
  /\ writer.handle # Null /\ writer.bytes + n <= MaxBytes
  /\ StreamWrite(n)
  /\ writer' = [writer EXCEPT !.bytes = Counted(n)]
  /\ UNCHANGED <<readerVars, op, poolVars>>

FlushBuffer ==
  /\ writer.handle # Null
  /\ \/ /\ ~ostream.fail
        /\ ostream' = [ostream EXCEPT !.disk = @ + ostream.buffered, !.buffered = 0]
     \/ ostream' = [ostream EXCEPT !.fail = TRUE]
  /\ UNCHANGED <<readerVars, writer, op, poolVars>>

WriteAsync(t, n) ==
  /\ op[t].pc = "new" /\ writer.handle # Null /\ ~writer.writing
  /\ writer' = [writer EXCEPT !.writing = TRUE, !.pending = @ + 1]
  /\ op' = [op EXCEPT ![t] = [NewOp EXCEPT !.pc = "flagged", !.addr = writer.handle,
                                           !.len = n]]
  /\ UNCHANGED <<readerVars, ostream, poolVars>>

WriteTask(t) ==
  /\ status[t] = "running" /\ op[t].pc = "queued"
  /\ IF writer.handle = op[t].addr
     THEN /\ StreamWrite(op[t].len)
          /\ writer' = [writer EXCEPT !.bytes = Counted(op[t].len)]
          /\ op' = [op EXCEPT ![t].pc = "acted", ![t].error = ostream'.fail,
                              ![t].got = IF ostream'.fail THEN 0 ELSE op[t].len]
     ELSE /\ op' = [op EXCEPT ![t].pc = "acted", ![t].error = TRUE]
          /\ UNCHANGED writerVars
  /\ UNCHANGED <<readerVars, poolVars>>

WriteTaskEnds(t) ==
  /\ op[t].pc = "acted"
  /\ writer' = [writer EXCEPT !.writing = FALSE, !.pending = @ - 1]
  /\ op' = [op EXCEPT ![t] = [NewOp EXCEPT !.pc = "done"]]
  /\ Pool!Finish(t)
  /\ UNCHANGED <<ostream, readerVars>>

(***************************************************************************)
(* The specification.                                                      *)
(***************************************************************************)
\* Fault: the handoff is forgotten when the pool is busy closing.
EnqueueForgets(t) ==
  /\ op[t].pc = "flagged" /\ service = "open"
  /\ op' = [op EXCEPT ![t].pc = "queued"] /\ Pool!Submit(t)
  /\ UNCHANGED <<readerVars, writerVars>>

\* IOThreadPool::Enqueue, called after the lock is released.
Enqueue(t) ==
  /\ op[t].pc = "flagged"
  /\ \/ op' = [op EXCEPT ![t].pc = "queued"] /\ Pool!Submit(t)
     \/ op' = [op EXCEPT ![t].pc = "lost"] /\ Pool!SubmitLost(t)
  /\ UNCHANGED <<readerVars, writerVars>>

ReaderCalls == \/ OpenFileFails \/ CloseFile
               \/ \E f \in Files, a \in Addrs : OpenFile(f, a)
               \/ \E n \in Lengths : ReadSync(n) \/ \E t \in Reads : ReadAsync(t, n)
               \/ \E o \in Offsets : Seek(o)
WriterCalls == \/ CreateFileFails \/ CloseWriter \/ FlushBuffer
               \/ \E a \in Addrs : CreateFile(a)
               \/ \E n \in Lengths : WriteSync(n) \/ \E t \in Writes : WriteAsync(t, n)
PoolSteps == /\ \/ \E t \in Ops : Pool!Begin(t)
                \/ Pool!Close \/ Pool!Closed \/ Pool!Reopen
             /\ UNCHANGED <<readerVars, writerVars, op>>

FileNext == \/ ReaderCalls \/ WriterCalls \/ PoolSteps
            \/ \E t \in Ops : Enqueue(t)
            \/ \E t \in Reads : ReadTask(t) \/ ReadTaskEnds(t)
            \/ \E t \in Writes : WriteTask(t) \/ WriteTaskEnds(t)

\* A thread that entered an operation leaves it; the pool starts what it
\* accepted (TaskService, implemented by IOThreadPool).
FileFairness ==
  /\ \A t \in Ops : /\ WF_fileVars(Enqueue(t))
                    /\ WF_fileVars(Pool!Begin(t) /\ UNCHANGED <<readerVars, writerVars, op>>)
  /\ \A t \in Reads : WF_fileVars(ReadTask(t)) /\ WF_fileVars(ReadTaskEnds(t))
  /\ \A t \in Writes : WF_fileVars(WriteTask(t)) /\ WF_fileVars(WriteTaskEnds(t))

FileSafeSpec == FileInit /\ [][FileNext]_fileVars
FileSpec == FileSafeSpec /\ FileFairness

(***************************************************************************)
(* Properties.                                                             *)
(***************************************************************************)
\* is_reading_ and pending_ops_ agree with the reads between the section that
\* sets them (async_file_reader.cc:80) and the one that clears them (:107),
\* whatever opens and closes come between: there is at most one, and while its
\* callback runs a new read is refused.  A read handed to a pool that drops it
\* holds the flag for ever.  The writer keeps the same account.
OpsAccounted ==
  /\ reader.pending = Cardinality(InFlight \cap Reads) /\ reader.pending <= 1
  /\ reader.reading <=> reader.pending = 1
  /\ writer.pending = Cardinality(InFlight \cap Writes) /\ writer.pending <= 1
  /\ writer.writing <=> writer.pending = 1

\* While the stream has not failed, GetPosition is where the next read starts,
\* for reads that were queued before a CloseFile and OpenFile and run after it
\* too.  After a short read the stream stays failed: Seek then moves the
\* reported position only (async_file_reader.cc:145).
PositionTracksStream ==
  reader.handle # Null /\ ~istream.fail => reader.pos = istream.at

\* GetBytesWritten is what the current stream accepted since CreateFile: a
\* write queued for a stream that was closed since is not counted.
CountsAccepted ==
  writer.handle # Null /\ ~ostream.fail =>
    writer.bytes = ostream.disk + ostream.buffered

\* An operation that was accepted calls back and clears its flag, unless the
\* pool is closed or loses it while closing.
OpsComplete ==
  \A t \in Ops : op[t].pc = "flagged" ~>
                    op[t].pc \in {"done", "lost"} \/ service = "closed"
=============================================================================
