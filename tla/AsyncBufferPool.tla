--------------------------- MODULE AsyncBufferPool ---------------------------
(***************************************************************************)
(* IO::AsyncIO::AsyncBufferPool: blocks of one size, and clients that hold *)
(* what they acquired and give it back in any order.  Each call is one     *)
(* critical section.  Blocks are numbered as they are allocated.           *)
(***************************************************************************)
EXTENDS Integers, SequencesExt

CONSTANTS InitialBlocks,    \* the blocks the constructor allocates
          MaxBlocks,        \* bound on the sizes given to Resize
          MaxAllocations,   \* bound on the blocks allocated
          Holders

ASSUME BlockAssumption ==
  /\ InitialBlocks \in Nat /\ MaxBlocks \in Nat
  /\ MaxAllocations \in Nat /\ InitialBlocks <= MaxAllocations

VARIABLES blocks, available, \* all_blocks_ and available_blocks_
          in_use,            \* the flag of each block
          next,              \* the next block to allocate
          block_of,          \* the blocks each client holds
          given_back         \* history: blocks that a Reset took while they were held

blockVars == <<blocks, available, in_use, next, block_of, given_back>>

Blocks == 1 .. MaxAllocations

BlocksInit ==
  /\ blocks = [i \in 1 .. InitialBlocks |-> i] /\ available = blocks
  /\ next = InitialBlocks + 1
  /\ in_use = [b \in Blocks |-> FALSE]
  /\ block_of = [h \in Holders |-> {}] /\ given_back = {}

\* AllocateBlocks: n new blocks, all of them available.
NewBlocks(n) == [i \in 1 .. n |-> next + i - 1]
CanAllocate(n) == next + n <= MaxAllocations + 1

AcquireBuffer(h) ==
  /\ LET new == NewBlocks(IF available = <<>> THEN 1 ELSE 0)
         free == available \o new
     IN /\ CanAllocate(Len(new))
        /\ blocks' = blocks \o new /\ next' = next + Len(new)
        /\ available' = Tail(free)
        /\ in_use' = [in_use EXCEPT ![Head(free)] = TRUE]
        /\ block_of' = [block_of EXCEPT ![h] = @ \cup {Head(free)}]
  /\ UNCHANGED given_back

\* Fault: a block that is not in use is put back all the same.
ReleaseBufferTwice(h, b) ==
  /\ b \in block_of[h]
  /\ block_of' = [block_of EXCEPT ![h] = @ \ {b}]
  /\ IF b \notin ToSet(blocks) THEN UNCHANGED <<available, in_use>>
     ELSE /\ in_use' = [in_use EXCEPT ![b] = FALSE]
          /\ available' = Append(available, b)
  /\ UNCHANGED <<blocks, next, given_back>>

\* ReleaseBuffer ignores a block that is not in use or no longer the pool's.
ReleaseBuffer(h, b) ==
  /\ b \in block_of[h]
  /\ block_of' = [block_of EXCEPT ![h] = @ \ {b}]
  /\ IF ~in_use[b] \/ b \notin ToSet(blocks) THEN UNCHANGED <<available, in_use>>
     ELSE /\ in_use' = [in_use EXCEPT ![b] = FALSE]
          /\ available' = Append(available, b)
  /\ UNCHANGED <<blocks, next, given_back>>

\* The blocks of s that are not in use, in their order.
Unused(s) ==
  LET f[i \in 0 .. Len(s)] == IF i = 0 THEN <<>>
                              ELSE IF in_use[s[i]] THEN f[i - 1] ELSE Append(f[i - 1], s[i])
  IN f[Len(s)]

\* Resize drops the last blocks, held or not.
Resize(n) ==
  /\ \/ /\ n > Len(blocks) /\ CanAllocate(n - Len(blocks))
        /\ LET new == NewBlocks(n - Len(blocks)) IN
           blocks' = blocks \o new /\ available' = available \o new /\ next' = next + Len(new)
     \/ /\ n < Len(blocks)
        /\ blocks' = SubSeq(blocks, 1, n)
        /\ available' = Unused(blocks')
        /\ UNCHANGED next
  /\ UNCHANGED <<in_use, block_of, given_back>>

\* Reset takes every block for free, the ones that are held too.
Reset ==
  /\ in_use' = [b \in Blocks |-> IF b \in ToSet(blocks) THEN FALSE ELSE in_use[b]]
  /\ available' = blocks
  /\ given_back' = given_back \cup (ToSet(blocks) \cap UNION {block_of[h] : h \in Holders})
  /\ UNCHANGED <<blocks, next, block_of>>

Trim ==
  /\ blocks' = <<>> /\ available' = <<>>
  /\ UNCHANGED <<in_use, next, block_of, given_back>>

BlocksNext ==
  \/ \E h \in Holders : AcquireBuffer(h) \/ \E b \in Blocks : ReleaseBuffer(h, b)
  \/ Reset \/ Trim \/ \E n \in 0 .. MaxBlocks : Resize(n)

BlocksSpec == BlocksInit /\ [][BlocksNext]_blockVars

\* A block is given to one client at a time and is not available while it is
\* held, through any resizing and trimming, except for the blocks that were
\* held when a Reset took them: only those are ever handed out twice.
BlocksExclusive ==
  /\ \A g, h \in Holders : g # h => block_of[g] \cap block_of[h] \subseteq given_back
  /\ \A h \in Holders : block_of[h] \cap ToSet(available) \subseteq given_back
  /\ \A i, j \in DOMAIN available : available[i] = available[j] => i = j
=============================================================================
