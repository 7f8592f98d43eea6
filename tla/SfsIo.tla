------------------------------- MODULE SfsIo -------------------------------
(***************************************************************************)
(* How sfs_io cuts requests at any offset and of any length into a leading *)
(* partial block, whole blocks and a trailing partial block, each of which *)
(* may fail, and keeps the uio and the size of the file up to date.  What  *)
(* the blocks hold is in Sfs; here a transfer is the set of positions the  *)
(* uio passed (for a write whose sector is then lost, see SfsRetry).       *)
(***************************************************************************)
EXTENDS Naturals, FiniteSets

CONSTANTS BLOCKSIZE,
          ZEROS,       \* the bytes uiomovezeros moves at a time: 16
          MaxPos       \* bound on the end of a request, in bytes

ASSUME SfsIoAssumption ==
  BLOCKSIZE \in Nat \ {0} /\ ZEROS \in Nat \ {0} /\ MaxPos \in Nat

VARIABLES rw, off0, len0, size0,     \* the request, and the size it met
          uio_offset, uio_resid, extraresid, sfi_size,
          stage, nblocks,            \* where sfs_io is, and the whole blocks to go
          moved                      \* the positions transferred by this request

request == <<rw, off0, len0, size0>>
sio_vars == <<request, uio_offset, uio_resid, extraresid, sfi_size, stage, nblocks, moved>>

SfsIoInit ==
  /\ rw = "read" /\ off0 = 0 /\ len0 = 0 /\ size0 = 0
  /\ uio_offset = 0 /\ uio_resid = 0 /\ extraresid = 0 /\ sfi_size = 0
  /\ stage = "done" /\ nblocks = 0 /\ moved = {}

\* sfs_read or sfs_write is called.
Call ==
  /\ stage = "done"
  /\ \E d \in {"read", "write"}, off \in 0..MaxPos, len \in 0..MaxPos :
       /\ off + len <= MaxPos
       /\ rw' = d /\ off0' = off /\ len0' = len
       /\ uio_offset' = off /\ uio_resid' = len
  /\ size0' = sfi_size
  /\ extraresid' = 0 /\ nblocks' = 0 /\ moved' = {}
  /\ stage' = "eof"
  /\ UNCHANGED sfi_size

CheckEof ==
  LET endpos == uio_offset + uio_resid
  IN  /\ stage = "eof"
      /\ \/ /\ rw = "read" /\ uio_offset >= sfi_size
            /\ stage' = "done"
            /\ UNCHANGED <<uio_resid, extraresid>>
         \/ /\ rw = "read" /\ uio_offset < sfi_size /\ endpos > sfi_size
            /\ stage' = "leading"
            /\ extraresid' = endpos - sfi_size
            /\ uio_resid' = uio_resid - (endpos - sfi_size)
         \/ /\ rw = "read" => uio_offset < sfi_size /\ endpos <= sfi_size
            /\ stage' = "leading"
            /\ UNCHANGED <<uio_resid, extraresid>>
      /\ UNCHANGED <<request, uio_offset, sfi_size, nblocks, moved>>

Move(n) ==
  /\ moved' = moved \cup (uio_offset .. (uio_offset + n - 1))
  /\ uio_offset' = uio_offset + n
  /\ uio_resid' = uio_resid - n

\* sfs_partialio, for len bytes: mapping, reading or copying may fail, all
\* before the uio advances.  After it only sfs_wblock is left, which reports no
\* error (SfsRetry).
sfs_partialio(len, next) ==
  \/ Move(len) /\ stage' = next
  \/ stage' = "out" /\ UNCHANGED <<moved, uio_offset, uio_resid>>

\* sfs_blockio.  Reading a hole, uiomovezeros may fail after some of the block.
sfs_blockio(next) ==
  \/ Move(BLOCKSIZE) /\ stage' = next
  \/ \E k \in 0..(BLOCKSIZE - 1) :
       /\ k > 0 => rw = "read" /\ k % ZEROS = 0
       /\ Move(k) /\ stage' = "out"

LeadingPartial_NoMin ==    \* mutant: the rest of the block, however short the request
  /\ stage = "leading"
  /\ LET blkoff == uio_offset % BLOCKSIZE
     IN  \/ blkoff # 0 /\ sfs_partialio(BLOCKSIZE - blkoff, "whole")
         \/ blkoff = 0 /\ stage' = "whole" /\ UNCHANGED <<moved, uio_offset, uio_resid>>
  /\ UNCHANGED <<request, extraresid, sfi_size, nblocks>>

LeadingPartial ==
  /\ stage = "leading"
  /\ LET blkoff == uio_offset % BLOCKSIZE
         rest == BLOCKSIZE - blkoff
     IN  \/ blkoff # 0 /\ sfs_partialio(IF rest > uio_resid THEN uio_resid ELSE rest, "whole")
         \/ blkoff = 0 /\ stage' = "whole" /\ UNCHANGED <<moved, uio_offset, uio_resid>>
  /\ UNCHANGED <<request, extraresid, sfi_size, nblocks>>

CountBlocks ==
  /\ stage = "whole"
  /\ stage' = IF uio_resid = 0 THEN "out" ELSE "blocks"
  /\ nblocks' = uio_resid \div BLOCKSIZE
  /\ UNCHANGED <<request, uio_offset, uio_resid, extraresid, sfi_size, moved>>

WholeBlock ==
  /\ stage = "blocks" /\ nblocks > 0
  /\ sfs_blockio("blocks")
  /\ nblocks' = nblocks - 1
  /\ UNCHANGED <<request, extraresid, sfi_size>>

TrailingPartial ==
  /\ stage = "blocks" /\ nblocks = 0
  /\ \/ uio_resid > 0 /\ sfs_partialio(uio_resid, "out")
     \/ uio_resid = 0 /\ stage' = "out" /\ UNCHANGED <<moved, uio_offset, uio_resid>>
  /\ UNCHANGED <<request, extraresid, sfi_size, nblocks>>

Out_KeepsExtra ==    \* mutant: what was past the end is not given back
  /\ stage = "out"
  /\ stage' = "done"
  /\ sfi_size' = IF rw = "write" /\ uio_offset > sfi_size THEN uio_offset ELSE sfi_size
  /\ UNCHANGED <<request, uio_offset, uio_resid, extraresid, nblocks, moved>>

Out ==
  /\ stage = "out"
  /\ stage' = "done"
  /\ sfi_size' = IF rw = "write" /\ uio_offset > sfi_size THEN uio_offset ELSE sfi_size
  /\ uio_resid' = uio_resid + extraresid
  /\ UNCHANGED <<request, uio_offset, extraresid, nblocks, moved>>

SfsIoNext ==
  \/ Call \/ CheckEof \/ LeadingPartial
  \/ CountBlocks \/ WholeBlock \/ TrailingPartial \/ Out

SfsIoSpec == SfsIoInit /\ [][SfsIoNext]_sio_vars
----------------------------------------------------------------------------
(* Type invariant.                                                         *)
SfsIoTypeOK ==
  /\ rw \in {"read", "write"} /\ off0 \in Nat /\ len0 \in Nat /\ size0 \in Nat
  /\ uio_offset \in Nat /\ uio_resid \in Nat /\ extraresid \in Nat
  /\ sfi_size \in Nat /\ nblocks \in Nat /\ moved \subseteq 0..MaxPos
  /\ stage \in {"eof", "leading", "whole", "blocks", "out", "done"}

\* The assertions of sfs_io and sfs_blockio hold for every request: a read cut
\* at the end of the file is not empty, the whole blocks start at a block and
\* fit in what is left of the uio, and less than a block is left after them.
Aligned ==
  /\ stage = "leading" /\ extraresid > 0 => uio_resid > 0
  /\ stage = "blocks" => /\ uio_offset % BLOCKSIZE = 0
                         /\ uio_resid >= nblocks * BLOCKSIZE
                         /\ nblocks = 0 => uio_resid < BLOCKSIZE

\* What sfs_io transfers, also when it fails half-way, is a prefix of the
\* request and for a read ends at the end of the file at the latest; uio_resid
\* is what was not transferred when it returns, and the file is as long as it
\* was or ends where the writing ended.  On the way the assertions hold.
TransferAccounted ==
  /\ Aligned
  /\ moved = off0 .. (uio_offset - 1)
  /\ Cardinality(moved) <= len0
  /\ rw = "read" => \A p \in moved : p < size0
  /\ stage = "done" =>
       /\ uio_resid = len0 - Cardinality(moved)
       /\ rw = "read" => sfi_size = size0
       /\ rw = "write" => sfi_size = (IF uio_offset > size0 THEN uio_offset ELSE size0)
============================================================================
